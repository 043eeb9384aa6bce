---------------------------- MODULE Transcripts ----------------------------
(***************************************************************************)
(* The transcripts a client's store keeps: the few sessions opened lately, *)
(* their newest page, the older pages read on demand, and the events and   *)
(* re-reads that keep them current (holdMessages, refreshTail, openNow,    *)
(* loadOlder, settle and resync of oc-client/src/store/store.ts, with      *)
(* mergeProjection of oc-client/src/transcript-reducer.ts).                *)
(*                                                                         *)
(* The messages of a session are numbered from 1 as the service makes      *)
(* them.  Updates apply at once: the frame that delays them all alike, and *)
(* prompts and reverts, are modelled in Prompts.                           *)
(***************************************************************************)
EXTENDS Naturals, Sequences, FiniteSets, SequencesExt, Subsequences

CONSTANTS
  Sessions,
  PageSize,      \* pageSize: 60 in the code
  Keep,          \* keepTranscripts: 4 in the code
  MaxLen,        \* bound: messages of a session
  MaxCommands,   \* bound: what the user does
  MaxFaults,     \* bound: failed reads and dropped streams
  MaxReads,      \* bound: reads under way at a time
  MaxBus,        \* bound: events on their way
  NoSession      \* what a connection and the list are about

TranscriptsBounds ==
  /\ PageSize \in Nat \ {0} /\ Keep \in Nat \ {0} /\ MaxLen \in Nat /\ MaxLen > PageSize
  /\ MaxCommands \in Nat /\ MaxFaults \in Nat /\ MaxReads \in Nat \ {0} /\ MaxBus \in Nat \ {0, 1}
  /\ NoSession \notin Sessions

Messages == 1 .. MaxLen

VARIABLES
  recent,        \* sessions held, the one opened last at the end
  held,          \* sessions with rows in session.message
  rows,          \* their rows, oldest first
  paging,        \* session.paging
  opening,       \* opens under way
  settling,      \* settle timers
  reads,         \* reads under way
  len,           \* the service: how many messages each session has
  bus,           \* events on their way
  up,            \* the event stream is connected
  commands, faults,
  unread,        \* history: sessions whose re-read failed
  revived        \* history: sessions forgotten with a read under way

clientVars == <<recent, held, rows, paging, opening, settling>>
vars == <<clientVars, reads, len, bus, up, commands, faults, unread, revived>>

NoPaging == [cursor |-> 0, hydrated |-> FALSE, loadingOlder |-> FALSE]
Paging == [cursor : 0 .. MaxLen, hydrated : BOOLEAN, loadingOlder : BOOLEAN]
Kinds == {"open", "warm", "older", "tail", "list"}
Reads == [kind : Kinds, of : Sessions \cup {NoSession}, before : 0 .. MaxLen + 1, served : BOOLEAN,
          page : Seq(Messages)]
Events == [type : {"connected", "message", "ended"}, of : Sessions \cup {NoSession},
           id : 0 .. MaxLen]

TypeOK ==
  /\ recent \in Seq(Sessions) /\ IsInjective(recent) /\ Len(recent) <= Keep
  /\ held \subseteq Sessions
  /\ rows \in [Sessions -> Seq(Messages)]
  /\ \A s \in Sessions : IsInjective(rows[s]) /\ (s \notin held => rows[s] = <<>>)
  /\ paging \in [Sessions -> Paging]
  /\ opening \subseteq Sessions /\ settling \subseteq Sessions
  /\ reads \in Seq(Reads) /\ Len(reads) <= MaxReads
  /\ len \in [Sessions -> 0 .. MaxLen]
  /\ bus \in Seq(Events) /\ up \in BOOLEAN
  /\ commands \in 0 .. MaxCommands /\ faults \in 0 .. MaxFaults
  /\ unread \subseteq Sessions /\ revived \subseteq Sessions

-----------------------------------------------------------------------------
(* Rows and pages *)

\* The page of messages before "before", oldest first, and where the next
\* older one starts; 0 when there is none.
PageBefore(before) ==
  LET first == IF before > PageSize THEN before - PageSize ELSE 1
  IN [i \in 1 .. before - first |-> first + i - 1]

Cursor(page) == IF page = <<>> \/ page[1] = 1 THEN 0 ELSE page[1]

Missing(page, s) == Only(page, Messages \ ToSet(s))

\* Mutant: every message of the page is added.
MergeProjection_Blind(s, page) == s \o page

\* mergeProjection: what the page adds goes to the end.
MergeProjection(s, page) == s \o Missing(page, s)

Put(s, new) == rows' = [rows EXCEPT ![s] = new] /\ held' = held \cup {s}

SetPaging(s, patch) == paging' = [paging EXCEPT ![s] = patch]

-----------------------------------------------------------------------------
(* Reads *)

Read(kind, s, before) ==
  [kind |-> kind, of |-> s, before |-> before, served |-> FALSE, page |-> <<>>]

Ask(kept, more) ==
  /\ Len(kept) + Len(more) <= MaxReads
  /\ reads' = kept \o more

UserCommand ==
  /\ commands < MaxCommands
  /\ commands' = commands + 1

Fault ==
  /\ faults < MaxFaults
  /\ faults' = faults + 1

Init ==
  /\ recent = <<>> /\ held = {} /\ rows = [s \in Sessions |-> <<>>]
  /\ paging = [s \in Sessions |-> NoPaging]
  /\ opening = {} /\ settling = {} /\ reads = <<>>
  /\ len \in [Sessions -> {PageSize + 1}]
  /\ bus = <<>> /\ up = TRUE
  /\ commands = 0 /\ faults = 0 /\ unread = {} /\ revived = {}

\* The session moves to the end of "recent"; beyond "Keep" the oldest goes.
Recent(s) == Append(Only(recent, Sessions \ {s}), s)
Forgotten(s) ==
  {Recent(s)[i] : i \in 1 .. (IF Len(Recent(s)) > Keep THEN Len(Recent(s)) - Keep ELSE 0)}

HoldMessages(s) ==
  /\ recent' = Only(Recent(s), Sessions \ Forgotten(s))
  /\ held' = (held \cup {s}) \ Forgotten(s)
  /\ rows' = [r \in Sessions |-> IF r \in Forgotten(s) THEN <<>> ELSE rows[r]]
  /\ paging' = [r \in Sessions |-> IF r \in Forgotten(s) THEN NoPaging ELSE paging[r]]

\* open(): a second open of a session being opened shares its reads.
Open(s) ==
  /\ UserCommand
  /\ IF s \in opening THEN UNCHANGED <<clientVars, reads, revived>>
     ELSE /\ opening' = opening \cup {s}
          /\ HoldMessages(s)
          /\ Ask(reads, <<Read(IF s \in held THEN "warm" ELSE "open", s, 0)>>)
          /\ revived' = revived \cup {r \in Forgotten(s) :
               \E i \in DOMAIN reads : reads[i].of = r /\ reads[i].kind \in {"open", "older"}}
          /\ UNCHANGED settling
  /\ UNCHANGED <<len, bus, up, faults, unread>>

\* The reader scrolls to the top of the session on screen.
LoadOlder(s) ==
  /\ recent # <<>> /\ s = Last(recent)
  /\ paging[s].cursor # 0 /\ ~paging[s].loadingOlder
  /\ UserCommand
  /\ SetPaging(s, [paging[s] EXCEPT !.loadingOlder = TRUE])
  /\ Ask(reads, <<Read("older", s, paging[s].cursor)>>)
  /\ UNCHANGED <<recent, held, rows, opening, settling, len, bus, up, faults, unread,
                 revived>>

-----------------------------------------------------------------------------
(* Answers *)

ReadServed(i) ==
  /\ i \in DOMAIN reads /\ ~reads[i].served
  /\ LET r == reads[i]
         before == CASE r.kind = "list" -> 1
                     [] r.kind = "older" -> r.before
                     [] OTHER -> len[r.of] + 1
     IN reads' = [reads EXCEPT ![i].served = TRUE, ![i].page = PageBefore(before)]
  /\ UNCHANGED <<clientVars, len, bus, up, commands, faults, unread, revived>>

\* The first page is in: it goes under what the events brought meanwhile.
OpenBack(i) ==
  /\ i \in DOMAIN reads /\ reads[i].kind = "open" /\ reads[i].served
  /\ LET s == reads[i].of
         page == reads[i].page
     IN /\ Put(s, MergeProjection(page, rows[s]))
        /\ SetPaging(s, [paging[s] EXCEPT !.cursor = Cursor(page), !.hydrated = TRUE])
        /\ opening' = opening \ {s}
  /\ Ask(RemoveAt(reads, i), <<>>)
  /\ UNCHANGED <<recent, settling, len, bus, up, commands, faults, unread, revived>>

\* refreshTail: the newest page again, unless the session was forgotten.
TailBack(i) ==
  /\ i \in DOMAIN reads /\ reads[i].kind \in {"warm", "tail"} /\ reads[i].served
  /\ LET s == reads[i].of
     IN /\ IF s \in held THEN Put(s, MergeProjection(rows[s], reads[i].page))
           ELSE UNCHANGED <<rows, held>>
        /\ opening' = IF reads[i].kind = "warm" THEN opening \ {s} ELSE opening
  /\ Ask(RemoveAt(reads, i), <<>>)
  /\ UNCHANGED <<recent, paging, settling, len, bus, up, commands, faults, unread, revived>>

OlderBack(i) ==
  /\ i \in DOMAIN reads /\ reads[i].kind = "older" /\ reads[i].served
  /\ LET s == reads[i].of
         page == reads[i].page
     IN /\ Put(s, Missing(page, rows[s]) \o rows[s])
        /\ SetPaging(s, [paging[s] EXCEPT !.cursor = Cursor(page), !.loadingOlder = FALSE])
  /\ Ask(RemoveAt(reads, i), <<>>)
  /\ UNCHANGED <<recent, opening, settling, len, bus, up, commands, faults, unread, revived>>

Tails == [i \in DOMAIN recent |-> Read("tail", recent[i], 0)]

\* Mutant: a connection reads the list only.
ListBack_NoTails(i) ==
  /\ i \in DOMAIN reads /\ reads[i].kind = "list" /\ reads[i].served
  /\ Ask(RemoveAt(reads, i), <<>>)
  /\ UNCHANGED <<clientVars, len, bus, up, commands, faults, unread, revived>>

\* resync: whether the list came or not, every transcript kept is read again.
ListBack(i) ==
  /\ i \in DOMAIN reads /\ reads[i].kind = "list" /\ reads[i].served
  /\ Ask(RemoveAt(reads, i), Tails)
  /\ UNCHANGED <<clientVars, len, bus, up, commands, faults, unread, revived>>

\* A read fails: reported, and what waited for it goes on.
ReadFailed(i) ==
  /\ i \in DOMAIN reads /\ Fault
  /\ LET s == reads[i].of
     IN CASE reads[i].kind = "open" ->
               /\ SetPaging(s, [paging[s] EXCEPT !.hydrated = TRUE])
               /\ opening' = opening \ {s}
          [] reads[i].kind = "warm" ->
               opening' = opening \ {s} /\ UNCHANGED paging
          [] reads[i].kind = "older" ->
               /\ SetPaging(s, [paging[s] EXCEPT !.loadingOlder = FALSE])
               /\ UNCHANGED opening
          [] OTHER -> UNCHANGED <<opening, paging>>
  /\ Ask(RemoveAt(reads, i), IF reads[i].kind = "list" THEN Tails ELSE <<>>)
  /\ unread' = IF reads[i].kind \in {"open", "warm", "tail"}
               THEN unread \cup {reads[i].of} ELSE unread
  /\ UNCHANGED <<recent, held, rows, settling, len, bus, up, commands,
                 revived>>

-----------------------------------------------------------------------------
(* The service and the bus *)

Event(type, s, id) == [type |-> type, of |-> s, id |-> id]

\* A turn adds a message; the last one ends it.
NewMessage(s, last) ==
  /\ len[s] < MaxLen
  /\ len' = [len EXCEPT ![s] = @ + 1]
  /\ LET events == <<Event("message", s, len[s] + 1)>>
                     \o (IF last THEN <<Event("ended", s, 0)>> ELSE <<>>)
     IN IF up THEN /\ Len(bus) + Len(events) <= MaxBus
                   /\ bus' = bus \o events
        ELSE UNCHANGED bus
  /\ UNCHANGED <<clientVars, reads, up, commands, faults, unread, revived>>

\* onEvent: events of sessions not held are dropped; the end of a turn arms
\* the settle timer; a connection reads the list.
OnEvent ==
  /\ bus # <<>>
  /\ bus' = Tail(bus)
  /\ LET e == Head(bus)
     IN /\ IF e.type = "message" /\ e.of \in held
           THEN rows' = [rows EXCEPT ![e.of] = @ \o Missing(<<e.id>>, @)]
           ELSE UNCHANGED rows
        /\ settling' = IF e.type = "ended" /\ e.of \in held
                       THEN settling \cup {e.of} ELSE settling
        /\ Ask(reads, IF e.type = "connected" THEN <<Read("list", NoSession, 0)>> ELSE <<>>)
  /\ UNCHANGED <<recent, held, paging, opening, len, up, commands, faults, unread, revived>>

Settle(s) ==
  /\ s \in settling
  /\ settling' = settling \ {s}
  /\ Ask(reads, <<Read("tail", s, 0)>>)
  /\ UNCHANGED <<recent, held, rows, paging, opening, len, bus, up, commands, faults,
                 unread, revived>>

BusLost ==
  /\ up /\ Fault
  /\ up' = FALSE
  /\ bus' = <<>>
  /\ UNCHANGED <<clientVars, reads, len, commands, unread, revived>>

Reconnect ==
  /\ ~up
  /\ up' = TRUE
  /\ bus' = <<Event("connected", NoSession, 0)>>
  /\ UNCHANGED <<clientVars, reads, len, commands, faults, unread, revived>>

-----------------------------------------------------------------------------

ReadStep ==
  \E i \in DOMAIN reads :
    \/ ReadServed(i)
    \/ OpenBack(i) \/ TailBack(i) \/ OlderBack(i) \/ ListBack(i)
    \/ ReadFailed(i)

Next ==
  \/ ReadStep
  \/ \E s \in Sessions : Open(s) \/ LoadOlder(s) \/ Settle(s)
  \/ \E s \in Sessions, last \in BOOLEAN : NewMessage(s, last)
  \/ OnEvent \/ BusLost \/ Reconnect

Spec == Init /\ [][Next]_vars

-----------------------------------------------------------------------------
(* Properties *)

\* Nothing under way that could still change what is shown.
Quiet == reads = <<>> /\ up /\ bus = <<>> /\ settling = {}

\* Once everything has settled, each transcript kept shows the newest message
\* of its session, whatever was missed while the stream was down (resync,
\* refreshTail), unless one of its own reads failed.
Newest ==
  Quiet => \A s \in ToSet(recent) \ unread : Contains(rows[s], len[s])

\* What the screens show as loading ends: "loadingOlder" is set only while a
\* page of older messages is being read, and a session kept that was never
\* forgotten under a read is unhydrated only while its first page is.
LoadingEnds ==
  \A s \in Sessions :
    /\ paging[s].loadingOlder =>
         \E i \in DOMAIN reads : reads[i].kind = "older" /\ reads[i].of = s
    /\ s \in ToSet(recent) \ revived /\ ~paging[s].hydrated =>
         \E i \in DOMAIN reads : reads[i].kind = "open" /\ reads[i].of = s

\* Without failures, no message can be lost between the pages and the events:
\* each message of a session kept is shown or older than the cursor, so that
\* scrolling up reaches it (openNow, loadOlder).
Reachable ==
  Quiet /\ faults = 0 => \A s \in ToSet(recent) \ revived : \A m \in 1 .. len[s] :
     m < paging[s].cursor \/ Contains(rows[s], m)

\* The only sessions kept beyond the last "Keep" opened are those forgotten
\* while their first or an older page was read: a late refresh brings no
\* session back (the hasMessages test of refreshTail).
Revived == held \subseteq ToSet(recent) \cup revived

\* The transcripts kept are those opened lately, each with its newest message and
\* with every older one shown or to be reached by scrolling up; no spinner of
\* theirs outlives the read it stands for.
Kept == Newest /\ Reachable /\ Revived /\ LoadingEnds

=============================================================================
