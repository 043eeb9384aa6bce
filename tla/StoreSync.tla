----------------------------- MODULE StoreSync -----------------------------
(***************************************************************************)
(* How a client's store mirrors one listed session of the opencode         *)
(* service: start(), resync(), onEvent() and the reads of                  *)
(* oc-client/src/store/store.ts, over the reconnecting event stream of     *)
(* oc-client/src/events.ts.  Three parts of the session are followed: its  *)
(* row in the list, whether a turn runs, and the requests that wait on the *)
(* user (the cards).  Reads and events travel on streams of their own, so  *)
(* an answer may come back after events about later changes.               *)
(*                                                                         *)
(* A row is a version, 0 when there is none.  The service and the other    *)
(* clients are external.  Updates apply at once: the frame that delays     *)
(* them all alike is modelled in Prompts.                                  *)
(***************************************************************************)
EXTENDS Naturals, Sequences, FiniteSets, SequencesExt

CONSTANTS
  MaxRow,        \* bound: versions of the row
  MaxCard,       \* bound: requests the agent makes
  MaxChanges,    \* bound: changes at the service and what the user does
  MaxFaults,     \* bound: failed requests and dropped streams
  MaxReads,      \* bound: reads under way at a time
  MaxBus         \* bound: events on their way

StoreSyncBounds ==
  /\ MaxRow \in Nat \ {0} /\ MaxCard \in Nat \ {0} /\ MaxChanges \in Nat
  /\ MaxFaults \in Nat /\ MaxReads \in Nat \ {0, 1} /\ MaxBus \in Nat \ {0}

Cards == 1 .. MaxCard
Parts == {"row", "busy", "cards"}

VARIABLES
  status,        \* status: connecting, ready or error
  skip,          \* skipConnected
  row,           \* session.info: the row shown, 0 if none
  busy,          \* session.active
  cards,         \* session.permission and session.form
  replying,      \* cards whose answer is on its way
  reads,         \* reads under way
  stream,        \* the event stream: dialing or open
  bus,           \* events on their way
  sRow,          \* the service: the row, 0 if none
  sBusy,         \* the service: a turn runs
  sCards,        \* the service: requests waiting on the user
  version,       \* the last version of the row
  asked,         \* the last request made
  changes, faults,
  overtaken,     \* history: parts changed behind a read, or not read again
  missed         \* history: cards settled while no stream was open

shownVars == <<status, skip, row, busy, cards>>
serviceVars == <<sRow, sBusy, sCards, version, asked>>
vars == <<shownVars, replying, reads, stream, bus, serviceVars, changes, faults,
          overtaken, missed>>

Kinds == {"start", "resync", "row", "pending"}
Reads == [kind : Kinds, got : SUBSET Parts, row : 0 .. MaxRow, busy : BOOLEAN,
          cards : SUBSET Cards]
Events == [type : {"connected", "created", "deleted", "started", "ended"}, of : {0}]
          \cup [type : {"renamed"}, of : 1 .. MaxRow]
          \cup [type : {"asked", "replied"}, of : Cards]

TypeOK ==
  /\ status \in {"connecting", "ready", "error"}
  /\ skip \in BOOLEAN
  /\ row \in 0 .. MaxRow /\ sRow \in 0 .. MaxRow /\ version \in 0 .. MaxRow
  /\ busy \in BOOLEAN /\ sBusy \in BOOLEAN
  /\ cards \subseteq Cards /\ sCards \subseteq Cards /\ asked \in 0 .. MaxCard
  /\ replying \subseteq Cards
  /\ reads \in Seq(Reads) /\ Len(reads) <= MaxReads
  /\ stream \in {"dialing", "open"}
  /\ bus \in Seq(Events) /\ Len(bus) <= MaxBus
  /\ changes \in 0 .. MaxChanges /\ faults \in 0 .. MaxFaults
  /\ overtaken \subseteq Parts /\ missed \subseteq Cards

-----------------------------------------------------------------------------
(* Reads *)

\* What each kind of read asks the service for.  loadSessions sends two
\* requests, answered at different moments.
Wanted(kind) ==
  CASE kind \in {"start", "resync"} -> {"row", "busy"}
    [] kind = "row" -> {"row"}
    [] kind = "pending" -> {"cards"}

Read(kind) ==
  [kind |-> kind, got |-> {}, row |-> 0, busy |-> FALSE, cards |-> {}]

Ask(kept, kinds) ==
  /\ Len(kept) + Len(kinds) <= MaxReads
  /\ reads' = kept \o [i \in DOMAIN kinds |-> Read(kinds[i])]

When(condition, kinds) == IF condition THEN kinds ELSE <<>>

Fault ==
  /\ faults < MaxFaults
  /\ faults' = faults + 1

Change ==
  /\ changes < MaxChanges
  /\ changes' = changes + 1

\* start(): the stream is dialed and the list read at the same time.
Init ==
  /\ status = "connecting" /\ skip = TRUE
  /\ row = 0 /\ busy = FALSE /\ cards = {} /\ replying = {}
  /\ reads = <<Read("start")>>
  /\ stream = "dialing" /\ bus = <<>>
  /\ sRow \in {0, 1} /\ version = 1
  /\ sBusy = FALSE /\ sCards = {} /\ asked = 0
  /\ changes = 0 /\ faults = 0
  /\ overtaken = {} /\ missed = {}

ReadServed(i, part) ==
  /\ i \in DOMAIN reads
  /\ part \in Wanted(reads[i].kind) \ reads[i].got
  /\ LET r == reads[i]
     IN reads' = [reads EXCEPT ![i] =
          [kind |-> r.kind, got |-> r.got \cup {part},
           row |-> IF part = "row" THEN sRow ELSE r.row,
           busy |-> IF part = "busy" THEN sBusy ELSE r.busy,
           cards |-> IF part = "cards" THEN sCards ELSE r.cards]]
  /\ UNCHANGED <<shownVars, replying, stream, bus, serviceVars, changes, faults,
                 overtaken, missed>>

\* The list and the running sessions are in: both replace what is shown, and
\* a running session's requests are read next (its row, if the list has none).
ListBack(i) ==
  /\ i \in DOMAIN reads
  /\ reads[i].kind \in {"start", "resync"} /\ reads[i].got = Wanted("start")
  /\ row' = reads[i].row
  /\ busy' = reads[i].busy
  /\ status' = "ready"
  /\ Ask(RemoveAt(reads, i),
         When(reads[i].busy, <<"pending">> \o When(reads[i].row = 0, <<"row">>)))
  /\ UNCHANGED <<skip, cards, replying, stream, bus, serviceVars, changes, faults,
                 overtaken, missed>>

\* A row that no longer exists is an error the store only reports.
RowBack(i) ==
  /\ i \in DOMAIN reads /\ reads[i].kind = "row" /\ reads[i].got = {"row"}
  /\ row' = IF reads[i].row = 0 THEN row ELSE reads[i].row
  /\ Ask(RemoveAt(reads, i), <<>>)
  /\ UNCHANGED <<status, skip, busy, cards, replying, stream, bus, serviceVars,
                 changes, faults, overtaken, missed>>

PendingBack(i) ==
  /\ i \in DOMAIN reads /\ reads[i].kind = "pending" /\ reads[i].got = {"cards"}
  /\ cards' = reads[i].cards
  /\ Ask(RemoveAt(reads, i), <<>>)
  /\ UNCHANGED <<status, skip, row, busy, replying, stream, bus, serviceVars,
                 changes, faults, overtaken, missed>>

\* Mutant: a failed start leaves a status the store does not have.
ReadFailed_Offline(i) ==
  /\ i \in DOMAIN reads /\ Fault
  /\ Ask(RemoveAt(reads, i), <<>>)
  /\ IF reads[i].kind = "start"
     THEN /\ skip' = FALSE /\ status' = "offline"
          /\ overtaken' = IF skip THEN overtaken ELSE Parts
     ELSE /\ UNCHANGED <<skip, status>>
          /\ overtaken' = overtaken \cup IF reads[i].kind = "resync" THEN Parts
                                         ELSE Wanted(reads[i].kind)
  /\ UNCHANGED <<row, busy, cards, replying, stream, bus, serviceVars, changes,
                 missed>>

\* A read fails.  A failed start leaves the rest to the next connection; the
\* others are reported and forgotten.
ReadFailed(i) ==
  /\ i \in DOMAIN reads /\ Fault
  /\ Ask(RemoveAt(reads, i), <<>>)
  /\ IF reads[i].kind = "start"
     THEN /\ skip' = FALSE /\ status' = "error"
          /\ overtaken' = IF skip THEN overtaken ELSE Parts
     ELSE /\ UNCHANGED <<skip, status>>
          /\ overtaken' = overtaken \cup IF reads[i].kind = "resync" THEN Parts
                                         ELSE Wanted(reads[i].kind)
  /\ UNCHANGED <<row, busy, cards, replying, stream, bus, serviceVars, changes,
                 missed>>

-----------------------------------------------------------------------------
(* The service.  Each change but one is announced on the open streams. *)

Event(type, of) == [type |-> type, of |-> of]

\* Parts already read for an answer that is not back yet.
BeingRead == UNION {reads[i].got : i \in DOMAIN reads}

\* No connection will read this change: the first one is skipped.
BeforeFirst == stream = "dialing" /\ skip

Announce(parts, event) ==
  /\ IF stream = "open"
     THEN Len(bus) < MaxBus /\ bus' = Append(bus, event)
     ELSE UNCHANGED bus
  /\ overtaken' = overtaken \cup (parts \cap BeingRead)
                            \cup (IF BeforeFirst THEN parts ELSE {})

NewVersion ==
  /\ version < MaxRow
  /\ version' = version + 1
  /\ sRow' = version + 1

ServiceKeeps == UNCHANGED <<shownVars, replying, reads, stream, faults>>

Create ==
  /\ sRow = 0 /\ Change
  /\ NewVersion
  /\ Announce({"row"}, Event("created", 0))
  /\ ServiceKeeps /\ UNCHANGED <<sBusy, sCards, asked, missed>>

Rename ==
  /\ sRow # 0 /\ Change
  /\ NewVersion
  /\ Announce({"row"}, Event("renamed", version'))
  /\ ServiceKeeps /\ UNCHANGED <<sBusy, sCards, asked, missed>>

Delete ==
  /\ sRow # 0 /\ ~sBusy /\ Change
  /\ sRow' = 0
  /\ Announce({"row"}, Event("deleted", 0))
  /\ ServiceKeeps /\ UNCHANGED <<sBusy, sCards, version, asked, missed>>

StartTurn ==
  /\ sRow # 0 /\ ~sBusy /\ Change
  /\ sBusy' = TRUE
  /\ Announce({"busy"}, Event("started", 0))
  /\ ServiceKeeps /\ UNCHANGED <<sRow, sCards, version, asked, missed>>

\* A request waiting on the user holds its turn open.  The end sets the row's
\* time.idle, which no event tells.
EndTurn ==
  /\ sBusy /\ sCards = {}
  /\ sBusy' = FALSE
  /\ NewVersion
  /\ Announce({"row", "busy"}, Event("ended", 0))
  /\ ServiceKeeps /\ UNCHANGED <<sCards, asked, changes, missed>>

AskUser ==
  /\ sBusy /\ sCards = {} /\ asked < MaxCard
  /\ asked' = asked + 1
  /\ sCards' = {asked + 1}
  /\ Announce({"cards"}, Event("asked", asked + 1))
  /\ ServiceKeeps /\ UNCHANGED <<sRow, sBusy, version, changes, missed>>

\* A request is answered, here or from another client.
Settle(c) ==
  /\ sCards' = sCards \ {c}
  /\ Announce({"cards"}, Event("replied", c))
  /\ missed' = IF stream = "open" THEN missed ELSE missed \cup {c}
  /\ UNCHANGED <<sRow, sBusy, version, asked>>

OtherReply(c) ==
  /\ c \in sCards /\ Change
  /\ Settle(c)
  /\ ServiceKeeps

-----------------------------------------------------------------------------
(* The user of this client *)

OpenSession ==
  /\ row # 0 /\ Change
  /\ Ask(reads, <<"pending">>)
  /\ UNCHANGED <<shownVars, replying, stream, bus, serviceVars, faults, overtaken,
                 missed>>

\* answer(): one answer at a time; the card stays until the service has it.
Reply(c) ==
  /\ c \in cards \ replying /\ Change
  /\ replying' = replying \cup {c}
  /\ UNCHANGED <<shownVars, reads, stream, bus, serviceVars, faults, overtaken,
                 missed>>

\* The answer reaches the service while the request still waits ...
ReplyServed(c) ==
  /\ c \in replying \cap sCards
  /\ Settle(c)
  /\ ServiceKeeps /\ UNCHANGED changes

\* ... and is back; "not found" and "already settled" count as answered.
ReplyBack(c) ==
  /\ c \in replying \ sCards
  /\ replying' = replying \ {c}
  /\ cards' = cards \ {c}
  /\ UNCHANGED <<status, skip, row, busy, reads, stream, bus, serviceVars, changes,
                 faults, overtaken, missed>>

\* Any other failure keeps the card.
ReplyFailed(c) ==
  /\ c \in replying /\ Fault
  /\ replying' = replying \ {c}
  /\ UNCHANGED <<shownVars, reads, stream, bus, serviceVars, changes, overtaken,
                 missed>>

-----------------------------------------------------------------------------
(* The event stream *)

StreamOpens ==
  /\ stream = "dialing"
  /\ stream' = "open"
  /\ bus' = <<Event("connected", 0)>>
  /\ UNCHANGED <<shownVars, replying, reads, serviceVars, changes, faults,
                 overtaken, missed>>

\* The service closes the stream, or 45 s of silence do.
StreamLost ==
  /\ stream = "open" /\ Fault
  /\ stream' = "dialing"
  /\ bus' = <<>>
  /\ missed' = missed \cup {bus[i].of : i \in {j \in DOMAIN bus : bus[j].type = "replied"}}
  /\ overtaken' = IF skip THEN Parts ELSE overtaken
  /\ UNCHANGED <<shownVars, replying, reads, serviceVars, changes>>

\* Mutant: a reconnect reads nothing again.
Connected_NoResync ==
  /\ skip' = FALSE
  /\ Ask(reads, <<>>)
  /\ overtaken' = IF skip \/ BeingRead # {} THEN overtaken
                  ELSE overtaken \ {"row", "busy"}

\* The first connection belongs to the list start() reads; every other one
\* reads it again, which heals what was overtaken before.
Connected ==
  IF skip
  THEN /\ skip' = FALSE
       /\ Ask(reads, <<>>)
       /\ UNCHANGED overtaken
  ELSE /\ Ask(reads, <<"resync">>)
       /\ overtaken' = IF BeingRead = {} THEN overtaken \ {"row", "busy"}
                       ELSE overtaken
       /\ UNCHANGED skip

\* onEvent.  The end of a turn and a request of an unknown session read a row.
OnEvent ==
  /\ bus # <<>>
  /\ bus' = Tail(bus)
  /\ LET e == Head(bus)
     IN /\ IF e.type = "connected" THEN Connected
           ELSE /\ UNCHANGED <<skip, overtaken>>
                /\ Ask(reads, When(\/ e.type = "created"
                                   \/ e.type = "asked" /\ row = 0
                                   \/ e.type = "ended" /\ row # 0, <<"row">>))
        /\ row' = CASE e.type = "renamed" /\ row # 0 -> e.of
                    [] e.type = "deleted" -> 0
                    [] OTHER -> row
        /\ busy' = CASE e.type = "started" -> TRUE
                     [] e.type \in {"ended", "deleted"} -> FALSE
                     [] OTHER -> busy
        /\ cards' = CASE e.type = "asked" -> cards \cup {e.of}
                      [] e.type = "replied" -> cards \ {e.of}
                      [] OTHER -> cards
  /\ UNCHANGED <<status, replying, stream, serviceVars, changes, faults, missed>>

-----------------------------------------------------------------------------

ReadStep ==
  \E i \in DOMAIN reads :
    \/ \E part \in Parts : ReadServed(i, part)
    \/ ListBack(i) \/ RowBack(i) \/ PendingBack(i)
    \/ ReadFailed(i)

ServiceStep ==
  \/ Create \/ Rename \/ Delete \/ StartTurn \/ EndTurn \/ AskUser
  \/ \E c \in Cards : OtherReply(c)

Answering ==
  \E c \in Cards : Reply(c) \/ ReplyServed(c) \/ ReplyBack(c) \/ ReplyFailed(c)

Next ==
  \/ ReadStep \/ ServiceStep \/ Answering
  \/ OpenSession
  \/ StreamOpens \/ StreamLost \/ OnEvent

Spec == Init /\ [][Next]_vars

-----------------------------------------------------------------------------
(* Properties *)

\* Nothing is on its way to this client.
Quiet == reads = <<>> /\ stream = "open" /\ bus = <<>> /\ replying = {}

\* Once nothing is on its way the row shown is the service's: the list read at
\* the start, the events since and the reads they cause add up, also across
\* dropped streams.  Excused is a change that overtook its own read, or that
\* came between the first list and the first connection, until a reconnect.
RowAgrees == Quiet /\ "row" \notin overtaken => row = sRow

\* The same of the busy mark: a turn that ended while the stream was down does
\* not spin for ever, one that started is not shown idle.
BusyAgrees == Quiet /\ "busy" \notin overtaken => busy = sBusy

\* A request that holds its turn open is on screen, also one made while the
\* stream was down: the running sessions' requests are read on reconnect.
CardsShown == Quiet /\ "cards" \notin overtaken => sCards \subseteq cards

\* No card asks what is settled, whoever answered it; only an answer given
\* elsewhere while the stream was down can leave one (its turn no longer runs,
\* so nothing reads its requests).
CardsGone == Quiet /\ "cards" \notin overtaken => cards \subseteq sCards \cup missed

\* Once nothing is on its way the list entry, its busy mark and the cards on screen
\* are the service's: neither a stale row or spinner nor a card lost or left.
StoreAgrees == RowAgrees /\ BusyAgrees /\ CardsShown /\ CardsGone

=============================================================================
