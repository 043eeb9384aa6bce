------------------------------ MODULE Prompts ------------------------------
(***************************************************************************)
(* One held session as a client's store keeps it (createOcStore in         *)
(* oc-client/src/store/store.ts, with session-reducer.ts and               *)
(* transcript-reducer.ts): rows shown before the service has them, sends   *)
(* that leave in submission order, reverts that hide rows and are          *)
(* committed by the next input, event updates staged for a frame, and the  *)
(* reads that repair what the bus dropped.                                 *)
(*                                                                         *)
(* A message is its id; ids are minted in ascending order.  The opencode   *)
(* service is external, modelled from the requests the store makes and the *)
(* events it folds; so are the other clients of the same session.          *)
(***************************************************************************)
EXTENDS Naturals, Sequences, FiniteSets, SequencesExt, Subsequences

CONSTANTS
  InboxInPage,   \* a page read also lists the inputs not yet delivered
  MaxId,         \* bound: messages minted, the first two included
  MaxCommands,   \* bound: what the users of the session do
  MaxFaults,     \* bound: failed requests and dropped connections
  MaxReads,      \* bound: reads under way at a time
  MaxBus,        \* bound: events on their way
  MaxStaged      \* bound: updates waiting for a frame

ASSUME PromptsBounds ==
  /\ InboxInPage \in BOOLEAN
  /\ MaxId \in Nat \ {0, 1} /\ MaxCommands \in Nat
  /\ MaxFaults \in Nat /\ MaxReads \in Nat \ {0, 1}
  /\ MaxBus \in Nat \ {0, 1} /\ MaxStaged \in Nat \ {0, 1}

Ids == 1 .. MaxId

VARIABLES
  rows,          \* session.message: the transcript, oldest first
  revert,        \* session.info's staged revert, 0 if none
  staged,        \* updates waiting for the frame to flush them
  outbox,        \* rows shown that the service has not echoed
  sending,       \* the send chain, its head the request under way
  settling,      \* a settle timer is pending
  reads,         \* reads under way
  log,           \* the service: messages delivered to the model
  inbox,         \* the service: inputs admitted and not delivered
  reverted,      \* the service: the staged revert, 0 if none
  turn,          \* the service: a turn runs
  bus,           \* events on their way to this client
  up,            \* the event stream is connected
  late,          \* requests still under way after the client gave them up
  next,          \* the next id to mint
  commands,      \* user commands so far
  faults,        \* failures so far
  taken,         \* history: inputs in the order the service took them
  mine,          \* history: ids minted here
  gaveUp,        \* history: prompts whose send failed here
  slipped,       \* history: ids an event never reported to this client
  stale,         \* history: a repairing read failed, or was overtaken
  withdrawn      \* history: delivered and off the screen when an input was cancelled

clientVars == <<rows, revert, staged, outbox, sending, settling>>
serviceVars == <<log, inbox, reverted, turn, taken>>
userVars == <<next, commands, mine>>
vars == <<clientVars, serviceVars, reads, bus, up, late, userVars, faults,
          gaveUp, slipped, stale, withdrawn>>

Sends == [kind : {"prompt", "command", "revert", "unrevert"},
          id : 0 .. MaxId, undo : BOOLEAN, phase : {"queued", "taken"}]
Reads == [kind : {"tail", "row", "list"}, served : BOOLEAN,
          page : Seq(Ids), revert : 0 .. MaxId]
Updates == [op : {"upsert", "deliver", "remove", "drop", "merge", "revert"},
            id : 0 .. MaxId, page : Seq(Ids)]
Events == [type : {"connected", "enqueued", "delivered", "cancelled", "ended",
                   "staged", "cleared", "committed"},
           id : 0 .. MaxId, about : SUBSET Ids]

TypeOK ==
  /\ rows \in Seq(Ids) /\ IsInjective(rows)
  /\ revert \in 0 .. MaxId
  /\ staged \in Seq(Updates)
  /\ outbox \subseteq Ids
  /\ sending \in Seq(Sends)
  /\ settling \in BOOLEAN
  /\ reads \in Seq(Reads) /\ Len(reads) <= MaxReads
  /\ log \in Seq(Ids) /\ inbox \in Seq(Ids) /\ IsInjective(log \o inbox)
  /\ reverted \in 0 .. MaxId
  /\ turn \in BOOLEAN
  /\ bus \in Seq(Events)
  /\ up \in BOOLEAN
  /\ late \subseteq Ids
  /\ next \in 1 .. MaxId + 1
  /\ commands \in 0 .. MaxCommands
  /\ faults \in 0 .. MaxFaults
  /\ taken \in Seq(Ids) /\ IsInjective(taken)
  /\ mine \subseteq Ids /\ gaveUp \subseteq Ids /\ slipped \subseteq Ids
  /\ stale \in BOOLEAN /\ withdrawn \subseteq Ids

-----------------------------------------------------------------------------
(* Staged updates and what a flush makes of them *)

Update(op, id) == [op |-> op, id |-> id, page |-> <<>>]
SetRevert(id) == Update("revert", id)
Merge(page) == [op |-> "merge", id |-> 0, page |-> page]

Without(s, id) == Only(s, ToSet(s) \ {id})

\* Mutant: a committed revert takes the rows still on their way out with it.
DropReverted_All(s, to) == Only(s, {r \in ToSet(s) : r < to})

\* The hidden rows go, those still on their way out stay.
DropReverted(s, to) == Only(s, {r \in ToSet(s) : r < to} \cup outbox)

\* Mutant: a page's rows are appended, those already here included.
MergeProjection_Blind(s, page) == s \o page

\* A page read again: rows the client lacks go to the end, and rows the page
\* lacks stay.
MergeProjection(s, page) == s \o Only(page, ToSet(page) \ ToSet(s))

Applied(view, u) ==
  CASE u.op = "upsert"  -> [view EXCEPT !.rows = IF Contains(@, u.id) THEN @
                                                 ELSE Append(@, u.id)]
    [] u.op = "deliver" -> [view EXCEPT !.rows = IF Contains(@, u.id)
                                                 THEN Append(Without(@, u.id), u.id)
                                                 ELSE @]
    [] u.op = "remove"  -> [view EXCEPT !.rows = Without(@, u.id)]
    [] u.op = "drop"    -> [view EXCEPT !.rows = DropReverted(@, u.id)]
    [] u.op = "merge"   -> [view EXCEPT !.rows = MergeProjection(@, u.page)]
    [] u.op = "revert"  -> [view EXCEPT !.revert = u.id]

\* What is shown after each of the updates.
Views(updates) ==
  LET view[n \in 0 .. Len(updates)] ==
        IF n = 0 THEN [rows |-> rows, revert |-> revert]
        ELSE Applied(view[n - 1], updates[n])
  IN view

\* flush(): every staged update, in order, in one commit.
Flushed(updates) == Views(updates)[Len(updates)]

Show(view) ==
  /\ rows' = view.rows
  /\ revert' = view.revert

-----------------------------------------------------------------------------
(* Reads and counters *)

Read(kind) == [kind |-> kind, served |-> FALSE, page |-> <<>>, revert |-> 0]

\* Stage updates for the frame, in the room the bound leaves.
Stage(updates) ==
  /\ Len(staged) + Len(updates) <= MaxStaged
  /\ staged' = staged \o updates

\* Issue reads, in the room the bound leaves.
Ask(kept, kinds) ==
  /\ Len(kept) + Len(kinds) <= MaxReads
  /\ reads' = kept \o [i \in DOMAIN kinds |-> Read(kinds[i])]

UserCommand ==
  /\ commands < MaxCommands
  /\ commands' = commands + 1

Fault ==
  /\ faults < MaxFaults
  /\ faults' = faults + 1

Pending(kind) == {i \in DOMAIN sending : sending[i].kind = kind}

\* An id is free, those of commands on their way counted.
Room == next + Cardinality(Pending("command")) <= MaxId

-----------------------------------------------------------------------------

\* The session was opened and read; a revert may be staged already.
Init ==
  /\ rows = <<1, 2>> /\ log = rows /\ taken = rows
  /\ revert \in {0, 2} /\ reverted = revert
  /\ staged = <<>> /\ outbox = {} /\ sending = <<>> /\ settling = FALSE
  /\ inbox = <<>> /\ turn = FALSE
  /\ reads = <<>> /\ bus = <<>> /\ up = TRUE /\ late = {}
  /\ next = 3 /\ commands = 0 /\ faults = 0
  /\ mine = {} /\ gaveUp = {} /\ slipped = {} /\ stale = FALSE
  /\ withdrawn = {}

-----------------------------------------------------------------------------
(* What the user of this client does *)

Send(kind, id, undo) == [kind |-> kind, id |-> id, undo |-> undo, phase |-> "queued"]

\* New input commits a staged revert here first.  The revert is looked up
\* before the flush, so one staged by this frame's events is not seen.
CommitLocally ==
  IF revert = 0 THEN <<>> ELSE <<SetRevert(0), Update("drop", revert)>>

Prompt ==
  /\ Room /\ UserCommand
  /\ LET view == Flushed(staged \o CommitLocally)
     IN /\ rows' = Append(view.rows, next)
        /\ revert' = view.revert
  /\ staged' = <<>>
  /\ outbox' = outbox \cup {next}
  /\ sending' = Append(sending, Send("prompt", next, revert # 0))
  /\ next' = next + 1
  /\ mine' = mine \cup {next}
  /\ UNCHANGED <<settling, serviceVars, reads, bus, up, late, faults, gaveUp,
                 slipped, stale, withdrawn>>

\* Nothing shows before the service answers with the message's id.
Command ==
  /\ Room /\ UserCommand
  /\ IF revert = 0 THEN UNCHANGED <<rows, revert, staged>>
     ELSE Show(Flushed(staged \o CommitLocally)) /\ staged' = <<>>
  /\ sending' = Append(sending, Send("command", 0, revert # 0))
  /\ UNCHANGED <<outbox, settling, serviceVars, reads, bus, up, late, next, mine,
                 faults, gaveUp, slipped, stale, withdrawn>>

Visible(id) == Contains(rows, id) /\ (revert # 0 => id < revert)

Revert(id) ==
  /\ Visible(id) /\ UserCommand
  /\ sending' = Append(sending, Send("revert", id, FALSE))
  /\ UNCHANGED <<rows, revert, staged, outbox, settling, serviceVars, reads, bus,
                 up, late, next, mine, faults, gaveUp, slipped, stale, withdrawn>>

Unrevert ==
  /\ revert # 0 /\ UserCommand
  /\ sending' = Append(sending, Send("unrevert", 0, FALSE))
  /\ UNCHANGED <<rows, revert, staged, outbox, settling, serviceVars, reads, bus,
                 up, late, next, mine, faults, gaveUp, slipped, stale, withdrawn>>

-----------------------------------------------------------------------------
(* The service.  Each change is announced on the bus. *)

Event(type, id, about) == [type |-> type, id |-> id, about |-> about]

\* A read or an answer already made that a change of the revert overtakes.
Overtaken ==
  \/ \E i \in DOMAIN reads : reads[i].kind # "tail" /\ reads[i].served
  \/ sending # <<>> /\ Head(sending).phase = "taken"
       /\ Head(sending).kind \in {"revert", "unrevert"}

\* Ids in pages already read, which their removal overtakes.
InFlight == UNION {ToSet(reads[i].page) : i \in DOMAIN reads}

\* "gone" are the messages it removes: a page read before holds them still.
Emit(events, gone) ==
  IF up THEN /\ Len(bus) + Len(events) <= MaxBus
             /\ bus' = bus \o events
             /\ slipped' = slipped \cup (gone \cap InFlight)
  ELSE /\ slipped' = slipped \cup UNION {events[i].about : i \in DOMAIN events}
       /\ UNCHANGED bus

\* New input drops the messages from the staged revert on, then is admitted.
Admit(id) ==
  LET gone == IF reverted = 0 THEN {} ELSE {m \in ToSet(log) : m >= reverted}
      commit == IF reverted = 0 THEN <<>> ELSE <<Event("committed", reverted, gone)>>
      events == commit \o <<Event("enqueued", id, {id})>>
  IN /\ log' = Only(log, ToSet(log) \ gone)
     /\ inbox' = Append(inbox, id)
     /\ reverted' = 0
     /\ taken' = Append(taken, id)
     /\ stale' = (stale \/ (reverted # 0 /\ Overtaken))
     /\ Emit(events, gone)

Taken == sending' = [sending EXCEPT ![1].phase = "taken"]

\* Mutant: sends do not wait for one another.
PromptTaken_Unchained ==
  \E i \in Pending("prompt") :
    /\ sending[i].phase = "queued"
    /\ Admit(sending[i].id)
    /\ sending' = [sending EXCEPT ![i].phase = "taken"]
    /\ UNCHANGED <<rows, revert, staged, outbox, settling, turn, reads, up, late,
                   userVars, faults, gaveUp, withdrawn>>

\* The request at the head of the chain reaches the service.
PromptTaken ==
  /\ sending # <<>> /\ Head(sending).phase = "queued"
  /\ Head(sending).kind = "prompt"
  /\ Admit(Head(sending).id)
  /\ Taken
  /\ UNCHANGED <<rows, revert, staged, outbox, settling, turn, reads, up, late,
                 userVars, faults, gaveUp, withdrawn>>

CommandTaken ==
  /\ sending # <<>> /\ Head(sending).phase = "queued"
  /\ Head(sending).kind = "command"
  /\ Admit(next)
  /\ next' = next + 1
  /\ Taken
  /\ UNCHANGED <<rows, revert, staged, outbox, settling, turn, reads, up, late,
                 commands, mine, faults, gaveUp, withdrawn>>

\* interrupt, wait, then revert: the service is idle by the third.
StageRevert(id) ==
  /\ ~turn /\ inbox = <<>>
  /\ Contains(log, id)
  /\ reverted' = id
  /\ Emit(<<Event("staged", id, {})>>, {})
  /\ stale' = (stale \/ Overtaken)

RevertTaken ==
  /\ sending # <<>> /\ Head(sending).phase = "queued"
  /\ Head(sending).kind = "revert"
  /\ StageRevert(Head(sending).id)
  /\ Taken
  /\ UNCHANGED <<rows, revert, staged, outbox, settling, log, inbox, turn, taken,
                 reads, up, late, userVars, faults, gaveUp, withdrawn>>

UnrevertTaken ==
  /\ sending # <<>> /\ Head(sending).phase = "queued"
  /\ Head(sending).kind = "unrevert"
  /\ reverted' = 0
  /\ Emit(<<Event("cleared", 0, {})>>, {})
  /\ stale' = (stale \/ Overtaken)
  /\ Taken
  /\ UNCHANGED <<rows, revert, staged, outbox, settling, log, inbox, turn, taken,
                 reads, up, late, userVars, faults, gaveUp, withdrawn>>

\* A request its client gave up on arrives after all.
LateTaken(id) ==
  /\ id \in late
  /\ late' = late \ {id}
  /\ Admit(id)
  /\ UNCHANGED <<clientVars, turn, reads, up, userVars, faults, gaveUp, withdrawn>>

\* Another client of the session, the desktop or the phone.
OtherPrompt ==
  /\ Room /\ UserCommand
  /\ Admit(next)
  /\ next' = next + 1
  /\ UNCHANGED <<clientVars, turn, reads, up, late, mine, faults, gaveUp, withdrawn>>

OtherRevert(id) ==
  /\ UserCommand
  /\ StageRevert(id)
  /\ UNCHANGED <<clientVars, log, inbox, turn, taken, reads, up, late, next, mine,
                 faults, gaveUp, withdrawn>>

OtherCancel(id) ==
  /\ Contains(inbox, id) /\ UserCommand
  /\ inbox' = Without(inbox, id)
  /\ withdrawn' = withdrawn \cup (ToSet(log) \ ToSet(rows))
  /\ Emit(<<Event("cancelled", id, {id})>>, {id})
  /\ UNCHANGED <<clientVars, log, reverted, turn, taken, reads, up, late, next, mine,
                 faults, gaveUp, stale>>

Deliver ==
  /\ inbox # <<>>
  /\ log' = Append(log, Head(inbox))
  /\ inbox' = Tail(inbox)
  /\ turn' = TRUE
  /\ Emit(<<Event("delivered", Head(inbox), {Head(inbox)})>>, {})
  /\ UNCHANGED <<clientVars, reverted, taken, reads, up, late, userVars, faults,
                 gaveUp, stale, withdrawn>>

\* A turn takes follow-ups along until none is waiting.
EndTurn ==
  /\ turn /\ inbox = <<>>
  /\ turn' = FALSE
  /\ Emit(<<Event("ended", 0, {})>>, {})
  /\ UNCHANGED <<clientVars, log, inbox, reverted, taken, reads, up, late,
                 userVars, faults, gaveUp, stale, withdrawn>>

-----------------------------------------------------------------------------
(* Answers *)

\* The service's answer: the next send of the chain leaves.
Answered ==
  /\ sending # <<>> /\ Head(sending).phase = "taken"
  /\ sending' = Tail(sending)
  /\ IF Head(sending).kind \in {"revert", "unrevert"}
     THEN /\ Show(Flushed(Append(staged, SetRevert(Head(sending).id))))
          /\ staged' = <<>>
     ELSE UNCHANGED <<rows, revert, staged>>
  /\ UNCHANGED <<outbox, settling, serviceVars, reads, bus, up, late, userVars,
                 faults, gaveUp, slipped, stale, withdrawn>>

\* The message to revert to has gone meanwhile.
Refused(s) == s.kind = "revert" /\ s.phase = "queued" /\ ~Contains(log \o inbox, s.id)

\* A send fails: the service refused it, its answer was lost, or the request
\* is still on its way ("arrives").  The chain goes on.  The row is taken back
\* unless its echo came first, and what was committed locally is read again.
SendFailed(arrives) ==
  /\ sending # <<>>
  /\ LET s == Head(sending)
     IN /\ IF Refused(s) THEN UNCHANGED faults ELSE Fault
        /\ arrives => s.kind = "prompt" /\ s.phase = "queued"
        /\ sending' = Tail(sending)
        /\ IF s.kind = "prompt" /\ s.id \in outbox
           THEN /\ outbox' = outbox \ {s.id}
                /\ Show(Flushed(Append(staged, Update("remove", s.id))))
                /\ staged' = <<>>
           ELSE UNCHANGED <<outbox, rows, revert, staged>>
        /\ gaveUp' = gaveUp \cup ({s.id} \ {0})
        /\ late' = IF arrives THEN late \cup {s.id} ELSE late
        /\ IF s.undo THEN Ask(reads, <<"row", "tail">>) ELSE UNCHANGED reads
  /\ UNCHANGED <<settling, serviceVars, bus, up, userVars, slipped, stale, withdrawn>>

-----------------------------------------------------------------------------
(* The bus *)

\* The updates an event stages.
Folded(e) ==
  CASE e.type = "staged"    -> <<SetRevert(e.id)>>
    [] e.type = "cleared"   -> <<SetRevert(0)>>
    [] e.type = "committed" -> <<SetRevert(0), Update("drop", e.id)>>
    [] e.type = "enqueued"  -> <<Update("upsert", e.id)>>
    [] e.type = "delivered" -> <<Update("deliver", e.id)>>
    [] e.type = "cancelled" -> <<Update("remove", e.id)>>
    [] OTHER                -> <<>>

\* Mutant: the end of a turn does not read its messages again.
OnEvent_NoSettle ==
  /\ bus # <<>>
  /\ bus' = Tail(bus)
  /\ LET e == Head(bus)
     IN /\ Stage(Folded(e))
        /\ outbox' = IF e.type \in {"enqueued", "cancelled"}
                     THEN outbox \ {e.id} ELSE outbox
        /\ Ask(reads, CASE e.type = "ended" -> <<"row">>
                        [] e.type = "connected" -> <<"list">>
                        [] OTHER -> <<>>)
  /\ UNCHANGED <<rows, revert, sending, settling, serviceVars, up, late, userVars, faults,
                 gaveUp, slipped, stale, withdrawn>>

\* onEvent.  An echo leaves the outbox now, its row's update waits for the
\* frame; a turn's end reads the row and arms the settle timer; a connection
\* reads the list.
OnEvent ==
  /\ bus # <<>>
  /\ bus' = Tail(bus)
  /\ LET e == Head(bus)
     IN /\ Stage(Folded(e))
        /\ outbox' = IF e.type \in {"enqueued", "cancelled"}
                     THEN outbox \ {e.id} ELSE outbox
        /\ settling' = (settling \/ e.type = "ended")
        /\ Ask(reads, CASE e.type = "ended" -> <<"row">>
                        [] e.type = "connected" -> <<"list">>
                        [] OTHER -> <<>>)
  /\ UNCHANGED <<rows, revert, sending, serviceVars, up, late, userVars, faults,
                 gaveUp, slipped, stale, withdrawn>>

Flush ==
  /\ staged # <<>>
  /\ Show(Flushed(staged))
  /\ staged' = <<>>
  /\ UNCHANGED <<outbox, sending, settling, serviceVars, reads, bus, up, late,
                 userVars, faults, gaveUp, slipped, stale, withdrawn>>

Settle ==
  /\ settling
  /\ settling' = FALSE
  /\ Ask(reads, <<"tail">>)
  /\ UNCHANGED <<rows, revert, staged, outbox, sending, serviceVars, bus, up,
                 late, userVars, faults, gaveUp, slipped, stale, withdrawn>>

BusLost ==
  /\ up /\ Fault
  /\ up' = FALSE
  /\ bus' = <<>>
  /\ slipped' = slipped \cup UNION {bus[i].about : i \in DOMAIN bus}
  /\ UNCHANGED <<clientVars, serviceVars, reads, late, userVars, gaveUp, stale, withdrawn>>

Reconnect ==
  /\ ~up
  /\ up' = TRUE
  /\ bus' = <<Event("connected", 0, {})>>
  /\ UNCHANGED <<clientVars, serviceVars, reads, late, userVars, faults, gaveUp,
                 slipped, stale, withdrawn>>

-----------------------------------------------------------------------------
(* Reads: asked, answered by the service, applied here *)

\* The newest page of the projection; the row or the list with the session's
\* revert.
Page == IF InboxInPage THEN log \o inbox ELSE log

ReadServed(i) ==
  /\ i \in DOMAIN reads /\ ~reads[i].served
  /\ reads' = [reads EXCEPT ![i] =
       IF @.kind = "tail" THEN [@ EXCEPT !.served = TRUE, !.page = Page]
       ELSE [@ EXCEPT !.served = TRUE, !.revert = reverted]]
  /\ UNCHANGED <<clientVars, serviceVars, bus, up, late, userVars, faults, gaveUp,
                 slipped, stale, withdrawn>>

\* refreshTail and syncSession stage what they read; loadSessions flushes it,
\* and resync reads the newest page next.
ReadBack(i) ==
  /\ i \in DOMAIN reads /\ reads[i].served
  /\ CASE reads[i].kind = "tail" ->
            /\ Stage(<<Merge(reads[i].page)>>)
            /\ Ask(RemoveAt(reads, i), <<>>)
            /\ UNCHANGED <<rows, revert>>
       [] reads[i].kind = "row" ->
            /\ Stage(<<SetRevert(reads[i].revert)>>)
            /\ Ask(RemoveAt(reads, i), <<>>)
            /\ UNCHANGED <<rows, revert>>
       [] reads[i].kind = "list" ->
            /\ Show(Flushed(Append(staged, SetRevert(reads[i].revert))))
            /\ staged' = <<>>
            /\ Ask(RemoveAt(reads, i), <<"tail">>)
  /\ UNCHANGED <<outbox, sending, settling, serviceVars, bus, up, late, userVars,
                 faults, gaveUp, slipped, stale, withdrawn>>

\* Reported and forgotten; resync goes on to the newest page.
ReadFailed(i) ==
  /\ i \in DOMAIN reads /\ Fault
  /\ Ask(RemoveAt(reads, i), IF reads[i].kind = "list" THEN <<"tail">> ELSE <<>>)
  /\ stale' = TRUE
  /\ UNCHANGED <<clientVars, serviceVars, bus, up, late, userVars, gaveUp, slipped, withdrawn>>

-----------------------------------------------------------------------------

User ==
  \/ Prompt \/ Command \/ Unrevert
  \/ \E id \in Ids : Revert(id)
  \/ OtherPrompt
  \/ \E id \in Ids : OtherRevert(id) \/ OtherCancel(id)

\* The request at the head of the chain.
SendStep ==
  \/ PromptTaken \/ CommandTaken \/ RevertTaken \/ UnrevertTaken
  \/ Answered
  \/ \E arrives \in BOOLEAN : SendFailed(arrives)

ReadStep ==
  \E i \in DOMAIN reads :
    \/ ReadServed(i)
    \/ ReadBack(i)
    \/ ReadFailed(i)

Next ==
  \/ User \/ SendStep \/ ReadStep
  \/ \E id \in Ids : LateTaken(id)
  \/ Deliver \/ EndTurn
  \/ OnEvent \/ Flush \/ Settle
  \/ BusLost \/ Reconnect

Spec == Init /\ [][Next]_vars

-----------------------------------------------------------------------------
(* Properties *)

\* A prompt is on screen from the moment it is submitted until the service
\* takes it or its send fails, also once the waiting updates are flushed: no
\* commit of a revert, page or echo that comes in between takes its row.
OptimisticShown ==
  outbox \subseteq ToSet(rows) \cap ToSet(Flushed(staged).rows)

\* "roll back if the send fails": a row the service never took is on screen
\* only while its send waits or is under way.
RejectedGone ==
  \A id \in ToSet(rows) :
    id \in ToSet(taken) \/ \E i \in Pending("prompt") : sending[i].id = id

\* The service takes this client's prompts in the order they were submitted,
\* past failed sends in between; only a request whose client gave up on it can
\* arrive late.
SubmissionOrder ==
  \A i, j \in DOMAIN taken :
    i < j /\ {taken[i], taken[j]} \subseteq mine \ gaveUp => taken[i] < taken[j]

\* Nothing is on its way, here or at the service.
Quiet ==
  /\ staged = <<>> /\ sending = <<>> /\ ~settling /\ reads = <<>>
  /\ bus = <<>> /\ up /\ inbox = <<>> /\ ~turn /\ late = {}

\* Once quiet, everything the service holds is on screen, after drops of the
\* event stream and failed sends too.  What may be missing is a prompt whose
\* echo and answer were both lost: it is taken back here, and nothing reads
\* it until the next turn.  "stale" excuses a repairing read that failed.  A commit
\* made here may hide more than the service drops, if its boundary has changed there:
\* the turn of its input brings that back, unless another client cancels the input.
NothingLost ==
  Quiet /\ ~stale =>
    \A id \in ToSet(log) : Contains(rows, id) \/ id \in (gaveUp \cap slipped) \cup withdrawn

\* Once quiet, a message the service dropped is off the screen, unless the
\* event that said so was lost or a page read before came back after it.
NothingLeft == Quiet => ToSet(rows) \subseteq ToSet(log) \cup slipped

\* Once quiet, the staged revert shown is the service's, unless it changed
\* after a row was read and before it came back.
RevertAgrees == Quiet /\ ~stale => revert = reverted

\* What is shown and what the service holds come to the same, after failed sends,
\* lost events and other clients' reverts: no row is only here, none only there,
\* and the boundary of the revert is one (foldMessages, settle, dropReverted).
RowsAgree == RejectedGone /\ NothingLost /\ NothingLeft /\ RevertAgrees

=============================================================================
