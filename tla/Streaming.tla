----------------------------- MODULE Streaming -----------------------------
(***************************************************************************)
(* A turn while it runs: the service sends events as the agent writes, and *)
(* a client folds them into the rows it shows (applyTranscriptEvent of     *)
(* oc-client/src/transcript-reducer.ts), between two reads of the          *)
(* service's own rows (openNow, refreshTail, settle and resync of          *)
(* oc-client/src/store/store.ts).  One session, whose rows fit in a page.  *)
(*                                                                         *)
(* "live" is what the agent has written.  The service stores a part's text *)
(* only when the part has ended: the deltas are sent and not kept.         *)
(***************************************************************************)
EXTENDS Naturals, Sequences, FiniteSets, SequencesExt

CONSTANTS
  MaxEvents,     \* bound: events the service sends
  MaxReads,      \* bound: reads under way at a time
  MaxBus,        \* bound: events on their way
  MaxFaults      \* bound: failed reads, dropped streams and events nobody hears

ASSUME StreamingBounds ==
  /\ MaxEvents \in Nat
  /\ MaxReads \in Nat \ {0} /\ MaxBus \in Nat \ {0} /\ MaxFaults \in Nat

VARIABLES
  live,          \* the agent: the messages written, oldest first
  running,       \* the session is executing a turn
  bus,           \* events on their way
  sent,          \* how many were sent
  up,            \* the event stream is connected
  held,          \* the client: the session's rows are kept
  rows,          \* its rows in session.message, oldest first
  settling,      \* its settle timer runs
  reads,         \* reads under way
  faults,
  marks          \* history: what may be wrong until the next read

serviceVars == <<live, running, sent>>
clientVars == <<held, rows, settling>>
vars == <<serviceVars, bus, up, clientVars, reads, faults, marks>>

Ids == 1 .. MaxEvents + 1
PartKinds == {"text", "reasoning", "tool"}
\* "final": the text is whole; of a reasoning part, time.completed.
\* "note": the metadata of a tool's run.
Parts == [kind : PartKinds, id : 0 .. MaxEvents + 1, text : Seq(Ids),
          final : BOOLEAN, note : BOOLEAN,
          state : {"none", "streaming", "running", "completed", "error"}]
\* A "note" is a synthetic or system row, an "other" one no event shows.
Rows == [id : Ids, type : {"assistant", "note", "other"}, completed : BOOLEAN,
         finish : {"none", "stop", "error"}, retry : BOOLEAN, content : Seq(Parts)]
Reads == [kind : {"open", "tail", "list"}, served : BOOLEAN, page : Seq(Rows),
          owed : 0 .. MaxBus, stale : BOOLEAN]

TypeOK ==
  /\ live \in Seq(Rows) /\ \A i \in DOMAIN live : live[i].id = i
  /\ rows \in Seq(Rows) /\ \A i, j \in DOMAIN rows : rows[i].id = rows[j].id => i = j
  /\ running \in BOOLEAN /\ up \in BOOLEAN /\ held \in BOOLEAN /\ settling \in BOOLEAN
  /\ reads \in Seq(Reads) /\ Len(reads) <= MaxReads
  /\ Len(bus) <= MaxBus /\ faults \in 0 .. MaxFaults
  /\ marks \subseteq {"behind", "ahead", "unfolded"}

-----------------------------------------------------------------------------
(* Rows *)

Row(id, type) ==
  [id |-> id, type |-> type, completed |-> FALSE, finish |-> "none",
   retry |-> FALSE, content |-> <<>>]

Part(kind, id) ==
  [kind |-> kind, id |-> id, text |-> <<>>, final |-> FALSE, note |-> FALSE,
   state |-> IF kind = "tool" THEN "streaming" ELSE "none"]

\* What the service has stored of a row, and what a page shows of it.
Stored(row) ==
  [row EXCEPT !.content = [i \in DOMAIN @ |-> IF @[i].final THEN @[i]
                                              ELSE [@[i] EXCEPT !.text = <<>>]]]
Page == [i \in DOMAIN live |-> Stored(live[i])]

IdsOf(s) == {s[i].id : i \in DOMAIN s}
RowOf(s, id) == s[CHOOSE i \in DOMAIN s : s[i].id = id]

\* mergeProjection: the page's rows replace those with their id, in place.
MergeProjection(s, page) ==
  [i \in DOMAIN s |-> IF s[i].id \in IdsOf(page) THEN RowOf(page, s[i].id) ELSE s[i]]
  \o SelectSeq(page, LAMBDA row : row.id \notin IdsOf(s))

-----------------------------------------------------------------------------
(* Events *)

Blank == [type |-> "none", of |-> 0, kind |-> "none", id |-> 0, text |-> <<>>,
          again |-> FALSE]
Event(type, of) == [Blank EXCEPT !.type = type, !.of = of]
PartEvent(type, of, part) ==
  [Event(type, of) EXCEPT !.kind = part.kind, !.id = part.id, !.text = part.text]

EditAssistant(s, id, F(_)) ==
  [i \in DOMAIN s |-> IF s[i].id = id /\ s[i].type = "assistant" THEN F(s[i]) ELSE s[i]]

\* editText, editReasoning, editTool: the last part the event may mean.
Target(content, e) ==
  {i \in DOMAIN content :
     /\ content[i].kind = e.kind
     /\ e.kind = "reasoning" => ~content[i].final
     /\ e.kind = "tool" => content[i].id = e.id}
EditPart(s, e, F(_)) ==
  EditAssistant(s, e.of, LAMBDA a :
    LET hits == Target(a.content, e)
    IN IF hits = {} THEN a ELSE [a EXCEPT !.content[Max(hits)] = F(@)])

\* Mutant: a retried step gets a message of its own.
StepStarted_Appended(s, id) == Append(s, Row(id, "assistant"))

\* stepStarted: a retried step reopens its message; a new one ends the last open one.
StepStarted(s, id) ==
  LET open == {i \in DOMAIN s : s[i].type = "assistant" /\ ~s[i].completed}
      again(a) == [a EXCEPT !.completed = FALSE, !.finish = "none", !.retry = FALSE]
  IN IF id \in IdsOf(s) THEN EditAssistant(s, id, again)
     ELSE Append([i \in DOMAIN s |-> IF open # {} /\ i = Max(open)
                                     THEN [s[i] EXCEPT !.completed = TRUE, !.retry = FALSE]
                                     ELSE s[i]],
                 Row(id, "assistant"))

ToolCalled(p, e) ==
  [p EXCEPT !.state = "running", !.text = e.text, !.final = TRUE, !.note = FALSE]
ToolSettled(p, state) ==
  [p EXCEPT !.state = state, !.note = FALSE, !.final = TRUE,
            !.text = IF p.state = "streaming" THEN <<>> ELSE @]

\* A delta adds to the text; the end brings all of it.
Grown(p, e) ==
  IF p.kind = "tool" /\ p.state # "streaming" THEN p ELSE [p EXCEPT !.text = @ \o e.text]
\* Mutant: the whole text is added to what the deltas brought.
Ended_Added(p, e) == [Grown(p, e) EXCEPT !.final = TRUE]
Ended(p, e) ==
  IF p.kind = "tool" /\ p.state # "streaming" THEN p
  ELSE [p EXCEPT !.text = e.text, !.final = TRUE]

\* The events of a step, of its parts' texts, and of its tools.
StepFolded(s, e) ==
  CASE e.type = "step.started" -> StepStarted(s, e.of)
    [] e.type = "step.ended" ->
         EditAssistant(s, e.of, LAMBDA a : [a EXCEPT !.completed = TRUE, !.finish = "stop"])
    [] e.type = "step.failed" ->
         EditAssistant(s, e.of, LAMBDA a :
           [a EXCEPT !.completed = TRUE, !.finish = "error", !.retry = FALSE])
    [] e.type = "retry.scheduled" -> EditAssistant(s, e.of, LAMBDA a : [a EXCEPT !.retry = TRUE])

PartFolded(s, e) ==
  CASE e.type = "started" ->
         EditAssistant(s, e.of, LAMBDA a : [a EXCEPT !.content = Append(@, Part(e.kind, e.id))])
    [] e.type = "delta" -> EditPart(s, e, LAMBDA p : Grown(p, e))
    [] e.type = "ended" -> EditPart(s, e, LAMBDA p : Ended(p, e))

\* A tool's event counts only in the state it follows, a call in any.
ToolFolded(s, e) ==
  EditPart(s, e, LAMBDA p :
    CASE e.type = "tool.called" -> ToolCalled(p, e)
      [] e.type = "tool.progress" /\ p.state = "running" -> [p EXCEPT !.note = TRUE]
      [] e.type = "tool.success" /\ p.state = "running" -> ToolSettled(p, "completed")
      [] e.type = "tool.failed" /\ p.state \in {"streaming", "running"} -> ToolSettled(p, "error")
      [] OTHER -> p)

\* applyTranscriptEvent, of the events that stream a turn.
Applied(s, e) ==
  CASE e.type \in {"step.started", "step.ended", "step.failed", "retry.scheduled"} -> StepFolded(s, e)
    [] e.type \in {"started", "delta", "ended"} -> PartFolded(s, e)
    [] e.type \in {"tool.called", "tool.progress", "tool.success", "tool.failed"} -> ToolFolded(s, e)
    [] e.type = "note" -> IF e.of \in IdsOf(s) THEN s ELSE Append(s, Row(e.of, "note"))
    [] OTHER -> s

-----------------------------------------------------------------------------
(* The service: one action per event *)

\* A session with no messages, or in the middle of a step.
Begun == {[Part("text", 0) EXCEPT !.text = <<1>>],
          [Part("tool", 1) EXCEPT !.text = <<1>>, !.final = TRUE]}

Init ==
  /\ live \in {<<>>} \cup {<<[Row(1, "assistant") EXCEPT !.content = <<part>>]>> : part \in Begun}
  /\ running = (live # <<>>)
  /\ sent = 0 /\ bus = <<>> /\ up = TRUE
  /\ held = FALSE /\ rows = <<>> /\ settling = FALSE
  /\ reads = <<>> /\ faults = 0 /\ marks = {}

Fault == faults < MaxFaults /\ faults' = faults + 1

\* The service writes "new" and sends the event to whoever listens.
Sent(new, e) ==
  /\ sent < MaxEvents /\ sent' = sent + 1
  /\ live' = new
  /\ IF up THEN Len(bus) < MaxBus /\ bus' = Append(bus, e) /\ UNCHANGED faults
     ELSE Fault /\ UNCHANGED bus
  /\ UNCHANGED <<up, clientVars, reads, marks>>

Turn(new, e) == running /\ UNCHANGED running /\ Sent(new, e)

\* The client's rows have nothing of a turn's start.
TurnStarts ==
  /\ ~running /\ running' = TRUE /\ sent < MaxEvents
  /\ UNCHANGED <<live, sent, bus, up, clientVars, reads, faults, marks>>

\* A turn succeeds, fails or is interrupted, perhaps in the middle of a step.
TurnEnds == running /\ running' = FALSE /\ Sent(live, Event("execution.ended", 0))

Step == Len(live)
InStep == live # <<>> /\ live[Step].type = "assistant" /\ ~live[Step].completed
SetStep(patch) == [live EXCEPT ![Step] = patch]
SetPart(i, patch) == [live EXCEPT ![Step].content[i] = patch]

StepStarts ==
  /\ Turn(Append([i \in DOMAIN live |->
                    IF i = Step /\ InStep THEN [live[i] EXCEPT !.completed = TRUE, !.retry = FALSE]
                    ELSE live[i]],
                 Row(Step + 1, "assistant")),
          Event("step.started", Step + 1))

StepRetried ==
  /\ InStep /\ live[Step].retry
  /\ Turn(SetStep([live[Step] EXCEPT !.completed = FALSE, !.finish = "none",
                                     !.retry = FALSE]),
          [Event("step.started", Step) EXCEPT !.again = TRUE])

RetryScheduled ==
  /\ InStep /\ ~live[Step].retry
  /\ Turn(SetStep([live[Step] EXCEPT !.retry = TRUE]), Event("retry.scheduled", Step))

StepEnds ==
  /\ InStep /\ ~live[Step].retry
  /\ \A i \in DOMAIN live[Step].content :
       live[Step].content[i].final /\ live[Step].content[i].state \notin {"streaming", "running"}
  /\ Turn(SetStep([live[Step] EXCEPT !.completed = TRUE, !.finish = "stop"]),
          Event("step.ended", Step))

StepFails ==
  /\ InStep
  /\ Turn(SetStep([live[Step] EXCEPT !.completed = TRUE, !.finish = "error", !.retry = FALSE]),
          Event("step.failed", Step))

At(i) == live[Step].content[i]

\* One text and one reasoning part are open at a time, of tools any number.
PartStarts(kind) ==
  /\ InStep /\ ~live[Step].retry
  /\ \A i \in DOMAIN live[Step].content :
       kind # "tool" /\ live[Step].content[i].kind = kind => live[Step].content[i].final
  /\ LET part == Part(kind, IF kind = "tool" THEN Len(live[Step].content) + 1 ELSE 0)
     IN Turn(SetStep([live[Step] EXCEPT !.content = Append(@, part)]),
             PartEvent("started", Step, part))

Growing(i) == InStep /\ i \in DOMAIN live[Step].content /\ ~At(i).final

PartGrows(i) ==
  /\ Growing(i)
  /\ LET chunk == Len(At(i).text) + 1
     IN Turn(SetPart(i, [At(i) EXCEPT !.text = Append(@, chunk)]),
             [PartEvent("delta", Step, At(i)) EXCEPT !.text = <<chunk>>])

PartEnds(i) ==
  /\ Growing(i) /\ At(i).text # <<>>
  /\ Turn(SetPart(i, [At(i) EXCEPT !.final = TRUE]), PartEvent("ended", Step, At(i)))

ToolIn(i, states) == InStep /\ i \in DOMAIN live[Step].content /\ At(i).state \in states

ToolRuns(i) ==
  /\ ToolIn(i, {"streaming"}) /\ At(i).final
  /\ Turn(SetPart(i, [At(i) EXCEPT !.state = "running"]), PartEvent("tool.called", Step, At(i)))

ToolProgresses(i) ==
  /\ ToolIn(i, {"running"}) /\ ~At(i).note
  /\ Turn(SetPart(i, [At(i) EXCEPT !.note = TRUE]), PartEvent("tool.progress", Step, At(i)))

ToolSucceeds(i) ==
  /\ ToolIn(i, {"running"})
  /\ Turn(SetPart(i, [At(i) EXCEPT !.state = "completed", !.note = FALSE]),
          PartEvent("tool.success", Step, At(i)))

\* A tool that never ran leaves no input.
ToolFails(i) ==
  /\ ToolIn(i, {"streaming", "running"})
  /\ Turn(SetPart(i, [At(i) EXCEPT !.state = "error", !.final = TRUE, !.note = FALSE,
                                   !.text = IF At(i).state = "streaming" THEN <<>> ELSE @]),
          PartEvent("tool.failed", Step, At(i)))

\* A synthetic message or an instruction update; a compaction; and a message
\* the client folds no event of, such as a change of agent or model.
Extra(type, event) ==
  /\ ~InStep /\ UNCHANGED running
  /\ Sent(Append(live, Row(Step + 1, type)), Event(event, Step + 1))
Noted == Extra("note", "note")
Compacted == Extra("other", "compaction")
Switched == Extra("other", "switched")

ServiceStep ==
  \/ TurnStarts \/ TurnEnds \/ StepStarts \/ StepRetried \/ RetryScheduled
  \/ StepEnds \/ StepFails \/ Noted \/ Compacted \/ Switched
  \/ \E kind \in PartKinds : PartStarts(kind)
  \/ \E i \in 1 .. MaxEvents + 1 :
       \/ PartGrows(i) \/ PartEnds(i)
       \/ ToolRuns(i) \/ ToolProgresses(i) \/ ToolSucceeds(i) \/ ToolFails(i)

-----------------------------------------------------------------------------
(* The client *)

Read(kind) == [kind |-> kind, served |-> FALSE, page |-> <<>>, owed |-> 0, stale |-> FALSE]
Ask(kept, more) == Len(kept) + Len(more) <= MaxReads /\ reads' = kept \o more

\* openNow, the first time: held before the page is in, so that events fold.
OpenSession ==
  /\ ~held /\ held' = TRUE
  /\ Ask(reads, <<Read("open")>>)
  /\ UNCHANGED <<serviceVars, bus, up, rows, settling, faults, marks>>

\* onEvent.  A served page is owed the events still on their way that it
\* shows already, and is stale once a later one is folded.
Folded(read) ==
  IF ~read.served THEN read
  ELSE IF read.owed > 0 THEN [read EXCEPT !.owed = @ - 1] ELSE [read EXCEPT !.stale = TRUE]

\* Mutant: the end of a turn reads nothing.
OnEvent_NoSettle ==
  /\ bus # <<>> /\ bus' = Tail(bus)
  /\ LET e == Head(bus)
     IN /\ rows' = IF held THEN Applied(rows, e) ELSE rows
        /\ Ask([i \in DOMAIN reads |-> Folded(reads[i])],
               IF e.type = "connected" THEN <<Read("list")>> ELSE <<>>)
  /\ UNCHANGED <<serviceVars, up, held, settling, faults, marks>>

OnEvent ==
  /\ bus # <<>> /\ bus' = Tail(bus)
  /\ LET e == Head(bus)
     IN /\ rows' = IF held THEN Applied(rows, e) ELSE rows
        /\ settling' = (settling \/ (held /\ e.type \in {"execution.ended", "compaction"}))
        /\ Ask([i \in DOMAIN reads |-> Folded(reads[i])],
               IF e.type = "connected" THEN <<Read("list")>> ELSE <<>>)
        /\ marks' = marks
             \cup {m \in {"unfolded"} : e.type = "switched" /\ held /\ e.of \notin IdsOf(rows)}
             \cup {m \in {"behind"} : e.again /\ held /\ e.of \notin IdsOf(rows)}
  /\ UNCHANGED <<serviceVars, up, held, faults>>

\* settle: the timer has run out.
Settle ==
  /\ settling /\ settling' = FALSE
  /\ Ask(reads, <<Read("tail")>>)
  /\ UNCHANGED <<serviceVars, bus, up, held, rows, faults, marks>>

\* The reads served are last, in that order.
ReadServed(i) ==
  /\ i \in DOMAIN reads /\ ~reads[i].served
  /\ reads[i].kind # "list"
  /\ reads' = Append(RemoveAt(reads, i),
                     [reads[i] EXCEPT !.served = TRUE, !.page = Page, !.owed = Len(bus)])
  /\ UNCHANGED <<serviceVars, bus, up, clientVars, faults, marks>>

\* A page is back: one served before it is stale from now on.
Back(i, kind) ==
  /\ i \in DOMAIN reads /\ reads[i].kind = kind /\ reads[i].served
  /\ reads' = RemoveAt([j \in DOMAIN reads |->
                          [reads[j] EXCEPT !.stale = @ \/ (j < i /\ reads[j].served)]], i)

\* The first page goes under the rows the events made meanwhile.
OpenBack(i) ==
  /\ Back(i, "open")
  /\ LET read == reads[i]
         new == IdsOf(read.page) \ IdsOf(rows)
     IN /\ rows' = MergeProjection(read.page, rows)
        /\ marks' = (IF read.stale THEN marks ELSE marks \ {"unfolded"})
             \cup {m \in {"behind"} : read.stale /\ new # {}}
             \cup {m \in {"ahead"} : read.owed > 0}
  /\ UNCHANGED <<serviceVars, bus, up, held, settling, faults>>

\* refreshTail: the page goes over the rows.
TailBack(i) ==
  /\ Back(i, "tail")
  /\ rows' = MergeProjection(rows, reads[i].page)
  /\ marks' = (IF reads[i].stale THEN marks \cup {"behind"} ELSE {})
              \cup {m \in {"ahead"} : reads[i].owed > 0}
  /\ UNCHANGED <<serviceVars, bus, up, held, settling, faults>>

Tails == IF held THEN <<Read("tail")>> ELSE <<>>

\* resync: the rows are read again once the list has come, or failed to.
ListBack(i) ==
  /\ i \in DOMAIN reads /\ reads[i].kind = "list"
  /\ Ask(RemoveAt(reads, i), Tails)
  /\ UNCHANGED <<serviceVars, bus, up, clientVars, faults, marks>>

ReadFailed(i) ==
  /\ i \in DOMAIN reads /\ Fault
  /\ Ask(RemoveAt(reads, i), IF reads[i].kind = "list" THEN Tails ELSE <<>>)
  /\ marks' = IF reads[i].kind = "list" THEN marks ELSE marks \cup {"behind"}
  /\ UNCHANGED <<serviceVars, bus, up, clientVars>>

BusLost ==
  /\ up /\ up' = FALSE /\ Fault
  /\ bus' = <<>>
  /\ reads' = [i \in DOMAIN reads |-> [reads[i] EXCEPT !.owed = 0]]
  /\ UNCHANGED <<serviceVars, clientVars, marks>>

Reconnected ==
  /\ ~up /\ up' = TRUE
  /\ bus' = <<Event("connected", 0)>>
  /\ UNCHANGED <<serviceVars, clientVars, reads, faults, marks>>

ClientStep ==
  \/ OpenSession \/ OnEvent \/ Settle \/ BusLost \/ Reconnected
  \/ \E i \in 1 .. MaxReads :
       ReadServed(i) \/ OpenBack(i) \/ TailBack(i) \/ ListBack(i) \/ ReadFailed(i)

Next == ServiceStep \/ ClientStep

Spec == Init /\ [][Next]_vars

-----------------------------------------------------------------------------
(* Properties *)

\* Nothing under way that could still change what is shown.
Quiet == held /\ up /\ bus = <<>> /\ reads = <<>> /\ ~settling

\* Once a turn has ended, what the client shows is what the service has stored,
\* whatever was lost, read twice or folded out of turn while it ran (settle,
\* resync; "once a turn ends the server's projection replaces whatever this
\* reducer built").  Excused: a read that failed, a page that came back after
\* later events were folded, and a row whose event the client does not know.
Settled ==
  Quiet /\ ~running /\ marks \cap {"behind", "unfolded"} = {} =>
    ToSet(rows) = ToSet(Page)

\* While a turn runs, a client that is up to date shows every message the
\* service has stored with every part of it as stored; what is still being
\* written may lack its beginning.  When a page was read ahead of the events
\* it shows, parts may be shown twice, but none is missing.
InTurn ==
  Quiet /\ "behind" \notin marks =>
    \A m \in ToSet(live) : m.type # "other" =>
      /\ m.id \in IdsOf(rows)
      /\ LET shown == RowOf(rows, m.id)
         IN IF "ahead" \in marks
            THEN {p \in ToSet(m.content) : p.final} \subseteq ToSet(shown.content)
            ELSE Stored(shown) = Stored(m)
=============================================================================
