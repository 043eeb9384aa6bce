------------------------------- MODULE Family -------------------------------
(***************************************************************************)
(* A session and the sessions its subagents run in: the rows the store     *)
(* keeps of them (the list holds root sessions only, the others are read   *)
(* on demand), the requests that a session shows of those below it, and    *)
(* the mark of a turn nobody has seen.  loadSessions, syncSession,         *)
(* ensureAncestry, onEvent, createSession, fork, loadSession,              *)
(* loadDescendants, markViewed, pending and waiting of                     *)
(* oc-client/src/store/store.ts.                                           *)
(*                                                                         *)
(* Rows are what their reads tell apart: there or not, the last turn that  *)
(* ended and the last one seen.  The service and the other clients are     *)
(* external.  The store has started; StoreSync has the start.              *)
(***************************************************************************)
EXTENDS Naturals, Sequences, FiniteSets, SequencesExt

CONSTANTS
  Parent,        \* the tree: of each session the one that started it, 0 of a root
  MaxTurns,      \* bound: turns of a session
  MaxChanges,    \* bound: what the service and the user start
  MaxFaults,     \* bound: failed requests and dropped streams
  MaxCalls,      \* bound: requests under way
  MaxBus         \* bound: events on their way

Sessions == DOMAIN Parent
Roots == {s \in Sessions : Parent[s] = 0}
Children(s) == {c \in Sessions : Parent[c] = s}

ASSUME FamilyBounds ==
  /\ Parent \in Seq(Nat) /\ \A s \in Sessions : Parent[s] < s
  /\ MaxTurns \in Nat /\ MaxChanges \in Nat /\ MaxFaults \in Nat
  /\ MaxCalls \in Nat \ {0} /\ MaxBus \in Nat \ {0}

VARIABLES
  info,          \* session.info: the rows shown
  cards,         \* session.permission and session.form: sessions with a request
  calls,         \* requests under way
  asking,        \* loadPending: sessions whose requests are being read
  told,          \* of those, what the service has answered
  stream, bus,   \* the event stream, and the events on their way
  sInfo,         \* the service: its rows
  sRunning,      \* the service: sessions in a turn
  sCards,        \* the service: sessions with a request that waits
  sGone,         \* the service: sessions that were deleted
  changes, faults,
  whole,         \* history: the rows below a root were all read (loadDescendants)
  lost,          \* history: sessions whose row may be wrong until it is read
  slipped        \* history: sessions whose requests may be

storeVars == <<info, cards>>
callVars == <<calls, asking, told>>
serviceVars == <<sInfo, sRunning, sCards, sGone>>
historyVars == <<whole, lost, slipped>>
vars == <<storeVars, callVars, stream, bus, serviceVars, changes, faults,
          historyVars>>

Rows == [there : BOOLEAN, idle : 0 .. MaxTurns, viewed : 0 .. MaxTurns]
NoRow == [there |-> FALSE, idle |-> 0, viewed |-> 0]
NewRow == [NoRow EXCEPT !.there = TRUE]
Unread(row) == row.idle > row.viewed

Known == {s \in Sessions : info[s].there}
Exist == {s \in Sessions : sInfo[s].there}

Kinds == {"list", "row", "chain", "below", "make", "view"}
Questions == [what : {"rows", "active", "row", "children", "make", "view"}, of : Sessions \cup {0}]
Calls == [kind : Kinds, of : Sessions \cup {0}, todo : SUBSET Questions,
          seen : SUBSET Sessions, rows : [Sessions -> Rows], active : SUBSET Sessions,
          idle : 0 .. MaxTurns]

TypeOK ==
  /\ info \in [Sessions -> Rows] /\ sInfo \in [Sessions -> Rows]
  /\ \A s \in Sessions : info[s].there \/ info[s] = NoRow
  /\ cards \subseteq Sessions /\ sCards \subseteq sRunning /\ sRunning \subseteq Exist
  /\ sGone \cap Exist = {}
  /\ calls \in Seq(Calls) /\ Len(calls) <= MaxCalls
  /\ asking \subseteq Sessions /\ DOMAIN told \subseteq asking
  /\ stream \in {"dialing", "open"} /\ Len(bus) <= MaxBus
  /\ whole \subseteq Roots /\ lost \subseteq Sessions /\ slipped \subseteq Sessions

-----------------------------------------------------------------------------
(* The tree *)

\* The session and those above it, the root last.
Line[s \in Sessions] == IF Parent[s] = 0 THEN <<s>> ELSE <<s>> \o Line[Parent[s]]

\* lineageOf: as far up as the rows reach.
Lineage(s) ==
  {Line[s][i] : i \in {n \in DOMAIN Line[s] : \A m \in 1 .. n - 1 : Line[s][m] \in Known}}

\* descendantsOf: as far down as the rows reach.
Descendants(s) ==
  {d \in Known : s # d /\ \E i \in DOMAIN Line[d] :
     Line[d][i] = s /\ \A m \in 1 .. i - 1 : Line[d][m] \in Known}

\* pending: the sessions whose requests show on the page of s.
Pending(s) == {c \in cards : s \in Lineage(c)}

\* waiting: the root sessions marked in the list.
Waiting == {r \in Known \cap Roots : Pending(r) # {}}

-----------------------------------------------------------------------------
(* Requests *)

Question(what, s) == [what |-> what, of |-> s]
Call(kind, s, todo) ==
  [kind |-> kind, of |-> s, todo |-> todo, seen |-> {}, rows |-> [x \in Sessions |-> NoRow],
   active |-> {}, idle |-> 0]

ListCall == Call("list", 0, {Question("rows", 0), Question("active", 0)})
RowCall(s) == Call("row", s, {Question("row", s)})

\* ensureAncestry: the first row that is missing on the way up, if any.
Chain(s, known) ==
  LET missing == {i \in DOMAIN Line[s] : Line[s][i] \notin known}
      next == Line[s][CHOOSE i \in missing : \A j \in missing : i <= j]
  IN IF missing = {} THEN <<>> ELSE <<Call("chain", next, {Question("row", next)})>>

\* The same from the parent of s; nothing is above a root.
ChainAbove(s, known) == IF Parent[s] = 0 THEN <<>> ELSE Chain(Parent[s], known)

Ask(kept, more) == Len(kept) + Len(more) <= MaxCalls /\ calls' = kept \o more

Change == changes < MaxChanges /\ changes' = changes + 1
Fault == faults < MaxFaults /\ faults' = faults + 1

Init ==
  /\ sInfo \in {[s \in Sessions |-> IF s <= n THEN NewRow ELSE NoRow] : n \in {0, 2}}
  /\ sRunning = Exist /\ sCards = {} /\ sGone = {}
  /\ info = [s \in Sessions |-> IF s \in Roots THEN sInfo[s] ELSE NoRow] /\ cards = {}
  /\ calls = <<>> /\ asking = {} /\ told = <<>>
  /\ stream = "open" /\ bus = <<>>
  /\ changes = 0 /\ faults = 0 /\ whole = {} /\ lost = {} /\ slipped = {}

\* What the service answers: the roots, one row, or the children of one.
Asked(q) ==
  CASE q.what = "rows" -> Roots
    [] q.what = "row" -> {q.of}
    [] q.what = "children" -> Children(q.of)
    [] q.what = "active" -> {}

Served(i, q) ==
  /\ i \in DOMAIN calls /\ q \in calls[i].todo
  /\ calls' = [calls EXCEPT ![i] =
       [@ EXCEPT !.todo = @ \ {q}, !.seen = @ \cup Asked(q),
                 !.rows = [s \in Sessions |-> IF s \in Asked(q) THEN sInfo[s] ELSE @[s]],
                 !.active = IF q.what = "active" THEN sRunning ELSE @]]
  /\ UNCHANGED <<storeVars, asking, told, stream, bus, serviceVars, changes, faults,
                 historyVars>>

\* The event will put right what an answer said of s.
Tells(e, s, row) ==
  /\ e.of = s
  /\ \/ e.type \in {"created", "deleted"}
     \/ e.type = "ended" /\ row.there
     \/ e.type = "viewed" /\ row.there /\ row.idle = sInfo[s].idle

\* An answer is in.  The rows it sets are lost if they are out of date and the
\* event that would tell is folded already; the others are right again.
Set(call) == IF call.kind = "list" THEN Roots ELSE {s \in call.seen : call.rows[s].there}
Outdated(call) ==
  {s \in Set(call) : call.rows[s] # sInfo[s] /\ \A e \in ToSet(bus) : ~Tells(e, s, call.rows[s])}
Back(i, kind) ==
  /\ i \in DOMAIN calls /\ calls[i].kind = kind /\ calls[i].todo = {}
  /\ lost' = (lost \ Set(calls[i])) \cup Outdated(calls[i])

\* The chains that a read of the list starts, one for each running session.
Chains(active, known) ==
  LET order == SetToSeq(active) IN FlattenSeq([n \in DOMAIN order |-> Chain(order[n], known)])

\* loadSessions: the roots are the list's, the other rows stay.  Of each running
\* session the requests are read, and the rows above it.
ListBack(i) ==
  /\ Back(i, "list")
  /\ info' = [s \in Sessions |-> IF s \in Roots THEN calls[i].rows[s] ELSE info[s]]
  /\ asking \cap calls[i].active = {} /\ asking' = asking \cup calls[i].active
  /\ Ask(RemoveAt(calls, i), Chains(calls[i].active, {s \in Sessions : info'[s].there}))
  /\ UNCHANGED <<cards, told, stream, bus, serviceVars, changes, faults, whole, slipped>>

\* syncSession.  A row that is gone is an error the store only reports.
RowBack(i) ==
  /\ Back(i, "row")
  /\ LET s == calls[i].of
     IN info' = [info EXCEPT ![s] = IF calls[i].rows[s].there THEN calls[i].rows[s] ELSE @]
  /\ Ask(RemoveAt(calls, i), <<>>)
  /\ UNCHANGED <<cards, asking, told, stream, bus, serviceVars, changes, faults, whole, slipped>>

\* ensureAncestry goes on from the row it got, or ends.
ChainBack(i) ==
  /\ Back(i, "chain")
  /\ LET s == calls[i].of
         found == calls[i].rows[s].there
     IN /\ info' = [info EXCEPT ![s] = IF found THEN calls[i].rows[s] ELSE @]
        /\ Ask(RemoveAt(calls, i), IF found THEN ChainAbove(s, Known \cup {s}) ELSE <<>>)
  /\ UNCHANGED <<cards, asking, told, stream, bus, serviceVars, changes, faults, whole, slipped>>

\* loadDescendants: a level of the tree is in, the next is read.
BelowBack(i) ==
  /\ Back(i, "below")
  /\ LET level == {s \in calls[i].seen : calls[i].rows[s].there}
     IN /\ info' = [s \in Sessions |-> IF s \in level THEN calls[i].rows[s] ELSE info[s]]
        /\ Ask(RemoveAt(calls, i),
               IF level = {} THEN <<>>
               ELSE <<Call("below", calls[i].of, {Question("children", s) : s \in level})>>)
        /\ whole' = IF level = {} THEN whole \cup {calls[i].of} ELSE whole
  /\ UNCHANGED <<cards, asking, told, stream, bus, serviceVars, changes, faults, slipped>>

\* createSession, fork: the new session is in the list right away.
MakeBack(i) ==
  /\ Back(i, "make")
  /\ info' = [info EXCEPT ![calls[i].of] = calls[i].rows[calls[i].of]]
  /\ Ask(RemoveAt(calls, i), <<>>)
  /\ UNCHANGED <<cards, asking, told, stream, bus, serviceVars, changes, faults, whole, slipped>>

\* loadPending of one session.
PendingServed(s) ==
  /\ s \in asking \ DOMAIN told
  /\ told' = [x \in DOMAIN told \cup {s} |-> IF x = s THEN s \in sCards ELSE told[x]]
  /\ UNCHANGED <<storeVars, calls, asking, stream, bus, serviceVars, changes, faults,
                 historyVars>>

PendingBack(s) ==
  /\ s \in DOMAIN told
  /\ cards' = IF told[s] THEN cards \cup {s} ELSE cards \ {s}
  /\ asking' = asking \ {s}
  /\ told' = [x \in DOMAIN told \ {s} |-> told[x]]
  /\ slipped' = IF told[s] = (s \in sCards) THEN slipped \ {s}
                ELSE IF \E e \in ToSet(bus) : e.of = s /\ e.type \in {"asked", "replied"}
                THEN slipped ELSE slipped \cup {s}
  /\ UNCHANGED <<info, calls, stream, bus, serviceVars, changes, faults, whole, lost>>

\* A request fails: what it was to bring is not read again.
CallFailed(i) ==
  /\ i \in DOMAIN calls /\ Fault
  /\ Ask(RemoveAt(calls, i), <<>>)
  /\ LET kind == calls[i].kind
     IN /\ lost' = lost \cup CASE kind = "list" -> Sessions
                               [] kind = "chain" -> ToSet(Line[calls[i].of]) \ Known
                               [] kind \in {"row", "view"} -> {calls[i].of}
                               [] OTHER -> {}
        /\ slipped' = IF kind = "list" THEN Sessions ELSE slipped
  /\ UNCHANGED <<storeVars, asking, told, stream, bus, serviceVars, changes, whole>>

PendingFailed(s) ==
  /\ s \in asking /\ Fault
  /\ asking' = asking \ {s}
  /\ told' = [x \in DOMAIN told \ {s} |-> told[x]]
  /\ slipped' = slipped \cup {s}
  /\ UNCHANGED <<storeVars, calls, stream, bus, serviceVars, changes, whole, lost>>

-----------------------------------------------------------------------------
(* The user of this client *)

UserKeeps == UNCHANGED <<cards, asking, told, stream, bus, serviceVars, faults, historyVars>>

\* The route of a session: its row and those above it are read.
LoadSession(s) ==
  /\ s \notin Known /\ Change
  /\ Ask(calls, Chain(s, Known))
  /\ UNCHANGED info /\ UserKeeps

\* The panel of a session asks what its subagents cost.
LoadDescendants(r) ==
  /\ r \in Known \cap Roots /\ Change
  /\ Ask(calls, <<Call("below", r, {Question("children", r)})>>)
  /\ UNCHANGED info /\ UserKeeps

CreateSession(r) ==
  /\ r \in Roots \ (Exist \cup sGone) /\ \A i \in DOMAIN calls : calls[i].of # r
  /\ Change
  /\ Ask(calls, <<[Call("make", r, {Question("make", r)}) EXCEPT !.seen = {r}]>>)
  /\ UNCHANGED info /\ UserKeeps

\* markViewed: the mark goes at once.
MarkViewed(s) ==
  /\ Unread(info[s]) /\ Change
  /\ info' = [info EXCEPT ![s].viewed = info[s].idle]
  /\ Ask(calls, <<[Call("view", s, {Question("view", s)}) EXCEPT !.idle = info[s].idle]>>)
  /\ UserKeeps

-----------------------------------------------------------------------------
(* The service *)

Event(type, s) == [type |-> type, of |-> s, idle |-> 0]

\* An event goes to whoever listens; nobody hears of it again.
Announce(e) ==
  /\ IF stream = "open" THEN Len(bus) < MaxBus /\ bus' = Append(bus, e) ELSE UNCHANGED bus
  /\ LET unheard == IF stream = "open" THEN {} ELSE {e.of}
     IN /\ lost' = lost \cup (IF e.type \in {"asked", "replied"} THEN {} ELSE unheard)
        /\ slipped' = slipped \cup (IF e.type = "replied" THEN unheard ELSE {})

ServiceKeeps == UNCHANGED <<storeVars, asking, told, stream, faults, whole>>

\* A new session: of another client, or of a subagent.
Spawn(s) ==
  /\ s \notin Exist \cup sGone /\ (Parent[s] = 0 \/ Parent[s] \in sRunning)
  /\ \A i \in DOMAIN calls : calls[i].kind = "make" => calls[i].of # s
  /\ Change
  /\ sInfo' = [sInfo EXCEPT ![s] = NewRow]
  /\ sRunning' = IF Parent[s] = 0 THEN sRunning ELSE sRunning \cup {s}
  /\ Announce(Event("created", s))
  /\ ServiceKeeps /\ UNCHANGED <<calls, sCards, sGone>>

MakeServed(i) ==
  /\ i \in DOMAIN calls /\ calls[i].kind = "make" /\ calls[i].todo # {}
  /\ LET r == calls[i].of
     IN /\ sInfo' = [sInfo EXCEPT ![r] = NewRow]
        /\ calls' = [calls EXCEPT ![i].todo = {}, ![i].rows[r] = NewRow]
        /\ Announce(Event("created", r))
  /\ ServiceKeeps /\ UNCHANGED <<sRunning, sCards, sGone, changes>>

StartTurn(r) ==
  /\ r \in (Roots \cap Exist) \ sRunning /\ sInfo[r].idle < MaxTurns /\ Change
  /\ sRunning' = sRunning \cup {r}
  /\ ServiceKeeps /\ UNCHANGED <<calls, bus, sInfo, sCards, sGone, lost, slipped>>

\* A turn waits for its subagents and its requests.
EndTurn(s) ==
  /\ s \in sRunning \ sCards /\ Children(s) \cap sRunning = {} /\ sInfo[s].idle < MaxTurns
  /\ sRunning' = sRunning \ {s}
  /\ sInfo' = [sInfo EXCEPT ![s].idle = @ + 1]
  /\ Announce(Event("ended", s))
  /\ ServiceKeeps /\ UNCHANGED <<calls, sCards, sGone, changes>>

Asks(s) ==
  /\ s \in sRunning \ sCards /\ Change
  /\ sCards' = sCards \cup {s}
  /\ Announce(Event("asked", s))
  /\ ServiceKeeps /\ UNCHANGED <<calls, sInfo, sRunning, sGone>>

\* A request is answered, by whichever client.
Replied(s) ==
  /\ s \in sCards
  /\ sCards' = sCards \ {s}
  /\ Announce(Event("replied", s))
  /\ ServiceKeeps /\ UNCHANGED <<calls, sInfo, sRunning, sGone, changes>>

Delete(s) ==
  /\ s \in Exist \ sRunning /\ Children(s) \cap Exist = {} /\ Change
  /\ sInfo' = [sInfo EXCEPT ![s] = NoRow] /\ sGone' = sGone \cup {s}
  /\ Announce(Event("deleted", s))
  /\ ServiceKeeps /\ UNCHANGED <<calls, sRunning, sCards>>

See(s, idle) ==
  /\ sInfo' = [sInfo EXCEPT ![s].viewed = IF @ < idle THEN idle ELSE @]
  /\ Announce([Event("viewed", s) EXCEPT !.idle = idle])
  /\ ServiceKeeps /\ UNCHANGED <<sRunning, sCards, sGone>>

OtherViews(s) == Unread(sInfo[s]) /\ Change /\ See(s, sInfo[s].idle) /\ UNCHANGED calls

ViewServed(i) ==
  /\ i \in DOMAIN calls /\ calls[i].kind = "view"
  /\ calls' = RemoveAt(calls, i)
  /\ IF calls[i].of \in Exist THEN See(calls[i].of, calls[i].idle)
     ELSE ServiceKeeps /\ UNCHANGED <<bus, serviceVars, lost, slipped>>
  /\ UNCHANGED changes

-----------------------------------------------------------------------------
(* The event stream *)

StreamLost ==
  /\ stream = "open" /\ Fault
  /\ stream' = "dialing" /\ bus' = <<>>
  /\ lost' = lost \cup {e.of : e \in {x \in ToSet(bus) :
                                    x.type \in {"created", "deleted", "ended", "viewed"}}}
  /\ slipped' = slipped \cup {e.of : e \in {x \in ToSet(bus) : x.type = "replied"}}
  /\ UNCHANGED <<storeVars, callVars, serviceVars, changes, whole>>

StreamOpens ==
  /\ stream = "dialing"
  /\ stream' = "open" /\ bus' = <<Event("connected", 0)>>
  /\ UNCHANGED <<storeVars, callVars, serviceVars, changes, faults, historyVars>>

\* Mutant: a request of a session does not read the rows above it.
Reads_NoAncestry(e) ==
  CASE e.type = "connected" -> <<ListCall>>
    [] e.type = "created" -> <<RowCall(e.of)>>
    [] e.type = "ended" -> IF e.of \in Known THEN <<RowCall(e.of)>> ELSE <<>>
    [] OTHER -> <<>>

\* What an event has the store read.
Reads(e) ==
  CASE e.type = "connected" -> <<ListCall>>
    [] e.type = "created" -> <<RowCall(e.of)>>
    [] e.type = "ended" -> IF e.of \in Known THEN <<RowCall(e.of)>> ELSE <<>>
    [] e.type = "asked" -> Chain(e.of, Known)
    [] OTHER -> <<>>

\* Mutant: a mark seen for a row that is not there makes one.
Folded_Makes(e) ==
  CASE e.type = "deleted" -> [info EXCEPT ![e.of] = NoRow]
    [] e.type = "viewed" -> [info EXCEPT ![e.of].viewed = IF @ < e.idle THEN e.idle ELSE @]
    [] OTHER -> info

\* What an event itself says of the rows; a mark seen never goes back.
Folded(e) ==
  CASE e.type = "deleted" -> [info EXCEPT ![e.of] = NoRow]
    [] e.type = "viewed" /\ e.of \in Known ->
         [info EXCEPT ![e.of].viewed = IF @ < e.idle THEN e.idle ELSE @]
    [] OTHER -> info

OnEvent ==
  /\ bus # <<>> /\ bus' = Tail(bus)
  /\ LET e == Head(bus)
     IN /\ Ask(calls, Reads(e))
        /\ info' = Folded(e)
        /\ cards' = CASE e.type = "asked" -> cards \cup {e.of}
                      [] e.type = "replied" -> cards \ {e.of}
                      [] OTHER -> cards
  /\ UNCHANGED <<asking, told, stream, serviceVars, changes, faults, historyVars>>

-----------------------------------------------------------------------------

CallStep ==
  \/ \E i \in DOMAIN calls :
       \/ \E q \in calls[i].todo : calls[i].kind \notin {"make", "view"} /\ Served(i, q)
       \/ ListBack(i) \/ RowBack(i) \/ ChainBack(i) \/ BelowBack(i) \/ MakeBack(i)
       \/ MakeServed(i) \/ ViewServed(i) \/ CallFailed(i)
  \/ \E s \in asking : PendingServed(s) \/ PendingBack(s) \/ PendingFailed(s)

ServiceStep ==
  \E s \in Sessions :
    \/ Spawn(s) \/ StartTurn(s) \/ EndTurn(s) \/ Asks(s) \/ Replied(s)
    \/ Delete(s) \/ OtherViews(s)

UserStep ==
  \E s \in Sessions :
    LoadSession(s) \/ LoadDescendants(s) \/ CreateSession(s) \/ MarkViewed(s)

Next == CallStep \/ ServiceStep \/ UserStep \/ StreamLost \/ StreamOpens \/ OnEvent

Spec == Init /\ [][Next]_vars

-----------------------------------------------------------------------------
(* Properties *)

Quiet == calls = <<>> /\ asking = {} /\ stream = "open" /\ bus = <<>>

\* Nothing in the line of s was lost on the way.
Sound(s) == ToSet(Line[s]) \cap lost = {}

\* Once nothing is on its way the rows shown are the service's, seen marks included,
\* every root session is there, and every session below one whose tree was read:
\* those made since then too, at any depth.  Excused is a row whose last event
\* was folded before an older answer came, or not heard of, until it is read again.
RowsAgree ==
  Quiet =>
    /\ \A s \in (Known \cup (Exist \cap Roots)) \ lost : info[s] = sInfo[s]
    /\ \A r \in whole : \A d \in Exist :
         r \in ToSet(Line[d]) \ {d} /\ Sound(d) => d \in Descendants(r)

\* A request a subagent waits on shows on its own page and on every session above
\* it, and marks the root in the list, whether or not any of them was open, also
\* one made while the stream was down.
RequestsReach ==
  Quiet => \A s \in sCards \ slipped : Sound(s) =>
    /\ \A a \in ToSet(Line[s]) : s \in Pending(a)
    /\ Last(Line[s]) \in Waiting

\* The tree the store shows is the service's, and no request waits unseen in it.
FamilyAgrees == RowsAgree /\ RequestsReach
=============================================================================
