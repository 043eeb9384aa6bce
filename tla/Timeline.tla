------------------------------ MODULE Timeline ------------------------------
(***************************************************************************)
(* The groups of the desktop's transcript (desktop/components/             *)
(* transcript-rows.ts): rowsOf stacks every run of tool calls and thinking *)
(* between two rows that stand alone into one group, and keepGroupKeys     *)
(* carries the groups' keys from one build of the rows to the next, as     *)
(* pages land in front, parts arrive behind and rows come and go between.  *)
(*                                                                         *)
(* A part is an "item" of a group (a tool call, a thought); "alone" (text, *)
(* a note, a finished question); "quiet", with nothing to show yet: blank  *)
(* text or thinking, a question that waits.  A message is its parts, or    *)
(* one "prompt", or "gone": a prompt that was rolled back.                 *)
(***************************************************************************)
EXTENDS Naturals, Sequences

CONSTANTS
  MaxMessages,   \* bound: messages of the session
  MaxParts       \* bound: parts of the session

TimelineBounds == MaxMessages \in Nat \ {0} /\ MaxParts \in Nat

VARIABLES
  messages,      \* how many messages the session has
  parts,         \* their parts in order; a part's key is its place
  from,          \* the first message that is loaded
  last,          \* the last one that is not hidden by a revert
  groups         \* the groups among the rows, as last built

vars == <<messages, parts, from, last, groups>>

Kinds == {"item", "alone", "quiet", "prompt", "gone"}

Part(n, kind) == [of |-> n, kind |-> kind]

TypeOK ==
  /\ messages \in 0 .. MaxMessages
  /\ parts \in Seq([of : 1 .. messages, kind : Kinds])
  /\ \A p, q \in DOMAIN parts : p < q => parts[p].of <= parts[q].of
  /\ from \in 1 .. messages + 1 /\ last \in 0 .. messages
  /\ \A g \in groups : g.key \in Nat /\ g.items # {} /\ g.items \subseteq DOMAIN parts

Init == messages = 0 /\ parts = <<>> /\ from = 1 /\ last = 0 /\ groups = {}

-----------------------------------------------------------------------------
(* A build of the rows *)

\* The items from message f to message l.
Items(ps, f, l) == {p \in DOMAIN ps : ps[p].of \in f .. l /\ ps[p].kind = "item"}

\* No row stands between the two.
Together(ps, p, q) ==
  \A r \in DOMAIN ps : (p < r /\ r < q) \/ (q < r /\ r < p) => ps[r].kind \notin {"alone", "prompt"}

\* rowsOf: the runs of items, each with all that no row separates from it.
RowsOf(ps, f, l) == {{q \in Items(ps, f, l) : Together(ps, p, q)} : p \in Items(ps, f, l)}

\* The first of a run.
Lead(run) == CHOOSE p \in run : \A q \in run : p <= q

\* Mutant: two groups may keep the same key.
KeyOf_Shared(gs, used, run) ==
  LET seen == {p \in run : \E g \in gs : p \in g.items}
  IN IF seen = {} THEN Lead(run) ELSE (CHOOSE g \in gs : Lead(seen) \in g.items).key

\* The key of a group: the first its items had that no group above took, or its own.
KeyOf(gs, used, run) ==
  LET free == {g \in gs : g.key \notin used}
      seen == {p \in run : \E g \in free : p \in g.items}
  IN IF seen = {} THEN Lead(run) ELSE (CHOOSE g \in free : Lead(seen) \in g.items).key

\* keepGroupKeys: the groups of the runs that start at or above each part.
KeptAbove(gs, runs, n) ==
  LET kept[p \in 0 .. n] ==
        IF p = 0 THEN {}
        ELSE kept[p - 1] \cup
               {[key |-> KeyOf(gs, {g.key : g \in kept[p - 1]}, run), items |-> run] :
                  run \in {r \in runs : Lead(r) = p}}
  IN kept

KeepGroupKeys(gs, runs, n) == KeptAbove(gs, runs, n)[n]

Build(gs) == groups' = KeepGroupKeys(gs, RowsOf(parts', from', last'), Len(parts'))

-----------------------------------------------------------------------------
(* What makes the panel build them again *)

\* The next step of the turn, a message with no part yet.
Step ==
  /\ last = messages /\ messages < MaxMessages
  /\ messages' = messages + 1 /\ last' = last + 1
  /\ UNCHANGED <<parts, from>> /\ Build(groups)

\* A prompt is sent, and drops what a staged revert hides.
Prompt ==
  /\ last < MaxMessages
  /\ messages' = last + 1 /\ last' = last + 1
  /\ \E n \in 0 .. Len(parts) :
       /\ \A p \in DOMAIN parts : p <= n <=> parts[p].of <= last
       /\ parts' = Append(SubSeq(parts, 1, n), Part(last + 1, "prompt"))
  /\ from' = IF from > last + 1 THEN last + 1 ELSE from
  /\ Build(groups)

\* A prompt that is loaded and not hidden.
Prompted(p) == parts[p].of \in from .. last /\ parts[p].kind = "prompt"

\* A prompt the service refused comes off the screen.
RollBack(p) ==
  /\ last = messages /\ Prompted(p)
  /\ parts' = [parts EXCEPT ![p].kind = "gone"]
  /\ UNCHANGED <<messages, from, last>> /\ Build(groups)

IsStep(n) ==
  n # 0 /\ \A p \in DOMAIN parts : parts[p].of = n => parts[p].kind \notin {"prompt", "gone"}

\* A part of the turn's step starts.
PartStarts(kind) ==
  /\ last = messages /\ IsStep(last) /\ Len(parts) < MaxParts
  /\ parts' = Append(parts, Part(last, kind))
  /\ UNCHANGED <<messages, from, last>> /\ Build(groups)

\* A part that had nothing to show gets its first words, or its answer.
PartShows(p, kind) ==
  /\ last = messages /\ parts[p].of \in from .. last
  /\ parts[p].kind = "quiet"
  /\ parts' = [parts EXCEPT ![p].kind = kind]
  /\ UNCHANGED <<messages, from, last>> /\ Build(groups)

\* An older page lands in front.
OlderPage ==
  /\ from > 1 /\ from' = from - 1
  /\ UNCHANGED <<messages, parts, last>> /\ Build(groups)

\* visibleMessages: a revert hides its prompt and all that follows; redo shows it again.
Revert(p) ==
  /\ Prompted(p)
  /\ last' = parts[p].of - 1
  /\ UNCHANGED <<messages, parts, from>> /\ Build(groups)

Redo ==
  /\ last < messages /\ last' = messages
  /\ UNCHANGED <<messages, parts, from>> /\ Build(groups)

\* The session is left and opened again, on its newest message, with no key seen.
Reopen ==
  /\ from < messages /\ from' = messages
  /\ UNCHANGED <<messages, parts, last>> /\ Build({})

Next ==
  \/ Step \/ Prompt \/ OlderPage \/ Redo \/ Reopen
  \/ \E kind \in {"item", "alone", "quiet"} : PartStarts(kind)
  \/ \E p \in DOMAIN parts : RollBack(p) \/ Revert(p)
  \/ \E p \in DOMAIN parts, kind \in {"item", "alone"} : PartShows(p, kind)

Spec == Init /\ [][Next]_vars

-----------------------------------------------------------------------------
(* Properties *)

\* transcript-rows.test.ts, of a run that splits: "gives each group its own key".
KeysApart == \A g, h \in groups : g.key = h.key => g = h

\* keepGroupKeys: "a group that gains items at either end keeps the key it first had",
\* so the list keeps its place on the row, as long as the session stays open and the
\* groups had keys of their own.
KeepsPlace ==
  \A g \in groups, h \in groups' :
    /\ g.items \subseteq h.items
    /\ \A other \in groups : other = g \/ other.items \cap h.items = {}
    => h.key = g.key

\* Two groups come to share a key only where the later one's first item gave the group
\* above its key, by having stood first in a group that has split since.
SharedByLead ==
  \A g, h \in groups' :
    Lead(g.items) < Lead(h.items) /\ g.key = h.key => Lead(h.items) = g.key

\* What every build of the rows keeps.
KeepsGroups ==
  /\ SharedByLead
  /\ Reopen \/ (KeysApart => KeepsPlace)
=============================================================================
