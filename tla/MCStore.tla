------------------------------ MODULE MCStore ------------------------------
(* The two halves of a client's store, each with reads and events of its own: *)
(* the list with its cards, and the transcripts.  Those named by "Halves" run; *)
(* a model-checked instance follows one of them, the other stays where it      *)
(* begins.                                                                     *)
EXTENDS Naturals, FiniteSets, TLC

CONSTANTS
  Halves,                                              \* "list", "transcripts"
  MaxRow, MaxCard, MaxChanges,                         \* StoreSync
  Sessions, PageSize, Keep, MaxLen, MaxCommands, NoSession,   \* Transcripts
  MaxFaults, MaxReads, MaxBus

VARIABLES
  status, skip, row, busy, cards, replying, reads, stream, bus, sRow, sBusy,
  sCards, version, asked, changes, faults, overtaken, missed,
  recent, held, rows, paging, opening, settling, pageReads, len, pageBus, up,
  commands, pageFaults, unread, revived

list == <<status, skip, row, busy, cards, replying, reads, stream, bus, sRow,
  sBusy, sCards, version, asked, changes, faults, overtaken, missed>>
transcripts == <<recent, held, rows, paging, opening, settling, pageReads, len,
  pageBus, up, commands, pageFaults, unread, revived>>

L == INSTANCE StoreSync
T == INSTANCE Transcripts WITH reads <- pageReads, bus <- pageBus, faults <- pageFaults

ASSUME StoreBounds == L!StoreSyncBounds /\ T!TranscriptsBounds

Init ==
  /\ L!Init /\ T!Init
  /\ "list" \notin Halves => sRow = 0

Next ==
  \/ "list" \in Halves /\ L!Next /\ UNCHANGED transcripts
  \/ "transcripts" \in Halves /\ T!Next /\ UNCHANGED list

Spec == Init /\ [][Next]_<<list, transcripts>>

Symmetry == Permutations(Sessions)

-----------------------------------------------------------------------------
(* The properties of each *)

TypeOK == L!TypeOK /\ T!TypeOK

\* StoreSync: once nothing is on its way the list entry, its busy mark and the cards are
\* the service's (resync, onEvent).
StoreAgrees == L!StoreAgrees

\* Transcripts: those kept are the ones opened lately, whole up to their cursor, and no
\* spinner outlives its read (holdMessages, openNow, loadOlder, refreshTail).
Kept == T!Kept
=============================================================================
