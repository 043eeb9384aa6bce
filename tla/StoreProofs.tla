---------------------------- MODULE StoreProofs ----------------------------
(***************************************************************************)
(* Theorems about the two halves of a client's store, for any bounds: of   *)
(* StoreSync, that once nothing is under way the list shows what the       *)
(* service has; of Transcripts, that those kept have their newest message  *)
(* and each older one within reach.                                        *)
(***************************************************************************)
EXTENDS MCStore, QueueLemmas, FiniteSetTheorems, TLAPS

LEMMA StoreSyncBounds ==
  /\ MaxRow \in Nat \ {0} /\ MaxCard \in Nat \ {0} /\ MaxChanges \in Nat
  /\ MaxFaults \in Nat /\ MaxReads \in Nat \ {0, 1} /\ MaxBus \in Nat \ {0}
BY StoreBounds DEF L!StoreSyncBounds

LEMMA TranscriptsBounds ==
  /\ PageSize \in Nat \ {0} /\ Keep \in Nat \ {0} /\ MaxLen \in Nat /\ MaxLen > PageSize
  /\ MaxCommands \in Nat /\ MaxFaults \in Nat /\ MaxReads \in Nat \ {0} /\ MaxBus \in Nat \ {0, 1}
  /\ NoSession \notin Sessions
BY StoreBounds DEF T!TranscriptsBounds

-----------------------------------------------------------------------------
(* The library's operators, as each half names them *)

LEMMA ListNames ==
  /\ \A s, i : L!RemoveAt(s, i) = RemoveAt(s, i)
  /\ \A s : L!ToSet(s) = ToSet(s)
BY DEF L!RemoveAt, RemoveAt, L!ToSet, ToSet

LEMMA PageNames ==
  /\ \A s, i : T!RemoveAt(s, i) = RemoveAt(s, i)
  /\ \A s : T!ToSet(s) = ToSet(s) /\ (T!IsInjective(s) <=> IsInjective(s))
  /\ \A s : T!Last(s) = Last(s)
  /\ \A s, e : T!Contains(s, e) <=> Contains(s, e)
  /\ \A s, keep : T!Only(s, keep) = Only(s, keep)
<1>1. \A s, keep : T!Only(s, keep) = Only(s, keep)
  BY DEF T!Only, Only, T!KeptTo, KeptTo
<1> QED
  BY <1>1 DEF T!RemoveAt, RemoveAt, T!ToSet, ToSet, T!IsInjective, IsInjective, T!Last, Last, T!Contains, Contains

-----------------------------------------------------------------------------
(* The list's inductive invariant *)

ListReads == {"start", "resync"}
RowReads == {"start", "resync", "row"}
ReadKinds == {r.kind : r \in Elements(reads)}

RowEvents == {"created", "renamed", "deleted", "ended"}
BusyEvents == {"started", "ended", "deleted"}
LifeEvents == {"created", "deleted"}
OnBus(types) == \E e \in Elements(bus) : e.type \in types

\* Each a is followed by a b.
Trailed(queue, a, b) ==
  \A i \in 1 .. Len(queue) : queue[i] = a => \E j \in 1 .. Len(queue) : j > i /\ queue[j] = b

\* The list will be read again.
Relisted == ~skip /\ (stream = "dialing" \/ OnBus({"connected"}))

\* The first connection is still to be told of, and the service's turns hold its row.
Ordered ==
  /\ stream = "dialing" => bus = <<>>
  /\ skip => stream = "dialing" \/ OnBus({"connected"})
  /\ sBusy => sRow # 0
  /\ sCards # {} => sBusy
  /\ sCards \subseteq 1 .. asked

\* The last event of each kind tells what the service has now.
TellsRow ==
  /\ \A e \in Finals(bus, RowEvents) :
       /\ e.type = "deleted" <=> sRow = 0
       /\ e.type = "renamed" => e.of = sRow
  /\ \A e \in Finals(bus, LifeEvents) : e.type = "deleted" <=> sRow = 0
TellsBusy == \A e \in Finals(bus, BusyEvents) : e.type = "started" <=> sBusy
TellsCards ==
  \A c \in L!Cards :
    /\ L!Event("replied", c) \in Elements(bus) => c \in 1 .. asked /\ c \notin sCards
    /\ c \notin sCards => Trailed(bus, L!Event("asked", c), L!Event("replied", c))

\* The row shown is the service's, or a read or an event under way makes it so.
RowComing ==
  /\ sRow # 0 => \/ ReadKinds \cap RowReads # {}
                 \/ Relisted
                 \/ OnBus(LifeEvents)
                 \/ row # 0 /\ (OnBus(RowEvents) \/ row = sRow)
  /\ sRow = 0 => \/ ReadKinds \cap ListReads # {}
                 \/ Relisted
                 \/ OnBus(RowEvents)
                 \/ row = 0
RowFollowed ==
  "row" \notin overtaken =>
    /\ \A r \in Elements(reads) : "row" \in r.got => r.row = sRow
    /\ RowComing

\* So is the busy mark.
BusyComing ==
  \/ ReadKinds \cap ListReads # {} \/ Relisted \/ OnBus(BusyEvents)
  \/ busy = sBusy
BusyFollowed ==
  "busy" \notin overtaken =>
    /\ \A r \in Elements(reads) : "busy" \in r.got => r.busy = sBusy
    /\ BusyComing

\* A read of the requests, or of the list in which the session is running.
Looks(r) == r.kind = "pending" \/ (r.kind \in ListReads /\ ("busy" \in r.got => r.busy))

\* And so are the cards, except that one settled unseen may stay.
CardComing(c) ==
  \/ c \in cards \/ L!Event("asked", c) \in Elements(bus)
  \/ Relisted \/ \E r \in Elements(reads) : Looks(r)
CardsFollowed ==
  "cards" \notin overtaken =>
    /\ \A r \in Elements(reads) : "cards" \in r.got => r.cards = sCards
    /\ \A c \in sCards : CardComing(c)
    /\ \A c \in cards \ sCards : c \in missed \/ L!Event("replied", c) \in Elements(bus)

\* Paged together with TypeOK.
Followed == Ordered /\ TellsRow /\ TellsBusy /\ TellsCards /\ RowFollowed /\ BusyFollowed /\ CardsFollowed

-----------------------------------------------------------------------------
(* Queues *)

LEMMA OneElements == \A a : Elements(<<a>>) = {a}
  BY DEF Elements

LEMMA ConcatElements ==
  ASSUME NEW S, NEW p \in Seq(S), NEW q \in Seq(S)
  PROVE  /\ p \o q \in Seq(S) /\ Len(p \o q) = Len(p) + Len(q)
         /\ Elements(p \o q) = Elements(p) \cup Elements(q)
<1>1. /\ p \o q \in Seq(S) /\ Len(p \o q) = Len(p) + Len(q) /\ Len(p) \in Nat /\ Len(q) \in Nat
      /\ \A i \in 1 .. Len(p) + Len(q) : (p \o q)[i] = IF i <= Len(p) THEN p[i] ELSE q[i - Len(p)]
  BY ConcatProperties, LenProperties
<1> DEFINE r == p \o q
<1>2. r \in Seq(S) /\ Len(r) = Len(p) + Len(q)
      /\ \A i \in 1 .. Len(p) + Len(q) : r[i] = IF i <= Len(p) THEN p[i] ELSE q[i - Len(p)]
  BY <1>1
<1> HIDE DEF r
<1>3. Elements(r) \subseteq Elements(p) \cup Elements(q)
  BY <1>1, <1>2 DEF Elements
<1>4. Elements(p) \subseteq Elements(r)
  <2>1. \A i \in 1 .. Len(p) : i \in 1 .. Len(r) /\ r[i] = p[i]
    BY <1>1, <1>2
  <2> QED BY <2>1 DEF Elements
<1>5. Elements(q) \subseteq Elements(r)
  <2>1. ASSUME NEW i \in 1 .. Len(q) PROVE i + Len(p) \in 1 .. Len(r) /\ r[i + Len(p)] = q[i]
    <3>1. /\ i + Len(p) \in 1 .. Len(p) + Len(q) /\ ~(i + Len(p) <= Len(p))
          /\ (i + Len(p)) - Len(p) = i
      BY <1>1
    <3> QED BY <1>2, <3>1
  <2> QED BY <2>1 DEF Elements
<1> QED
  BY <1>2, <1>3, <1>4, <1>5 DEF r

LEMMA RemoveElements ==
  ASSUME NEW S, NEW q \in Seq(S), NEW i \in DOMAIN q
  PROVE  /\ RemoveAt(q, i) \in Seq(S) /\ Len(RemoveAt(q, i)) = Len(q) - 1
         /\ q[i] \in S /\ q[i] \in Elements(q)
         /\ Elements(RemoveAt(q, i)) \subseteq Elements(q)
         /\ Elements(q) \subseteq Elements(RemoveAt(q, i)) \cup {q[i]}
<1>1. Len(q) \in Nat /\ i \in 1 .. Len(q) /\ q \in [1 .. Len(q) -> S]
  BY LenProperties
<1> DEFINE a == SubSeq(q, 1, i - 1)
           b == SubSeq(q, i + 1, Len(q))
<1>2. /\ a \in Seq(S) /\ Len(a) = i - 1
      /\ \A k \in 1 .. i - 1 : a[k] = q[k]
  BY <1>1, SubSeqProperties
<1>3. /\ b \in Seq(S) /\ Len(b) = Len(q) - i
      /\ \A k \in 1 .. Len(q) - i : b[k] = q[k + i]
  <2>1. /\ i + 1 \in Int /\ Len(q) \in Int /\ \A k \in i + 1 .. Len(q) : q[k] \in S
        /\ Len(q) - (i + 1) + 1 = Len(q) - i
    BY <1>1
  <2>2. /\ b \in Seq(S)
        /\ Len(b) = IF i + 1 <= Len(q) THEN Len(q) - (i + 1) + 1 ELSE 0
        /\ \A k \in 1 .. Len(q) - (i + 1) + 1 : b[k] = q[(i + 1) + k - 1]
    BY <2>1, SubSeqProperties
  <2>3. \A k \in 1 .. Len(q) - i : (i + 1) + k - 1 = k + i
    BY <1>1
  <2> HIDE DEF b
  <2> QED BY <1>1, <2>1, <2>2, <2>3
<1>4. RemoveAt(q, i) = a \o b
  BY DEF RemoveAt
<1> HIDE DEF a, b
<1>5. /\ a \o b \in Seq(S) /\ Len(a \o b) = Len(q) - 1
      /\ Elements(a \o b) = Elements(a) \cup Elements(b)
  <2>1. /\ a \o b \in Seq(S) /\ Len(a \o b) = Len(a) + Len(b)
        /\ Elements(a \o b) = Elements(a) \cup Elements(b)
    BY <1>2, <1>3, ConcatElements
  <2>2. Len(a) + Len(b) = Len(q) - 1
    BY <1>1, <1>2, <1>3
  <2> QED BY <2>1, <2>2
<1>6. Elements(a) \subseteq Elements(q) /\ Elements(b) \subseteq Elements(q)
  <2>1. \A k \in 1 .. Len(a) : k \in 1 .. Len(q) /\ a[k] = q[k]
    BY <1>1, <1>2
  <2>2. ASSUME NEW k \in 1 .. Len(b) PROVE k + i \in 1 .. Len(q) /\ b[k] = q[k + i]
    <3>1. k \in 1 .. Len(q) - i /\ k + i \in 1 .. Len(q)
      BY <1>1, <1>3
    <3> QED BY <1>3, <3>1
  <2> QED BY <2>1, <2>2 DEF Elements
<1>7. ASSUME NEW k \in 1 .. Len(q), k # i PROVE q[k] \in Elements(a) \cup Elements(b)
  <2>1. CASE k < i
    <3>1. k \in 1 .. Len(a) /\ a[k] = q[k]
      BY <1>1, <1>2, <2>1
    <3> QED BY <3>1 DEF Elements
  <2>2. CASE k > i
    <3>1. k - i \in 1 .. Len(q) - i /\ (k - i) + i = k
      BY <1>1, <2>2
    <3>2. k - i \in 1 .. Len(b) /\ b[k - i] = q[k]
      BY <1>3, <3>1
    <3> QED BY <3>2 DEF Elements
  <2> QED BY <1>1, <1>7, <2>1, <2>2
<1>8. Elements(q) \subseteq Elements(a) \cup Elements(b) \cup {q[i]}
  BY <1>1, <1>7 DEF Elements
<1> QED
  BY <1>1, <1>4, <1>5, <1>6, <1>8 DEF Elements

LEMMA ReplaceElements ==
  ASSUME NEW S, NEW q \in Seq(S), NEW i \in DOMAIN q, NEW a \in S
  PROVE  /\ [q EXCEPT ![i] = a] \in Seq(S) /\ Len([q EXCEPT ![i] = a]) = Len(q)
         /\ q[i] \in S /\ q[i] \in Elements(q) /\ a \in Elements([q EXCEPT ![i] = a])
         /\ Elements([q EXCEPT ![i] = a]) \subseteq Elements(q) \cup {a}
         /\ Elements(q) \subseteq Elements([q EXCEPT ![i] = a]) \cup {q[i]}
<1> DEFINE r == [q EXCEPT ![i] = a]
<1>1. Len(q) \in Nat /\ i \in 1 .. Len(q) /\ q \in [1 .. Len(q) -> S]
  BY LenProperties
<1>2. r \in Seq(S) /\ Len(r) = Len(q) /\ r[i] = a /\ \A k \in 1 .. Len(q) : k # i => r[k] = q[k]
  BY <1>1, ExceptSeq
<1> HIDE DEF r
<1>3. Elements(r) \subseteq Elements(q) \cup {a} /\ a \in Elements(r)
  BY <1>1, <1>2 DEF Elements
<1>4. Elements(q) \subseteq Elements(r) \cup {q[i]}
  BY <1>1, <1>2 DEF Elements
<1> QED
  BY <1>1, <1>2, <1>3, <1>4 DEF r, Elements

LEMMA AppendTrailed ==
  ASSUME NEW S, NEW q \in Seq(S), NEW e \in S, NEW a, NEW b, a # b
  PROVE  /\ e = b => Trailed(Append(q, e), a, b)
         /\ e # a /\ Trailed(q, a, b) => Trailed(Append(q, e), a, b)
<1> DEFINE r == Append(q, e)
<1>1. /\ Len(r) = Len(q) + 1 /\ Len(q) \in Nat /\ r[Len(q) + 1] = e
      /\ \A i \in 1 .. Len(q) : r[i] = q[i]
  BY AppendProperties, LenProperties
<1> HIDE DEF r
<1>2. ASSUME e = b PROVE Trailed(r, a, b)
  BY <1>1, <1>2 DEF Trailed
<1>3. ASSUME e # a, Trailed(q, a, b) PROVE Trailed(r, a, b)
  <2> SUFFICES ASSUME NEW i \in 1 .. Len(r), r[i] = a PROVE \E j \in 1 .. Len(r) : j > i /\ r[j] = b
    BY DEF Trailed
  <2>1. i \in 1 .. Len(q) /\ q[i] = a
    BY <1>1, <1>3
  <2>2. PICK j \in 1 .. Len(q) : j > i /\ q[j] = b
    BY <1>3, <2>1 DEF Trailed
  <2> QED BY <1>1, <2>2
<1> QED
  BY <1>2, <1>3 DEF r

LEMMA TailTrailed ==
  ASSUME NEW S, NEW q \in Seq(S), q # <<>>, NEW a, NEW b, Trailed(q, a, b)
  PROVE  /\ Trailed(Tail(q), a, b)
         /\ a \in Elements(q) => b \in Elements(q)
         /\ Head(q) = a => b \in Elements(Tail(q))
<1> DEFINE r == Tail(q)
<1>1. /\ Head(q) = q[1] /\ Len(r) = Len(q) - 1 /\ Len(q) \in Nat /\ Len(q) >= 1
      /\ \A i \in 1 .. Len(r) : r[i] = q[i + 1]
  BY HeadTailProperties, LenProperties, EmptySeq
<1> HIDE DEF r
<1>2. ASSUME NEW i \in 1 .. Len(q), q[i] = a PROVE \E j \in 1 .. Len(r) : j + 1 > i /\ r[j] = b
  <2>1. PICK j \in 1 .. Len(q) : j > i /\ q[j] = b
    BY <1>2 DEF Trailed
  <2>2. j - 1 \in 1 .. Len(r) /\ r[j - 1] = b /\ (j - 1) + 1 > i
    BY <1>1, <2>1
  <2> QED BY <2>2
<1>3. Trailed(r, a, b)
  <2> SUFFICES ASSUME NEW i \in 1 .. Len(r), r[i] = a PROVE \E j \in 1 .. Len(r) : j > i /\ r[j] = b
    BY DEF Trailed
  <2>1. i + 1 \in 1 .. Len(q) /\ q[i + 1] = a
    BY <1>1
  <2>2. PICK j \in 1 .. Len(r) : j + 1 > i + 1 /\ r[j] = b
    BY <1>2, <2>1
  <2> QED BY <1>1, <2>2
<1>4. a \in Elements(q) => b \in Elements(q)
  BY DEF Trailed, Elements
<1>5. Head(q) = a => b \in Elements(r)
  BY <1>1, <1>2 DEF Elements
<1> QED
  BY <1>3, <1>4, <1>5 DEF r

-----------------------------------------------------------------------------
(* Reads and events *)

LEMMA ReadTyped ==
  ASSUME NEW k \in L!Kinds
  PROVE  L!Read(k) \in L!Reads /\ L!Read(k).kind = k /\ L!Read(k).got = {}
  BY StoreSyncBounds DEF L!Read, L!Reads, L!Cards

LEMMA EventTyped ==
  /\ \A type \in {"connected", "created", "deleted", "started", "ended"} : L!Event(type, 0) \in L!Events
  /\ \A v \in 1 .. MaxRow : L!Event("renamed", v) \in L!Events
  /\ \A c \in L!Cards : L!Event("asked", c) \in L!Events /\ L!Event("replied", c) \in L!Events
  BY DEF L!Event, L!Events

LEMMA EventFields ==
  \A type, n : L!Event(type, n).type = type /\ L!Event(type, n).of = n
  BY DEF L!Event

LEMMA EventIs == \A e \in L!Events : e = L!Event(e.type, e.of)
  BY DEF L!Event, L!Events

\* A new read has no answer yet.
Fresh(r, kinds) == r.got = {} /\ r.kind \in Elements(kinds)

LEMMA AskFacts ==
  ASSUME NEW kept \in Seq(L!Reads), NEW kinds \in Seq(L!Kinds), L!Ask(kept, kinds)
  PROVE  /\ reads' \in Seq(L!Reads) /\ Len(reads') <= MaxReads
         /\ Elements(kept) \subseteq Elements(reads')
         /\ \A r \in Elements(reads') : r \in Elements(kept) \/ Fresh(r, kinds)
         /\ \A k \in Elements(kinds) : \E r \in Elements(reads') : r.kind = k /\ r.got = {}
<1> DEFINE new == [i \in DOMAIN kinds |-> L!Read(kinds[i])]
<1>1. /\ Len(kinds) \in Nat /\ DOMAIN kinds = 1 .. Len(kinds) /\ \A i \in 1 .. Len(kinds) : kinds[i] \in L!Kinds
  BY LenProperties
<1>2. new \in [1 .. Len(kinds) -> L!Reads]
  BY <1>1, ReadTyped
<1>3. new \in Seq(L!Reads) /\ Len(new) = Len(kinds)
  BY <1>1, <1>2
<1>4. \A i \in 1 .. Len(kinds) : new[i].got = {} /\ new[i].kind = kinds[i]
  BY <1>1, ReadTyped
<1>5. reads' = kept \o new /\ Len(kept) + Len(kinds) <= MaxReads
  BY DEF L!Ask
<1> HIDE DEF new
<1>6. /\ reads' \in Seq(L!Reads) /\ Len(reads') = Len(kept) + Len(new)
      /\ Elements(reads') = Elements(kept) \cup Elements(new)
  BY <1>3, <1>5, ConcatElements, ZenonT(20)
<1>7. \A r \in Elements(new) : Fresh(r, kinds)
  BY <1>3, <1>4 DEF Elements, Fresh
<1>8. \A k \in Elements(kinds) : \E r \in Elements(new) : r.kind = k /\ r.got = {}
  BY <1>3, <1>4 DEF Elements
<1> QED
  BY <1>3, <1>5, <1>6, <1>7, <1>8

\* A read that is back leaves the others.
LEMMA BackFacts ==
  ASSUME L!TypeOK, NEW i \in DOMAIN reads, NEW kinds \in Seq(L!Kinds), L!Ask(RemoveAt(reads, i), kinds)
  PROVE  /\ reads' \in Seq(L!Reads) /\ Len(reads') <= MaxReads
         /\ reads[i] \in L!Reads /\ reads[i] \in Elements(reads)
         /\ Elements(reads) \subseteq Elements(reads') \cup {reads[i]}
         /\ \A r \in Elements(reads') : r \in Elements(reads) \/ Fresh(r, kinds)
         /\ \A k \in Elements(kinds) : \E r \in Elements(reads') : r.kind = k /\ r.got = {}
<1>1. reads \in Seq(L!Reads)
  BY DEF L!TypeOK
<1> DEFINE kept == RemoveAt(reads, i)
<1>2. /\ kept \in Seq(L!Reads) /\ reads[i] \in L!Reads /\ reads[i] \in Elements(reads)
      /\ Elements(kept) \subseteq Elements(reads)
      /\ Elements(reads) \subseteq Elements(kept) \cup {reads[i]}
  BY <1>1, RemoveElements
<1> HIDE DEF kept
<1>3. L!Ask(kept, kinds)
  BY DEF kept
<1> QED
  BY <1>2, <1>3, AskFacts

\* The service answers one part of a read.
LEMMA ServedFacts ==
  ASSUME L!TypeOK, NEW i, NEW part \in L!Parts, L!ReadServed(i, part)
  PROVE  /\ reads' \in Seq(L!Reads) /\ Len(reads') <= MaxReads
         /\ \E r \in Elements(reads), a \in Elements(reads') :
              /\ Elements(reads') \subseteq Elements(reads) \cup {a}
              /\ Elements(reads) \subseteq Elements(reads') \cup {r}
              /\ part \in L!Wanted(r.kind) \ r.got
              /\ a.kind = r.kind /\ a.got = r.got \cup {part}
              /\ a.row = IF part = "row" THEN sRow ELSE r.row
              /\ a.busy = IF part = "busy" THEN sBusy ELSE r.busy
              /\ a.cards = IF part = "cards" THEN sCards ELSE r.cards
<1> DEFINE r == reads[i]
           a == [kind |-> r.kind, got |-> r.got \cup {part},
                 row |-> IF part = "row" THEN sRow ELSE r.row,
                 busy |-> IF part = "busy" THEN sBusy ELSE r.busy,
                 cards |-> IF part = "cards" THEN sCards ELSE r.cards]
<1>1. reads \in Seq(L!Reads) /\ Len(reads) <= MaxReads /\ i \in DOMAIN reads
  BY DEF L!TypeOK, L!ReadServed
<1>2. r \in L!Reads /\ part \in L!Wanted(r.kind) \ r.got
  BY <1>1, RemoveElements DEF L!ReadServed
<1>3. a \in L!Reads
  BY <1>2 DEF L!TypeOK, L!Reads
<1>4. reads' = [reads EXCEPT ![i] = a]
  BY DEF L!ReadServed
<1>6. /\ a.kind = r.kind /\ a.got = r.got \cup {part}
      /\ a.row = IF part = "row" THEN sRow ELSE r.row
      /\ a.busy = IF part = "busy" THEN sBusy ELSE r.busy
      /\ a.cards = IF part = "cards" THEN sCards ELSE r.cards
  OBVIOUS
<1> HIDE DEF a
<1>8. reads' \in Seq(L!Reads) /\ Len(reads') = Len(reads)
  BY <1>1, <1>3, <1>4, ReplaceElements
<1>7. /\ r \in Elements(reads) /\ a \in Elements(reads')
      /\ Elements(reads') \subseteq Elements(reads) \cup {a}
      /\ Elements(reads) \subseteq Elements(reads') \cup {r}
  BY <1>1, <1>3, <1>4, ReplaceElements
<1> HIDE DEF r
<1> QED
  BY <1>1, <1>2, <1>6, <1>7, <1>8

LEMMA BeingReadFacts ==
  ASSUME L!TypeOK
  PROVE  \A r \in Elements(reads) : r \in L!Reads /\ r.got \subseteq L!BeingRead
<1>1. reads \in Seq(L!Reads) /\ DOMAIN reads = 1 .. Len(reads)
  BY LenProperties DEF L!TypeOK
<1>2. \A j \in 1 .. Len(reads) : reads[j] \in L!Reads
  BY <1>1, LenProperties
<1> QED
  BY <1>1, <1>2 DEF Elements, L!BeingRead

\* A change of the service that the open stream tells, or that no one hears.
LEMMA AnnounceFacts ==
  ASSUME L!TypeOK, NEW parts \in SUBSET L!Parts, NEW e \in L!Events, L!Announce(parts, e)
  PROVE  /\ bus' \in Seq(L!Events) /\ Len(bus') <= MaxBus
         /\ overtaken \subseteq overtaken' /\ overtaken' \subseteq L!Parts
         /\ stream = "open" => bus' = Append(bus, e)
         /\ stream # "open" => bus' = bus
         /\ Elements(bus) \subseteq Elements(bus')
         /\ Elements(bus') \subseteq Elements(bus) \cup {e}
         /\ \A part \in parts : part \notin overtaken' =>
              /\ stream = "dialing" => ~skip
              /\ \A r \in Elements(reads) : part \notin r.got
<1>1. bus \in Seq(L!Events) /\ Len(bus) <= MaxBus /\ overtaken \subseteq L!Parts
  BY DEF L!TypeOK
<1>2. /\ stream = "open" => bus' = Append(bus, e) /\ Len(bus) < MaxBus
      /\ stream # "open" => bus' = bus
      /\ overtaken' = overtaken \cup (parts \cap L!BeingRead) \cup (IF L!BeforeFirst THEN parts ELSE {})
  BY DEF L!Announce
<1>3. Append(bus, e) \in Seq(L!Events) /\ Len(Append(bus, e)) = Len(bus) + 1 /\ Len(bus) \in Nat
  BY <1>1, AppendProperties, LenProperties
<1>4. Elements(Append(bus, e)) = Elements(bus) \cup {e}
  BY <1>1, AppendElements
<1>5. bus' \in Seq(L!Events) /\ Len(bus') <= MaxBus
  BY <1>1, <1>2, <1>3, StoreSyncBounds
<1>6. Elements(bus) \subseteq Elements(bus') /\ Elements(bus') \subseteq Elements(bus) \cup {e}
  BY <1>2, <1>4
<1>7. overtaken \subseteq overtaken' /\ overtaken' \subseteq L!Parts
  BY <1>1, <1>2
<1>8. ASSUME NEW part \in parts, part \notin overtaken'
      PROVE  /\ stream = "dialing" => ~skip
             /\ \A r \in Elements(reads) : part \notin r.got
  BY <1>2, <1>8, BeingReadFacts DEF L!BeforeFirst
<1> QED
  BY <1>2, <1>5, <1>6, <1>7, <1>8

-----------------------------------------------------------------------------
(* The typing *)

LEMMA KindsTyped ==
  /\ <<>> \in Seq(L!Kinds) /\ \A k \in L!Kinds : <<k>> \in Seq(L!Kinds)
  /\ \A condition : \A k \in L!Kinds : L!When(condition, <<k>>) \in Seq(L!Kinds)
<1>1. <<>> \in Seq(L!Kinds) /\ \A k \in L!Kinds : <<k>> \in Seq(L!Kinds)
  OBVIOUS
<1> QED
  BY <1>1 DEF L!When

\* What ListBack reads next.
Then(busyRead, rowRead) == L!When(busyRead, <<"pending">> \o L!When(rowRead = 0, <<"row">>))

LEMMA ThenTyped ==
  \A b, v : /\ Then(b, v) \in Seq(L!Kinds)
            /\ b => "pending" \in Elements(Then(b, v))
<1> TAKE b, v
<1> DEFINE more == L!When(v = 0, <<"row">>)
<1>1. more \in Seq(L!Kinds) /\ <<"pending">> \in Seq(L!Kinds) /\ <<>> \in Seq(L!Kinds)
  BY KindsTyped DEF L!Kinds
<1> HIDE DEF more
<1>2. /\ <<"pending">> \o more \in Seq(L!Kinds)
      /\ Elements(<<"pending">> \o more) = Elements(<<"pending">>) \cup Elements(more)
  BY <1>1, ConcatElements, ZenonT(20)
<1>3. Then(b, v) = IF b THEN <<"pending">> \o more ELSE <<>>
  BY DEF Then, L!When, more
<1> QED
  BY <1>1, <1>2, <1>3, OneElements

\* The first event on its way is taken.
LEMMA PopFacts ==
  ASSUME L!TypeOK, bus # <<>>, bus' = Tail(bus)
  PROVE  /\ bus' \in Seq(L!Events) /\ Len(bus') <= MaxBus
         /\ Head(bus) \in L!Events /\ Head(bus) \in Elements(bus)
         /\ Elements(bus') \subseteq Elements(bus)
         /\ Elements(bus) \subseteq Elements(bus') \cup {Head(bus)}
         /\ \A types : /\ Finals(bus', types) \subseteq Finals(bus, types)
                       /\ Head(bus).type \in types /\ ~OnBus(types)'
                          => Head(bus) \in Finals(bus, types)
         /\ \A a, b : Trailed(bus, a, b) =>
              Trailed(bus', a, b) /\ (Head(bus) = a => b \in Elements(bus'))
<1>1. bus \in Seq(L!Events) /\ Len(bus) <= MaxBus
  BY DEF L!TypeOK
<1>2. /\ Tail(bus) \in Seq(L!Events) /\ Head(bus) \in L!Events
      /\ Head(bus) \in Elements(bus) /\ Elements(Tail(bus)) \subseteq Elements(bus)
      /\ Elements(bus) \subseteq Elements(Tail(bus)) \cup {Head(bus)}
  BY <1>1, TailElements
<1>3. Len(Tail(bus)) = Len(bus) - 1 /\ Len(bus) \in Nat
  BY <1>1, HeadTailProperties, LenProperties
<1>4. Len(bus') <= MaxBus
  BY <1>1, <1>3, StoreSyncBounds
<1>5. ASSUME NEW types
      PROVE  /\ Finals(bus', types) \subseteq Finals(bus, types)
             /\ Head(bus).type \in types /\ ~OnBus(types)' => Head(bus) \in Finals(bus, types)
  BY <1>1, TailFinals DEF OnBus
<1>6. ASSUME NEW a, NEW b, Trailed(bus, a, b)
      PROVE  Trailed(bus', a, b) /\ (Head(bus) = a => b \in Elements(bus'))
  BY <1>1, <1>6, TailTrailed
<1> QED
  BY <1>2, <1>4, <1>5, <1>6

\* What an event asks for.
EventReads(e) ==
  IF e.type = "connected" THEN L!When(~skip, <<"resync">>)
  ELSE L!When(\/ e.type = "created"
              \/ e.type = "asked" /\ row = 0
              \/ e.type = "ended" /\ row # 0, <<"row">>)

LEMMA OnEventReads ==
  ASSUME L!TypeOK, L!OnEvent
  PROVE  EventReads(Head(bus)) \in Seq(L!Kinds) /\ L!Ask(reads, EventReads(Head(bus)))
<1>1. EventReads(Head(bus)) \in Seq(L!Kinds)
  BY KindsTyped DEF EventReads, L!Kinds
<1>2. CASE Head(bus).type = "connected" /\ skip
  <2>1. EventReads(Head(bus)) = <<>>
    BY <1>2 DEF EventReads, L!When
  <2>2. L!Ask(reads, <<>>)
    BY <1>2 DEF L!OnEvent, L!Connected
  <2> QED BY <1>1, <2>1, <2>2
<1>3. CASE Head(bus).type = "connected" /\ ~skip
  <2>1. EventReads(Head(bus)) = <<"resync">>
    BY <1>3 DEF EventReads, L!When
  <2>2. L!Ask(reads, <<"resync">>)
    BY <1>3 DEF L!OnEvent, L!Connected
  <2> QED BY <1>1, <2>1, <2>2
<1>4. CASE Head(bus).type # "connected"
  <2> DEFINE kinds == L!When(\/ Head(bus).type = "created"
                             \/ Head(bus).type = "asked" /\ row = 0
                             \/ Head(bus).type = "ended" /\ row # 0, <<"row">>)
  <2>1. EventReads(Head(bus)) = kinds
    BY <1>4 DEF EventReads
  <2>2. L!Ask(reads, kinds)
    BY <1>4 DEF L!OnEvent
  <2> HIDE DEF kinds
  <2> QED BY <1>1, <2>1, <2>2
<1> QED
  BY <1>1, <1>2, <1>3, <1>4

LEMMA ReadsTyped ==
  ASSUME L!TypeOK, L!ReadStep
  PROVE  L!TypeOK'
<1> PICK i \in DOMAIN reads :
      \/ \E part \in L!Parts : L!ReadServed(i, part)
      \/ L!ListBack(i) \/ L!RowBack(i) \/ L!PendingBack(i)
      \/ L!ReadFailed(i)
  BY DEF L!ReadStep
<1>0. reads[i] \in L!Reads
  BY RemoveElements DEF L!TypeOK
<1>1. ASSUME NEW part \in L!Parts, L!ReadServed(i, part) PROVE L!TypeOK'
  <2>1. reads' \in Seq(L!Reads) /\ Len(reads') <= MaxReads
    BY <1>1, ServedFacts
  <2> QED BY <1>1, <2>1 DEF L!TypeOK, L!ReadServed, L!shownVars, L!serviceVars
<1>2. CASE L!ListBack(i)
  <2>1. L!Ask(RemoveAt(reads, i), Then(reads[i].busy, reads[i].row))
    BY <1>2, ListNames DEF L!ListBack, Then
  <2>2. reads' \in Seq(L!Reads) /\ Len(reads') <= MaxReads
    BY <2>1, ThenTyped, BackFacts
  <2>3. row' \in 0 .. MaxRow /\ busy' \in BOOLEAN
    BY <1>0, <1>2 DEF L!ListBack, L!Reads
  <2> QED BY <1>2, <2>2, <2>3 DEF L!TypeOK, L!ListBack, L!serviceVars
<1>3. CASE L!RowBack(i)
  <2>1. reads' \in Seq(L!Reads) /\ Len(reads') <= MaxReads
    BY <1>3, KindsTyped, BackFacts, ListNames DEF L!RowBack
  <2>2. row' \in 0 .. MaxRow
    BY <1>0, <1>3 DEF L!RowBack, L!Reads, L!TypeOK
  <2> QED BY <1>3, <2>1, <2>2 DEF L!TypeOK, L!RowBack, L!serviceVars
<1>4. CASE L!PendingBack(i)
  <2>1. reads' \in Seq(L!Reads) /\ Len(reads') <= MaxReads
    BY <1>4, KindsTyped, BackFacts, ListNames DEF L!PendingBack
  <2>2. cards' \subseteq L!Cards
    BY <1>0, <1>4 DEF L!PendingBack, L!Reads
  <2> QED BY <1>4, <2>1, <2>2 DEF L!TypeOK, L!PendingBack, L!serviceVars
<1>5. CASE L!ReadFailed(i)
  <2>1. reads' \in Seq(L!Reads) /\ Len(reads') <= MaxReads
    BY <1>5, KindsTyped, BackFacts, ListNames DEF L!ReadFailed
  <2>2. L!Wanted(reads[i].kind) \subseteq L!Parts
    BY <1>0 DEF L!Reads, L!Kinds, L!Wanted, L!Parts
  <2>3. overtaken' \subseteq L!Parts /\ skip' \in BOOLEAN /\ status' \in {"connecting", "ready", "error"}
    BY <1>5, <2>2 DEF L!ReadFailed, L!TypeOK
  <2>4. faults' \in 0 .. MaxFaults
    BY <1>5, StoreSyncBounds DEF L!ReadFailed, L!Fault, L!TypeOK
  <2> QED BY <1>5, <2>1, <2>3, <2>4 DEF L!TypeOK, L!ReadFailed, L!serviceVars
<1> QED
  BY <1>1, <1>2, <1>3, <1>4, <1>5

LEMMA ServiceTyped ==
  ASSUME L!TypeOK, L!ServiceStep
  PROVE  L!TypeOK'
<1>1. /\ version < MaxRow => version + 1 \in 1 .. MaxRow
      /\ changes < MaxChanges => changes + 1 \in 0 .. MaxChanges
      /\ asked < MaxCard => asked + 1 \in L!Cards
  BY StoreSyncBounds DEF L!TypeOK, L!Cards
<1>2. {"row"} \subseteq L!Parts /\ {"busy"} \subseteq L!Parts /\ {"row", "busy"} \subseteq L!Parts /\ {"cards"} \subseteq L!Parts
  BY DEF L!Parts
<1>3. CASE L!Create
  <2>1. bus' \in Seq(L!Events) /\ Len(bus') <= MaxBus /\ overtaken' \subseteq L!Parts
    BY <1>2, <1>3, EventTyped, AnnounceFacts DEF L!Create
  <2> QED BY <1>1, <1>3, <2>1 DEF L!TypeOK, L!Create, L!NewVersion, L!Change, L!ServiceKeeps, L!shownVars
<1>4. CASE L!Rename
  <2>1. version' \in 1 .. MaxRow
    BY <1>1, <1>4 DEF L!Rename, L!NewVersion
  <2>2. bus' \in Seq(L!Events) /\ Len(bus') <= MaxBus /\ overtaken' \subseteq L!Parts
    BY <1>2, <1>4, <2>1, EventTyped, AnnounceFacts DEF L!Rename
  <2> QED BY <1>1, <1>4, <2>1, <2>2 DEF L!TypeOK, L!Rename, L!NewVersion, L!Change, L!ServiceKeeps, L!shownVars
<1>5. CASE L!Delete
  <2>1. bus' \in Seq(L!Events) /\ Len(bus') <= MaxBus /\ overtaken' \subseteq L!Parts
    BY <1>2, <1>5, EventTyped, AnnounceFacts DEF L!Delete
  <2> QED BY <1>1, <1>5, <2>1, StoreSyncBounds DEF L!TypeOK, L!Delete, L!Change, L!ServiceKeeps, L!shownVars
<1>6. CASE L!StartTurn
  <2>1. bus' \in Seq(L!Events) /\ Len(bus') <= MaxBus /\ overtaken' \subseteq L!Parts
    BY <1>2, <1>6, EventTyped, AnnounceFacts DEF L!StartTurn
  <2> QED BY <1>1, <1>6, <2>1 DEF L!TypeOK, L!StartTurn, L!Change, L!ServiceKeeps, L!shownVars
<1>7. CASE L!EndTurn
  <2>1. bus' \in Seq(L!Events) /\ Len(bus') <= MaxBus /\ overtaken' \subseteq L!Parts
    BY <1>2, <1>7, EventTyped, AnnounceFacts DEF L!EndTurn
  <2>2. sBusy' \in BOOLEAN
    BY <1>7 DEF L!EndTurn
  <2> QED BY <1>1, <1>7, <2>1, <2>2 DEF L!TypeOK, L!EndTurn, L!NewVersion, L!ServiceKeeps, L!shownVars
<1>8. CASE L!AskUser
  <2>1. asked + 1 \in L!Cards
    BY <1>1, <1>8 DEF L!AskUser
  <2>2. bus' \in Seq(L!Events) /\ Len(bus') <= MaxBus /\ overtaken' \subseteq L!Parts
    BY <1>2, <1>8, <2>1, EventTyped, AnnounceFacts DEF L!AskUser
  <2>3. asked' \in 0 .. MaxCard /\ sCards' \subseteq L!Cards
    BY <1>8, <2>1 DEF L!AskUser, L!Cards
  <2> QED BY <1>8, <2>2, <2>3 DEF L!TypeOK, L!AskUser, L!ServiceKeeps, L!shownVars
<1>9. ASSUME NEW c \in L!Cards, L!OtherReply(c) PROVE L!TypeOK'
  <2>1. bus' \in Seq(L!Events) /\ Len(bus') <= MaxBus /\ overtaken' \subseteq L!Parts
    BY <1>2, <1>9, EventTyped, AnnounceFacts DEF L!OtherReply, L!Settle
  <2>2. sCards' \subseteq L!Cards /\ missed' \subseteq L!Cards
    BY <1>9 DEF L!OtherReply, L!Settle, L!TypeOK
  <2> QED BY <1>1, <1>9, <2>1, <2>2 DEF L!TypeOK, L!OtherReply, L!Settle, L!Change, L!ServiceKeeps, L!shownVars
<1> QED
  BY <1>3, <1>4, <1>5, <1>6, <1>7, <1>8, <1>9 DEF L!ServiceStep

LEMMA AnsweringTyped ==
  ASSUME L!TypeOK, L!Answering
  PROVE  L!TypeOK'
<1> PICK c \in L!Cards : L!Reply(c) \/ L!ReplyServed(c) \/ L!ReplyBack(c) \/ L!ReplyFailed(c)
  BY DEF L!Answering
<1>1. /\ changes < MaxChanges => changes + 1 \in 0 .. MaxChanges
      /\ faults < MaxFaults => faults + 1 \in 0 .. MaxFaults
  BY StoreSyncBounds DEF L!TypeOK
<1>2. CASE L!Reply(c)
  BY <1>1, <1>2 DEF L!TypeOK, L!Reply, L!Change, L!shownVars, L!serviceVars
<1>3. CASE L!ReplyServed(c)
  <2>1. {"cards"} \subseteq L!Parts
    BY DEF L!Parts
  <2>2. bus' \in Seq(L!Events) /\ Len(bus') <= MaxBus /\ overtaken' \subseteq L!Parts
    BY <1>3, <2>1, EventTyped, AnnounceFacts DEF L!ReplyServed, L!Settle
  <2>3. sCards' \subseteq L!Cards /\ missed' \subseteq L!Cards
    BY <1>3 DEF L!ReplyServed, L!Settle, L!TypeOK
  <2> QED BY <1>3, <2>2, <2>3 DEF L!TypeOK, L!ReplyServed, L!Settle, L!ServiceKeeps, L!shownVars
<1>4. CASE L!ReplyBack(c)
  BY <1>4 DEF L!TypeOK, L!ReplyBack, L!serviceVars
<1>5. CASE L!ReplyFailed(c)
  BY <1>1, <1>5 DEF L!TypeOK, L!ReplyFailed, L!Fault, L!shownVars, L!serviceVars
<1> QED
  BY <1>2, <1>3, <1>4, <1>5

LEMMA StreamTyped ==
  ASSUME L!TypeOK, L!OpenSession \/ L!StreamOpens \/ L!StreamLost \/ L!OnEvent
  PROVE  L!TypeOK'
<1>1. CASE L!OpenSession
  <2>1. reads' \in Seq(L!Reads) /\ Len(reads') <= MaxReads
    BY <1>1, KindsTyped, AskFacts DEF L!OpenSession, L!Kinds, L!TypeOK
  <2>2. changes' \in 0 .. MaxChanges
    BY <1>1, StoreSyncBounds DEF L!OpenSession, L!Change, L!TypeOK
  <2> QED BY <1>1, <2>1, <2>2 DEF L!TypeOK, L!OpenSession, L!shownVars, L!serviceVars
<1>2. CASE L!StreamOpens
  <2>1. L!Event("connected", 0) \in L!Events
    BY EventTyped
  <2>2. bus' \in Seq(L!Events) /\ Len(bus') = 1
    BY <1>2, <2>1 DEF L!StreamOpens
  <2>3. Len(bus') <= MaxBus
    BY <2>2, StoreSyncBounds
  <2> QED BY <1>2, <2>2, <2>3 DEF L!TypeOK, L!StreamOpens, L!shownVars, L!serviceVars
<1>3. CASE L!StreamLost
  <2>1. bus \in Seq(L!Events) /\ DOMAIN bus = 1 .. Len(bus)
    BY LenProperties DEF L!TypeOK
  <2>2. \A j \in DOMAIN bus : bus[j] \in L!Events
    BY <2>1, LenProperties
  <2>3. \A e \in L!Events : e.type = "replied" => e.of \in L!Cards
    BY DEF L!Events
  <2>4. missed' \subseteq L!Cards
    BY <1>3, <2>2, <2>3 DEF L!StreamLost, L!TypeOK
  <2>5. bus' \in Seq(L!Events) /\ Len(bus') <= MaxBus
    BY <1>3, StoreSyncBounds DEF L!StreamLost
  <2>6. faults' \in 0 .. MaxFaults /\ overtaken' \subseteq L!Parts
    BY <1>3, StoreSyncBounds DEF L!StreamLost, L!Fault, L!TypeOK
  <2> QED BY <1>3, <2>4, <2>5, <2>6 DEF L!TypeOK, L!StreamLost, L!shownVars, L!serviceVars
<1>4. CASE L!OnEvent
  <2> DEFINE e == Head(bus)
  <2>1. reads' \in Seq(L!Reads) /\ Len(reads') <= MaxReads
    BY <1>4, OnEventReads, AskFacts DEF L!TypeOK
  <2>2. bus' \in Seq(L!Events) /\ Len(bus') <= MaxBus /\ e \in L!Events
    BY <1>4, PopFacts DEF L!OnEvent
  <2>3. /\ e.type = "renamed" => e.of \in 1 .. MaxRow
        /\ e.type \in {"asked", "replied"} => e.of \in L!Cards
    BY <2>2 DEF L!Events
  <2>4. overtaken' \subseteq L!Parts /\ skip' \in BOOLEAN
    BY <1>4 DEF L!OnEvent, L!Connected, L!TypeOK
  <2>5. row' \in 0 .. MaxRow
    BY <1>4, <2>3, StoreSyncBounds DEF L!OnEvent, L!TypeOK
  <2>7. busy' \in BOOLEAN
    BY <1>4 DEF L!OnEvent, L!TypeOK
  <2>6. cards' \subseteq L!Cards
    BY <1>4, <2>3 DEF L!OnEvent, L!TypeOK
  <2> QED BY <1>4, <2>1, <2>2, <2>4, <2>5, <2>6, <2>7 DEF L!TypeOK, L!OnEvent, L!serviceVars
<1> QED
  BY <1>1, <1>2, <1>3, <1>4

LEMMA TypedNext == L!TypeOK /\ [L!Next]_L!vars => L!TypeOK'
<1> SUFFICES ASSUME L!TypeOK, [L!Next]_L!vars PROVE L!TypeOK'
  OBVIOUS
<1>1. CASE L!Next
  BY <1>1, ReadsTyped, ServiceTyped, AnsweringTyped, StreamTyped DEF L!Next
<1>2. CASE UNCHANGED L!vars
  BY <1>2 DEF L!TypeOK, L!vars, L!shownVars, L!serviceVars
<1> QED
  BY <1>1, <1>2

LEMMA TypedInit == L!Init => L!TypeOK
<1> SUFFICES ASSUME L!Init PROVE L!TypeOK
  OBVIOUS
<1>1. L!Read("start") \in L!Reads
  BY ReadTyped DEF L!Kinds
<1>2. reads \in Seq(L!Reads) /\ Len(reads) = 1
  BY <1>1 DEF L!Init
<1>3. Len(reads) <= MaxReads
  BY <1>2, StoreSyncBounds
<1>4. bus \in Seq(L!Events) /\ Len(bus) <= MaxBus
  BY StoreSyncBounds DEF L!Init
<1>5. skip \in BOOLEAN /\ busy \in BOOLEAN /\ sBusy \in BOOLEAN
  BY DEF L!Init
<1>6. row \in 0 .. MaxRow /\ sRow \in 0 .. MaxRow /\ version \in 0 .. MaxRow /\ asked \in 0 .. MaxCard
  BY StoreSyncBounds DEF L!Init
<1>7. changes \in 0 .. MaxChanges /\ faults \in 0 .. MaxFaults
  BY StoreSyncBounds DEF L!Init
<1> QED
  BY <1>2, <1>3, <1>4, <1>5, <1>6, <1>7 DEF L!Init, L!TypeOK

-----------------------------------------------------------------------------
(* The stream, and the last event of each kind *)

\* Events that the open stream tells, and those told while there is none.
LEMMA AnnounceTells ==
  ASSUME L!TypeOK, Ordered, NEW parts \in SUBSET L!Parts, NEW e \in L!Events, L!Announce(parts, e)
  PROVE  /\ stream = "dialing" => bus' = <<>>
         /\ stream # "dialing" => e \in Elements(bus')
         /\ \A types : /\ e.type \in types => Finals(bus', types) \subseteq {e}
                       /\ e.type \notin types => Finals(bus', types) \subseteq Finals(bus, types)
         /\ \A a, b : a # b => /\ e = b => Trailed(bus', a, b)
                               /\ e # a /\ Trailed(bus, a, b) => Trailed(bus', a, b)
<1>1. bus \in Seq(L!Events) /\ stream \in {"dialing", "open"}
  BY DEF L!TypeOK
<1>2. CASE stream = "dialing"
  <2>1. bus' = <<>>
    BY <1>2, AnnounceFacts DEF Ordered
  <2>2. \A types : Finals(<<>>, types) = {}
    BY DEF Finals
  <2>3. \A a, b : Trailed(<<>>, a, b)
    BY DEF Trailed
  <2> QED BY <1>2, <2>1, <2>2, <2>3
<1>3. CASE stream = "open"
  <2>1. bus' = Append(bus, e)
    BY <1>3, AnnounceFacts
  <2>2. e \in Elements(bus')
    BY <1>1, <2>1, AppendElements
  <2>3. ASSUME NEW types
        PROVE  /\ e.type \in types => Finals(bus', types) \subseteq {e}
               /\ e.type \notin types => Finals(bus', types) \subseteq Finals(bus, types)
    BY <1>1, <2>1, AppendFinals
  <2>4. ASSUME NEW a, NEW b, a # b
        PROVE  /\ e = b => Trailed(bus', a, b)
               /\ e # a /\ Trailed(bus, a, b) => Trailed(bus', a, b)
    BY <1>1, <2>1, <2>4, AppendTrailed
  <2> QED BY <1>3, <2>2, <2>3, <2>4
<1> QED
  BY <1>1, <1>2, <1>3

\* What stays while the stream does.
LEMMA StreamStays ==
  ASSUME Elements(bus) \subseteq Elements(bus')
  PROVE  /\ \A types : OnBus(types) => OnBus(types)'
         /\ UNCHANGED <<skip, stream>> /\ Relisted => Relisted'
  BY DEF OnBus, Relisted

\* A change at the service, whatever it is, says so or is heard of with the list.
LEMMA AnnounceComing ==
  ASSUME L!TypeOK, Ordered, NEW parts \in SUBSET L!Parts, NEW e \in L!Events, L!Announce(parts, e),
         UNCHANGED <<skip, stream, reads>>
  PROVE  /\ \A types : OnBus(types) => OnBus(types)'
         /\ Relisted => Relisted'
         /\ \A part \in parts : part \notin overtaken' =>
              /\ part \notin overtaken
              /\ Relisted' \/ e \in Elements(bus')
              /\ \A r \in Elements(reads') : part \notin r.got
<1>1. /\ Elements(bus) \subseteq Elements(bus') /\ overtaken \subseteq overtaken'
      /\ \A part \in parts : part \notin overtaken' =>
              /\ stream = "dialing" => ~skip
              /\ \A r \in Elements(reads) : part \notin r.got
  BY AnnounceFacts
<1>2. stream # "dialing" => e \in Elements(bus')
  BY AnnounceTells
<1>3. stream = "dialing" /\ ~skip => Relisted'
  BY DEF Relisted
<1> QED
  BY <1>1, <1>2, <1>3, StreamStays

\* Each change of the service, with what it announces.
Said(parts, e) == L!Announce(parts, e) /\ e \in L!Events /\ parts \subseteq L!Parts

LEMMA ServiceFacts ==
  ASSUME L!TypeOK, L!ServiceStep \/ L!Answering
  PROVE  \/ L!Create /\ Said({"row"}, L!Event("created", 0)) /\ sRow' # 0
         \/ L!Rename /\ Said({"row"}, L!Event("renamed", sRow')) /\ sRow' # 0
         \/ L!Delete /\ Said({"row"}, L!Event("deleted", 0))
         \/ L!StartTurn /\ Said({"busy"}, L!Event("started", 0))
         \/ L!EndTurn /\ Said({"row", "busy"}, L!Event("ended", 0)) /\ sRow' # 0
         \/ L!AskUser /\ Said({"cards"}, L!Event("asked", asked + 1))
         \/ \E c \in L!Cards :
              \/ (L!OtherReply(c) \/ L!ReplyServed(c)) /\ Said({"cards"}, L!Event("replied", c))
              \/ L!Reply(c) \/ L!ReplyBack(c) \/ L!ReplyFailed(c)
<1>0. version + 1 # 0 /\ version + 1 > 0 /\ (version < MaxRow => version + 1 \in 1 .. MaxRow)
  BY StoreSyncBounds DEF L!TypeOK
<1>1. {"row"} \subseteq L!Parts /\ {"busy"} \subseteq L!Parts /\ {"row", "busy"} \subseteq L!Parts /\ {"cards"} \subseteq L!Parts
  BY DEF L!Parts
<1>2. CASE L!Create
  BY <1>0, <1>1, <1>2, EventTyped DEF L!Create, L!NewVersion, Said
<1>3. CASE L!Rename
  <2>1. version' = sRow' /\ sRow' \in 1 .. MaxRow /\ sRow' # 0
    BY <1>0, <1>3 DEF L!Rename, L!NewVersion
  <2>2. L!Announce({"row"}, L!Event("renamed", sRow'))
    BY <1>3, <2>1 DEF L!Rename
  <2> QED BY <1>1, <1>3, <2>1, <2>2, EventTyped DEF Said
<1>4. CASE L!Delete
  BY <1>1, <1>4, EventTyped DEF L!Delete, Said
<1>5. CASE L!StartTurn
  BY <1>1, <1>5, EventTyped DEF L!StartTurn, Said
<1>6. CASE L!EndTurn
  BY <1>0, <1>1, <1>6, EventTyped DEF L!EndTurn, L!NewVersion, Said
<1>7. CASE L!AskUser
  <2>1. asked + 1 \in L!Cards
    BY <1>7, StoreSyncBounds DEF L!AskUser, L!TypeOK, L!Cards
  <2> QED BY <1>1, <1>7, <2>1, EventTyped DEF L!AskUser, Said
<1>8. ASSUME NEW c \in L!Cards, L!OtherReply(c) \/ L!ReplyServed(c) PROVE Said({"cards"}, L!Event("replied", c))
  BY <1>1, <1>8, EventTyped DEF L!OtherReply, L!ReplyServed, L!Settle, Said
<1> QED
  BY <1>2, <1>3, <1>4, <1>5, <1>6, <1>7, <1>8 DEF L!ServiceStep, L!Answering

\* Reads and this client's own doings leave the service and its stream alone.
LEMMA ReadsKeep ==
  ASSUME L!TypeOK, L!ReadStep \/ L!OpenSession \/ UNCHANGED L!vars
                   \/ \E c \in L!Cards : L!Reply(c) \/ L!ReplyBack(c) \/ L!ReplyFailed(c)
  PROVE  /\ UNCHANGED <<stream, bus>> /\ UNCHANGED L!serviceVars
         /\ skip' => skip
<1>1. CASE L!ReadStep
  BY <1>1 DEF L!ReadStep, L!ReadServed, L!ListBack, L!RowBack, L!PendingBack, L!ReadFailed, L!shownVars
<1>2. CASE L!OpenSession
  BY <1>2 DEF L!OpenSession, L!shownVars
<1>3. CASE UNCHANGED L!vars
  BY <1>3 DEF L!vars, L!shownVars
<1>4. ASSUME NEW c \in L!Cards, L!Reply(c) \/ L!ReplyBack(c) \/ L!ReplyFailed(c)
      PROVE  /\ UNCHANGED <<stream, bus>> /\ UNCHANGED L!serviceVars
             /\ skip' => skip
  BY <1>4 DEF L!Reply, L!ReplyBack, L!ReplyFailed, L!shownVars
<1> QED
  BY <1>1, <1>2, <1>3, <1>4

\* What the steps of Next are, for these proofs.
Own ==
  L!ReadStep \/ L!OpenSession \/ UNCHANGED L!vars
  \/ \E c \in L!Cards : L!Reply(c) \/ L!ReplyBack(c) \/ L!ReplyFailed(c)
Told(parts, e) == Said(parts, e) /\ UNCHANGED <<skip, stream, row, busy, cards, reads>>

LEMMA NextFacts ==
  ASSUME L!TypeOK, [L!Next]_L!vars
  PROVE  \/ Own
         \/ L!Create /\ Told({"row"}, L!Event("created", 0)) /\ sRow' # 0
         \/ L!Rename /\ Told({"row"}, L!Event("renamed", sRow')) /\ sRow' # 0
         \/ L!Delete /\ Told({"row"}, L!Event("deleted", 0))
         \/ L!StartTurn /\ Told({"busy"}, L!Event("started", 0))
         \/ L!EndTurn /\ Told({"row", "busy"}, L!Event("ended", 0)) /\ sRow' # 0
         \/ L!AskUser /\ Told({"cards"}, L!Event("asked", asked + 1))
         \/ \E c \in L!Cards : (L!OtherReply(c) \/ L!ReplyServed(c)) /\ Told({"cards"}, L!Event("replied", c))
         \/ L!StreamOpens \/ L!StreamLost \/ L!OnEvent
<1>1. L!Create \/ L!Rename \/ L!Delete \/ L!StartTurn \/ L!EndTurn \/ L!AskUser
      => UNCHANGED <<skip, stream, row, busy, cards, reads>>
  BY DEF L!Create, L!Rename, L!Delete, L!StartTurn, L!EndTurn, L!AskUser, L!ServiceKeeps, L!shownVars
<1>2. \A c \in L!Cards : L!OtherReply(c) \/ L!ReplyServed(c)
      => UNCHANGED <<skip, stream, row, busy, cards, reads>>
  BY DEF L!OtherReply, L!ReplyServed, L!ServiceKeeps, L!shownVars
<1>3. CASE L!ServiceStep \/ L!Answering
  BY <1>1, <1>2, <1>3, ServiceFacts DEF Told, Own
<1>4. CASE ~(L!ServiceStep \/ L!Answering)
  BY <1>4 DEF L!Next, Own
<1> QED
  BY <1>3, <1>4

LEMMA OrderedNext ==
  ASSUME L!TypeOK, Ordered, [L!Next]_L!vars
  PROVE  Ordered'
<1>0. asked \in Nat /\ sCards \subseteq 1 .. asked /\ (sBusy => sRow # 0) /\ (sCards # {} => sBusy)
  BY StoreSyncBounds DEF L!TypeOK, Ordered
<1> DEFINE Held == (sBusy => sRow # 0) /\ (sCards # {} => sBusy) /\ sCards \subseteq 1 .. asked
           Opening == (stream = "dialing" => bus = <<>>) /\ (skip => stream = "dialing" \/ OnBus({"connected"}))
<1>1. CASE Own
  <2>1. UNCHANGED <<stream, bus, sRow, sBusy, sCards, asked>> /\ (skip' => skip)
    BY <1>1, ReadsKeep DEF Own, L!serviceVars
  <2>2. OnBus({"connected"})' <=> OnBus({"connected"})
    BY <2>1 DEF OnBus
  <2>3. Held'
    BY <1>0, <2>1
  <2>4. Opening'
    BY <2>1, <2>2 DEF Ordered
  <2> QED BY <2>3, <2>4 DEF Ordered
<1>2. ASSUME NEW parts \in SUBSET L!Parts, NEW e, Told(parts, e) PROVE Opening'
  BY <1>2, AnnounceTells, AnnounceComing DEF Told, Said, Ordered
<1>3. {"row"} \in SUBSET L!Parts /\ {"busy"} \in SUBSET L!Parts /\ {"row", "busy"} \in SUBSET L!Parts /\ {"cards"} \in SUBSET L!Parts
  BY DEF L!Parts
<1>4. CASE L!Create /\ Told({"row"}, L!Event("created", 0)) /\ sRow' # 0
  <2>1. Held'
    BY <1>0, <1>4 DEF L!Create
  <2> QED BY <1>2, <1>3, <1>4, <2>1 DEF Ordered
<1>5. CASE L!Rename /\ Told({"row"}, L!Event("renamed", sRow')) /\ sRow' # 0
  <2>1. Held'
    BY <1>0, <1>5 DEF L!Rename
  <2> QED BY <1>2, <1>3, <1>5, <2>1 DEF Ordered
<1>6. CASE L!Delete /\ Told({"row"}, L!Event("deleted", 0))
  <2>1. Held'
    BY <1>0, <1>6 DEF L!Delete
  <2> QED BY <1>2, <1>3, <1>6, <2>1 DEF Ordered
<1>7. CASE L!StartTurn /\ Told({"busy"}, L!Event("started", 0))
  <2>1. Held'
    BY <1>0, <1>7 DEF L!StartTurn
  <2> QED BY <1>2, <1>3, <1>7, <2>1 DEF Ordered
<1>8. CASE L!EndTurn /\ Told({"row", "busy"}, L!Event("ended", 0)) /\ sRow' # 0
  <2>1. Held'
    BY <1>0, <1>8 DEF L!EndTurn
  <2> QED BY <1>2, <1>3, <1>8, <2>1 DEF Ordered
<1>9. CASE L!AskUser /\ Told({"cards"}, L!Event("asked", asked + 1))
  <2>1. Held'
    BY <1>0, <1>9 DEF L!AskUser
  <2> QED BY <1>2, <1>3, <1>9, <2>1 DEF Ordered
<1>10. ASSUME NEW c \in L!Cards, L!OtherReply(c) \/ L!ReplyServed(c), Told({"cards"}, L!Event("replied", c)) PROVE Ordered'
  <2>2. UNCHANGED <<sRow, sBusy, asked>> /\ sCards' \subseteq sCards
    BY <1>10 DEF L!OtherReply, L!ReplyServed, L!Settle
  <2>1. Held'
    BY <1>0, <2>2
  <2> QED BY <1>2, <1>3, <1>10, <2>1 DEF Ordered
<1>11. CASE L!StreamOpens
  <2>1. OnBus({"connected"})'
    <3>1. L!Event("connected", 0) \in Elements(bus')
      BY <1>11, OneElements DEF L!StreamOpens
    <3> QED BY <3>1, EventFields DEF OnBus
  <2> QED BY <1>0, <1>11, <2>1 DEF L!StreamOpens, L!serviceVars, Ordered
<1>12. CASE L!StreamLost
  BY <1>0, <1>12 DEF L!StreamLost, L!serviceVars, Ordered
<1>13. CASE L!OnEvent
  <2>1. stream # "dialing" /\ bus # <<>> /\ bus' = Tail(bus) /\ UNCHANGED stream /\ UNCHANGED L!serviceVars
    BY <1>13 DEF L!OnEvent, Ordered
  <2>2. Head(bus).type = "connected" => ~skip'
    BY <1>13 DEF L!OnEvent, L!Connected
  <2>3. Head(bus).type # "connected" => skip' = skip
    BY <1>13 DEF L!OnEvent
  <2>4. Head(bus).type # "connected" /\ OnBus({"connected"}) => OnBus({"connected"})'
    BY <2>1, PopFacts DEF OnBus
  <2> QED BY <1>0, <2>1, <2>2, <2>3, <2>4 DEF Ordered, L!serviceVars
<1> QED
  BY <1>1, <1>4, <1>5, <1>6, <1>7, <1>8, <1>9, <1>10, <1>11, <1>12, <1>13, NextFacts

\* The stream carries no news of the row, the turn and the cards when it opens or is gone.
LEMMA StreamFinals ==
  ASSUME L!TypeOK, L!StreamOpens \/ L!StreamLost \/ L!OnEvent
  PROVE  /\ UNCHANGED L!serviceVars
         /\ \A types : "connected" \notin types => Finals(bus', types) \subseteq Finals(bus, types)
         /\ Elements(bus') \subseteq Elements(bus) \cup {L!Event("connected", 0)}
         /\ \A a, b : a # L!Event("connected", 0) /\ Trailed(bus, a, b) => Trailed(bus', a, b)
<1>1. CASE L!StreamOpens
  <2>1. bus' = <<L!Event("connected", 0)>> /\ L!Event("connected", 0).type = "connected"
    BY <1>1, EventFields DEF L!StreamOpens
  <2>2. Len(bus') = 1 /\ bus'[1] = L!Event("connected", 0) /\ Elements(bus') = {L!Event("connected", 0)}
    BY <2>1, OneElements
  <2>3. \A types : "connected" \notin types => Finals(bus', types) = {}
    BY <2>1, <2>2 DEF Finals
  <2>4. \A a, b : a # L!Event("connected", 0) => Trailed(bus', a, b)
    BY <2>2 DEF Trailed
  <2> QED BY <1>1, <2>2, <2>3, <2>4 DEF L!StreamOpens
<1>2. CASE L!StreamLost
  <2>1. Len(bus') = 0 /\ Elements(bus') = {}
    BY <1>2, EmptyElements DEF L!StreamLost
  <2>2. \A types : Finals(bus', types) = {}
    BY <2>1 DEF Finals
  <2>3. \A a, b : Trailed(bus', a, b)
    BY <2>1 DEF Trailed
  <2> QED BY <1>2, <2>1, <2>2, <2>3 DEF L!StreamLost
<1>3. CASE L!OnEvent
  BY <1>3, PopFacts DEF L!OnEvent
<1> QED
  BY <1>1, <1>2, <1>3

LEMMA TellsRowNext ==
  ASSUME L!TypeOK, Ordered, TellsRow, [L!Next]_L!vars
  PROVE  TellsRow'
<1>0. {"row"} \in SUBSET L!Parts /\ {"busy"} \in SUBSET L!Parts /\ {"row", "busy"} \in SUBSET L!Parts /\ {"cards"} \in SUBSET L!Parts
  BY DEF L!Parts
<1>1. ASSUME NEW parts \in SUBSET L!Parts, NEW e, Told(parts, e)
      PROVE  \A types : /\ e.type \in types => Finals(bus', types) \subseteq {e}
                        /\ e.type \notin types => Finals(bus', types) \subseteq Finals(bus, types)
  BY <1>1, AnnounceTells DEF Told, Said
<1>2. CASE Own
  BY <1>2, ReadsKeep DEF Own, L!serviceVars, TellsRow
<1>3. CASE L!Create /\ Told({"row"}, L!Event("created", 0)) /\ sRow' # 0
  <2>1. Finals(bus', RowEvents) \subseteq {L!Event("created", 0)} /\ Finals(bus', LifeEvents) \subseteq {L!Event("created", 0)}
    BY <1>0, <1>1, <1>3, EventFields DEF RowEvents, LifeEvents
  <2> QED BY <1>3, <2>1, EventFields DEF TellsRow
<1>4. CASE L!Rename /\ Told({"row"}, L!Event("renamed", sRow')) /\ sRow' # 0
  <2>1. Finals(bus', RowEvents) \subseteq {L!Event("renamed", sRow')} /\ Finals(bus', LifeEvents) \subseteq Finals(bus, LifeEvents)
    <3> DEFINE e == L!Event("renamed", sRow')
    <3>1. e.type \in RowEvents /\ e.type \notin LifeEvents
      BY EventFields DEF RowEvents, LifeEvents
    <3>2. Told({"row"}, e)
      BY <1>4
    <3> HIDE DEF e
    <3>3. Finals(bus', RowEvents) \subseteq {e} /\ Finals(bus', LifeEvents) \subseteq Finals(bus, LifeEvents)
      BY <1>0, <1>1, <3>1, <3>2
    <3> QED BY <3>3 DEF e
  <2>2. sRow # 0
    BY <1>4 DEF L!Rename
  <2> QED BY <1>4, <2>1, <2>2, EventFields DEF TellsRow
<1>5. CASE L!Delete /\ Told({"row"}, L!Event("deleted", 0))
  <2>1. Finals(bus', RowEvents) \subseteq {L!Event("deleted", 0)} /\ Finals(bus', LifeEvents) \subseteq {L!Event("deleted", 0)}
    BY <1>0, <1>1, <1>5, EventFields DEF RowEvents, LifeEvents
  <2>2. sRow' = 0
    BY <1>5 DEF L!Delete
  <2> QED BY <2>1, <2>2, EventFields DEF TellsRow
<1>6. CASE L!StartTurn /\ Told({"busy"}, L!Event("started", 0))
  <2>1. Finals(bus', RowEvents) \subseteq Finals(bus, RowEvents) /\ Finals(bus', LifeEvents) \subseteq Finals(bus, LifeEvents)
    BY <1>0, <1>1, <1>6, EventFields DEF RowEvents, LifeEvents
  <2> QED BY <1>6, <2>1 DEF TellsRow, L!StartTurn
<1>7. CASE L!EndTurn /\ Told({"row", "busy"}, L!Event("ended", 0)) /\ sRow' # 0
  <2>1. Finals(bus', RowEvents) \subseteq {L!Event("ended", 0)} /\ Finals(bus', LifeEvents) \subseteq Finals(bus, LifeEvents)
    <3> DEFINE e == L!Event("ended", 0)
    <3>1. e.type \in RowEvents /\ e.type \notin LifeEvents
      BY EventFields DEF RowEvents, LifeEvents
    <3>2. Told({"row", "busy"}, e)
      BY <1>7
    <3> HIDE DEF e
    <3>3. Finals(bus', RowEvents) \subseteq {e} /\ Finals(bus', LifeEvents) \subseteq Finals(bus, LifeEvents)
      BY <1>0, <1>1, <3>1, <3>2
    <3> QED BY <3>3 DEF e
  <2>2. sRow # 0
    BY <1>7 DEF L!EndTurn, Ordered
  <2> QED BY <1>7, <2>1, <2>2, EventFields DEF TellsRow
<1>8. CASE L!AskUser /\ Told({"cards"}, L!Event("asked", asked + 1))
  <2>1. Finals(bus', RowEvents) \subseteq Finals(bus, RowEvents) /\ Finals(bus', LifeEvents) \subseteq Finals(bus, LifeEvents)
    BY <1>0, <1>1, <1>8, EventFields DEF RowEvents, LifeEvents
  <2> QED BY <1>8, <2>1 DEF TellsRow, L!AskUser
<1>9. ASSUME NEW c \in L!Cards, L!OtherReply(c) \/ L!ReplyServed(c), Told({"cards"}, L!Event("replied", c)) PROVE TellsRow'
  <2>1. Finals(bus', RowEvents) \subseteq Finals(bus, RowEvents) /\ Finals(bus', LifeEvents) \subseteq Finals(bus, LifeEvents)
    BY <1>0, <1>1, <1>9, EventFields DEF RowEvents, LifeEvents
  <2>2. sRow' = sRow
    BY <1>9 DEF L!OtherReply, L!ReplyServed, L!Settle
  <2> QED BY <2>1, <2>2 DEF TellsRow
<1>10. CASE L!StreamOpens \/ L!StreamLost \/ L!OnEvent
  <2>1. /\ Finals(bus', RowEvents) \subseteq Finals(bus, RowEvents) /\ Finals(bus', LifeEvents) \subseteq Finals(bus, LifeEvents)
        /\ sRow' = sRow
    BY <1>10, StreamFinals DEF RowEvents, LifeEvents, L!serviceVars
  <2> QED BY <2>1 DEF TellsRow
<1> QED
  BY <1>2, <1>3, <1>4, <1>5, <1>6, <1>7, <1>8, <1>9, <1>10, NextFacts

LEMMA TellsBusyNext ==
  ASSUME L!TypeOK, Ordered, TellsBusy, [L!Next]_L!vars
  PROVE  TellsBusy'
<1>0. {"row"} \in SUBSET L!Parts /\ {"busy"} \in SUBSET L!Parts /\ {"row", "busy"} \in SUBSET L!Parts /\ {"cards"} \in SUBSET L!Parts
  BY DEF L!Parts
<1>1. ASSUME NEW parts \in SUBSET L!Parts, NEW e, Told(parts, e)
      PROVE  /\ e.type \in BusyEvents => Finals(bus', BusyEvents) \subseteq {e}
             /\ e.type \notin BusyEvents => Finals(bus', BusyEvents) \subseteq Finals(bus, BusyEvents)
  BY <1>1, AnnounceTells DEF Told, Said
<1>2. CASE Own
  BY <1>2, ReadsKeep DEF Own, L!serviceVars, TellsBusy
<1>3. ASSUME Finals(bus', BusyEvents) \subseteq Finals(bus, BusyEvents), sBusy' = sBusy PROVE TellsBusy'
  BY <1>3 DEF TellsBusy
<1>4. CASE L!Create /\ Told({"row"}, L!Event("created", 0)) /\ sRow' # 0
  BY <1>0, <1>1, <1>3, <1>4, EventFields DEF BusyEvents, L!Create
<1>5. CASE L!Rename /\ Told({"row"}, L!Event("renamed", sRow')) /\ sRow' # 0
  BY <1>0, <1>1, <1>3, <1>5, EventFields DEF BusyEvents, L!Rename
<1>6. CASE L!Delete /\ Told({"row"}, L!Event("deleted", 0))
  <2>1. Finals(bus', BusyEvents) \subseteq {L!Event("deleted", 0)}
    BY <1>0, <1>1, <1>6, EventFields DEF BusyEvents
  <2>2. ~sBusy'
    BY <1>6 DEF L!Delete
  <2> QED BY <2>1, <2>2, EventFields DEF TellsBusy
<1>7. CASE L!StartTurn /\ Told({"busy"}, L!Event("started", 0))
  <2>1. Finals(bus', BusyEvents) \subseteq {L!Event("started", 0)}
    BY <1>0, <1>1, <1>7, EventFields DEF BusyEvents
  <2>2. sBusy'
    BY <1>7 DEF L!StartTurn
  <2> QED BY <2>1, <2>2, EventFields DEF TellsBusy
<1>8. CASE L!EndTurn /\ Told({"row", "busy"}, L!Event("ended", 0)) /\ sRow' # 0
  <2>1. Finals(bus', BusyEvents) \subseteq {L!Event("ended", 0)}
    BY <1>0, <1>1, <1>8, EventFields DEF BusyEvents
  <2>2. ~sBusy'
    BY <1>8 DEF L!EndTurn
  <2> QED BY <2>1, <2>2, EventFields DEF TellsBusy
<1>9. CASE L!AskUser /\ Told({"cards"}, L!Event("asked", asked + 1))
  BY <1>0, <1>1, <1>3, <1>9, EventFields DEF BusyEvents, L!AskUser
<1>10. ASSUME NEW c \in L!Cards, L!OtherReply(c) \/ L!ReplyServed(c), Told({"cards"}, L!Event("replied", c)) PROVE TellsBusy'
  <2>1. sBusy' = sBusy
    BY <1>10 DEF L!OtherReply, L!ReplyServed, L!Settle
  <2> QED BY <1>0, <1>1, <1>3, <1>10, <2>1, EventFields DEF BusyEvents
<1>11. CASE L!StreamOpens \/ L!StreamLost \/ L!OnEvent
  BY <1>3, <1>11, StreamFinals DEF BusyEvents, L!serviceVars
<1> QED
  BY <1>2, <1>4, <1>5, <1>6, <1>7, <1>8, <1>9, <1>10, <1>11, NextFacts

\* What is said of one request.
Answered(c) ==
  /\ L!Event("replied", c) \in Elements(bus) => c \in 1 .. asked /\ c \notin sCards
  /\ c \notin sCards => Trailed(bus, L!Event("asked", c), L!Event("replied", c))

LEMMA TellsCardsNext ==
  ASSUME L!TypeOK, Ordered, TellsCards, [L!Next]_L!vars
  PROVE  TellsCards'
<1> SUFFICES ASSUME NEW c \in L!Cards PROVE Answered(c)'
  BY DEF TellsCards, Answered
<1>0. /\ {"row"} \in SUBSET L!Parts /\ {"busy"} \in SUBSET L!Parts /\ {"row", "busy"} \in SUBSET L!Parts /\ {"cards"} \in SUBSET L!Parts
      /\ asked \in Nat
  BY DEF L!Parts, L!TypeOK
<1> DEFINE a == L!Event("asked", c)
           b == L!Event("replied", c)
<1>1. a.type = "asked" /\ b.type = "replied" /\ a # b /\ a.of = c /\ b.of = c
  BY EventFields
<1>2. Answered(c)
  BY DEF TellsCards, Answered
<1>3. ASSUME NEW parts \in SUBSET L!Parts, NEW e, Told(parts, e)
      PROVE  /\ Elements(bus') \subseteq Elements(bus) \cup {e}
             /\ e = b => Trailed(bus', a, b)
             /\ e # a /\ Trailed(bus, a, b) => Trailed(bus', a, b)
  BY <1>1, <1>3, AnnounceTells, AnnounceFacts DEF Told, Said
<1>4. ASSUME NEW e, Elements(bus') \subseteq Elements(bus) \cup {e}, e # b,
             Trailed(bus, a, b) => Trailed(bus', a, b), UNCHANGED <<sCards, asked>>
      PROVE  Answered(c)'
  <2>1. b \in Elements(bus') => b \in Elements(bus)
    BY <1>4
  <2>2. b \in Elements(bus') => c \in 1 .. asked' /\ c \notin sCards'
    BY <1>2, <1>4, <2>1 DEF Answered
  <2>3. c \notin sCards' => Trailed(bus', a, b)
    BY <1>2, <1>4 DEF Answered
  <2> QED BY <2>2, <2>3 DEF Answered
<1>5. ASSUME NEW parts \in SUBSET L!Parts, NEW e, Told(parts, e), e.type \notin {"asked", "replied"}, UNCHANGED <<sCards, asked>>
      PROVE  Answered(c)'
  <2>1. e # a /\ e # b
    BY <1>1, <1>5
  <2>2. /\ Elements(bus') \subseteq Elements(bus) \cup {e}
        /\ Trailed(bus, a, b) => Trailed(bus', a, b)
    BY <1>3, <1>5, <2>1
  <2> HIDE DEF a, b
  <2> QED BY <1>4, <1>5, <2>1, <2>2
<1>6. CASE Own
  BY <1>2, <1>6, ReadsKeep DEF Own, L!serviceVars, Answered
<1>7. CASE L!Create /\ Told({"row"}, L!Event("created", 0)) /\ sRow' # 0
  BY <1>0, <1>5, <1>7, EventFields DEF L!Create
<1>8. CASE L!Rename /\ Told({"row"}, L!Event("renamed", sRow')) /\ sRow' # 0
  BY <1>0, <1>5, <1>8, EventFields DEF L!Rename
<1>9. CASE L!Delete /\ Told({"row"}, L!Event("deleted", 0))
  BY <1>0, <1>5, <1>9, EventFields DEF L!Delete
<1>10. CASE L!StartTurn /\ Told({"busy"}, L!Event("started", 0))
  BY <1>0, <1>5, <1>10, EventFields DEF L!StartTurn
<1>11. CASE L!EndTurn /\ Told({"row", "busy"}, L!Event("ended", 0)) /\ sRow' # 0
  BY <1>0, <1>5, <1>11, EventFields DEF L!EndTurn
<1>12. CASE L!AskUser /\ Told({"cards"}, L!Event("asked", asked + 1))
  <2> DEFINE e == L!Event("asked", asked + 1)
  <2>1. e.type = "asked" /\ e.of = asked + 1 /\ e # b /\ (e = a => c = asked + 1)
    BY <1>1, EventFields
  <2>2. sCards = {} /\ sCards' = {asked + 1} /\ asked' = asked + 1
    BY <1>12 DEF L!AskUser
  <2>3. Told({"cards"}, e)
    BY <1>12
  <2> HIDE DEF e, a, b
  <2>4. /\ Elements(bus') \subseteq Elements(bus) \cup {e}
        /\ e # a /\ Trailed(bus, a, b) => Trailed(bus', a, b)
    BY <1>0, <1>3, <2>3
  <2>5. b \in Elements(bus') => c \in 1 .. asked /\ c \notin sCards
    BY <1>2, <2>1, <2>4 DEF Answered, b
  <2>6. b \in Elements(bus') => c \in 1 .. asked' /\ c \notin sCards'
    BY <1>0, <2>2, <2>5
  <2>7. c \notin sCards' => Trailed(bus', a, b)
    BY <1>2, <2>1, <2>2, <2>4 DEF Answered, a, b
  <2> QED BY <2>6, <2>7 DEF Answered, a, b
<1>13. ASSUME NEW d \in L!Cards, L!OtherReply(d) \/ L!ReplyServed(d), Told({"cards"}, L!Event("replied", d)) PROVE Answered(c)'
  <2> DEFINE e == L!Event("replied", d)
  <2>1. e.type = "replied" /\ e.of = d /\ e # a /\ (e = b <=> c = d)
    BY <1>1, EventFields
  <2>2. d \in sCards /\ sCards' = sCards \ {d} /\ asked' = asked
    BY <1>13 DEF L!OtherReply, L!ReplyServed, L!Settle
  <2>3. Told({"cards"}, e)
    BY <1>13
  <2> HIDE DEF e, a, b
  <2>4. /\ Elements(bus') \subseteq Elements(bus) \cup {e}
        /\ e = b => Trailed(bus', a, b)
        /\ Trailed(bus, a, b) => Trailed(bus', a, b)
    BY <1>0, <1>3, <2>1, <2>3
  <2>5. d \in 1 .. asked
    BY <2>2 DEF Ordered
  <2>6. b \in Elements(bus') => c \in 1 .. asked' /\ c \notin sCards'
    BY <1>2, <2>1, <2>2, <2>4, <2>5 DEF Answered, b
  <2>7. c \notin sCards' => Trailed(bus', a, b)
    BY <1>2, <2>1, <2>2, <2>4 DEF Answered, a, b
  <2> QED BY <2>6, <2>7 DEF Answered, a, b
<1>14. CASE L!StreamOpens \/ L!StreamLost \/ L!OnEvent
  <2> DEFINE e == L!Event("connected", 0)
  <2>1. e # a /\ e # b
    BY <1>1, EventFields
  <2>2. /\ Elements(bus') \subseteq Elements(bus) \cup {e}
        /\ Trailed(bus, a, b) => Trailed(bus', a, b)
    BY <1>14, <2>1, StreamFinals
  <2>3. UNCHANGED <<sCards, asked>>
    BY <1>14, StreamFinals DEF L!serviceVars
  <2> HIDE DEF e, a, b
  <2> QED BY <1>4, <2>1, <2>2, <2>3
<1> QED
  BY <1>6, <1>7, <1>8, <1>9, <1>10, <1>11, <1>12, <1>13, <1>14, NextFacts

-----------------------------------------------------------------------------
(* The row *)

LEMMA RowKept ==
  ASSUME RowFollowed, "row" \in overtaken => "row" \in overtaken', UNCHANGED <<row, sRow>>,
         Relisted => Relisted',
         OnBus(RowEvents) => OnBus(RowEvents)', OnBus(LifeEvents) => OnBus(LifeEvents)',
         \A r \in Elements(reads') : "row" \in r.got => r \in Elements(reads) \/ r.row = sRow,
         \A r \in Elements(reads) : r.kind \in RowReads => \E a \in Elements(reads') : a.kind = r.kind
  PROVE  RowFollowed'
<1>1. /\ ReadKinds \cap RowReads # {} => (ReadKinds \cap RowReads # {})'
      /\ ReadKinds \cap ListReads # {} => (ReadKinds \cap ListReads # {})'
  BY DEF ReadKinds, RowReads, ListReads
<1>2. RowComing => RowComing'
  BY <1>1 DEF RowComing
<1> QED
  BY <1>2 DEF RowFollowed

\* The list that is to be read brings every part.
LEMMA RelistedComing ==
  Relisted' => RowComing' /\ BusyComing' /\ \A c : CardComing(c)'
  BY DEF RowComing, BusyComing, CardComing

\* A read that is over, its reader served or not, leaves the others.
Over(i, kinds) ==
  /\ reads[i] \in L!Reads /\ reads[i] \in Elements(reads)
  /\ Elements(reads) \subseteq Elements(reads') \cup {reads[i]}
  /\ \A r \in Elements(reads') : r \in Elements(reads) \/ Fresh(r, kinds)
  /\ \A k \in Elements(kinds) : \E r \in Elements(reads') : r.kind = k /\ r.got = {}

LEMMA OverFacts ==
  ASSUME L!TypeOK, NEW i \in DOMAIN reads
  PROVE  /\ L!ListBack(i) => Over(i, Then(reads[i].busy, reads[i].row))
         /\ L!RowBack(i) \/ L!PendingBack(i) \/ L!ReadFailed(i) => Over(i, <<>>)
<1>1. ASSUME L!ListBack(i) PROVE Over(i, Then(reads[i].busy, reads[i].row))
  <2> DEFINE kinds == Then(reads[i].busy, reads[i].row)
  <2>1. L!Ask(RemoveAt(reads, i), kinds)
    BY <1>1, ListNames DEF L!ListBack, Then
  <2>2. kinds \in Seq(L!Kinds)
    BY ThenTyped
  <2> HIDE DEF kinds
  <2>3. Over(i, kinds)
    BY <2>1, <2>2, BackFacts DEF Over
  <2> QED BY <2>3 DEF kinds
<1>2. ASSUME L!RowBack(i) \/ L!PendingBack(i) \/ L!ReadFailed(i) PROVE Over(i, <<>>)
  <2>1. L!Ask(RemoveAt(reads, i), <<>>) /\ <<>> \in Seq(L!Kinds)
    BY <1>2, KindsTyped, ListNames DEF L!RowBack, L!PendingBack, L!ReadFailed
  <2> QED BY <2>1, BackFacts DEF Over
<1> QED
  BY <1>1, <1>2

\* A failed start leaves the list to the connection, a failed list all that it was for.
LEMMA FailedFacts ==
  ASSUME L!TypeOK, Ordered, NEW i \in DOMAIN reads, L!ReadFailed(i)
  PROVE  /\ UNCHANGED <<row, busy, cards, bus, stream, missed>> /\ UNCHANGED L!serviceVars
         /\ overtaken \subseteq overtaken'
         /\ \A types : OnBus(types)' <=> OnBus(types)
         /\ reads[i].kind = "start" => Relisted' \/ overtaken' = L!Parts
         /\ reads[i].kind = "resync" => overtaken' = L!Parts
         /\ reads[i].kind = "row" => "row" \in overtaken'
         /\ reads[i].kind = "pending" => "cards" \in overtaken'
         /\ Relisted => Relisted'
<1>1. UNCHANGED <<row, busy, cards, bus, stream, missed>> /\ UNCHANGED L!serviceVars
  BY DEF L!ReadFailed
<1>2. \A types : OnBus(types)' <=> OnBus(types)
  BY <1>1 DEF OnBus
<1>3. overtaken \subseteq L!Parts
  BY DEF L!TypeOK
<1>4. overtaken \subseteq overtaken'
  BY <1>3 DEF L!ReadFailed
<1>5. CASE reads[i].kind = "start"
  <2>1. ~skip' /\ (~skip => overtaken' = L!Parts)
    BY <1>5 DEF L!ReadFailed
  <2>2. skip => Relisted'
    BY <1>1, <1>2, <2>1 DEF Ordered, Relisted
  <2>3. Relisted => Relisted'
    BY <1>1, <1>2, <2>1 DEF Relisted
  <2> QED BY <1>1, <1>2, <1>4, <1>5, <2>1, <2>2, <2>3
<1>6. CASE reads[i].kind # "start"
  <2>1. skip' = skip /\ overtaken' = overtaken \cup IF reads[i].kind = "resync" THEN L!Parts ELSE L!Wanted(reads[i].kind)
    BY <1>6 DEF L!ReadFailed
  <2>2. Relisted => Relisted'
    BY <1>1, <1>2, <2>1 DEF Relisted
  <2>3. reads[i].kind = "resync" => overtaken' = L!Parts
    BY <1>3, <2>1
  <2>4. reads[i].kind = "row" => "row" \in overtaken'
    BY <2>1 DEF L!Wanted
  <2>5. reads[i].kind = "pending" => "cards" \in overtaken'
    BY <2>1 DEF L!Wanted
  <2> QED BY <1>1, <1>2, <1>4, <1>6, <2>2, <2>3, <2>4, <2>5
<1> QED
  BY <1>5, <1>6

LEMMA RowReadStep ==
  ASSUME L!TypeOK, Ordered, RowFollowed, L!ReadStep
  PROVE  RowFollowed'
<1> PICK i \in DOMAIN reads :
      \/ \E part \in L!Parts : L!ReadServed(i, part)
      \/ L!ListBack(i) \/ L!RowBack(i) \/ L!PendingBack(i)
      \/ L!ReadFailed(i)
  BY DEF L!ReadStep
<1>0. RowReads = {"start", "resync", "row"} /\ ListReads = {"start", "resync"}
  BY DEF RowReads, ListReads
<1>1. ASSUME NEW part \in L!Parts, L!ReadServed(i, part) PROVE RowFollowed'
  <2>1. UNCHANGED <<row, sRow, overtaken, skip, stream, bus>>
    BY <1>1 DEF L!ReadServed, L!shownVars, L!serviceVars
  <2>2. /\ \A types : OnBus(types) => OnBus(types)'
        /\ Relisted => Relisted'
    BY <2>1, StreamStays
  <2>3. PICK r \in Elements(reads), a \in Elements(reads') :
          /\ Elements(reads') \subseteq Elements(reads) \cup {a}
          /\ Elements(reads) \subseteq Elements(reads') \cup {r}
          /\ part \in L!Wanted(r.kind) \ r.got
          /\ a.kind = r.kind /\ a.got = r.got \cup {part}
          /\ a.row = IF part = "row" THEN sRow ELSE r.row
    BY <1>1, ServedFacts
  <2>4. \A d \in Elements(reads) : \E b \in Elements(reads') : b.kind = d.kind
    BY <2>3
  <2>5. "row" \in overtaken \/ ("row" \in a.got => a.row = sRow)
    BY <2>3 DEF RowFollowed
  <2>6. CASE "row" \in overtaken
    BY <2>1, <2>6 DEF RowFollowed
  <2>7. CASE "row" \notin overtaken
    <3>1. \A d \in Elements(reads') : "row" \in d.got => d \in Elements(reads) \/ d.row = sRow
      BY <2>3, <2>5, <2>7
    <3> QED BY <2>1, <2>2, <2>4, <3>1, RowKept
  <2> QED BY <2>6, <2>7
<1>2. CASE L!ListBack(i)
  <2>1. Over(i, Then(reads[i].busy, reads[i].row)) /\ row' = reads[i].row /\ "row" \in reads[i].got
    BY <1>2, OverFacts DEF L!ListBack, L!Wanted
  <2>2. UNCHANGED <<sRow, overtaken, skip, stream, bus>>
    BY <1>2 DEF L!ListBack, L!serviceVars
  <2>3. ASSUME "row" \notin overtaken
        PROVE  /\ row' = sRow
               /\ \A r \in Elements(reads') : "row" \in r.got => r.row = sRow
    BY <2>1, <2>3 DEF RowFollowed, Over, Fresh
  <2> QED BY <2>2, <2>3 DEF RowFollowed, RowComing
<1>3. CASE L!RowBack(i)
  <2>1. Over(i, <<>>) /\ row' = (IF reads[i].row = 0 THEN row ELSE reads[i].row)
        /\ "row" \in reads[i].got /\ reads[i].kind = "row"
    BY <1>3, OverFacts DEF L!RowBack
  <2>2. UNCHANGED <<sRow, overtaken, skip, stream, bus>>
    BY <1>3 DEF L!RowBack, L!serviceVars
  <2>3. ASSUME "row" \notin overtaken
        PROVE  /\ row' = (IF sRow = 0 THEN row ELSE sRow)
               /\ \A r \in Elements(reads') : "row" \in r.got => r.row = sRow
    BY <2>1, <2>3 DEF RowFollowed, Over, Fresh
  <2>4. ReadKinds \cap ListReads # {} => (ReadKinds \cap ListReads # {})'
    <3>1. \A r \in Elements(reads) : r.kind \in ListReads => r \in Elements(reads')
      BY <1>0, <2>1 DEF Over
    <3> QED BY <3>1 DEF ReadKinds, ListReads
  <2>5. Relisted => Relisted'
    BY <2>2, StreamStays
  <2>6. OnBus(RowEvents) => OnBus(RowEvents)'
    BY <2>2, StreamStays
  <2>7. ASSUME "row" \notin overtaken PROVE RowComing'
    <3>1. RowComing
      BY <2>7 DEF RowFollowed
    <3>2. CASE sRow = 0
      BY <2>2, <2>3, <2>4, <2>5, <2>6, <2>7, <3>1, <3>2 DEF RowComing
    <3>3. CASE sRow # 0
      BY <2>2, <2>3, <2>7, <3>3 DEF RowComing
    <3> QED BY <3>2, <3>3
  <2> QED BY <2>2, <2>3, <2>7 DEF RowFollowed
<1>4. CASE L!PendingBack(i)
  <2>1. Over(i, <<>>) /\ reads[i].kind = "pending"
    BY <1>4, OverFacts DEF L!PendingBack
  <2>2. UNCHANGED <<row, sRow, overtaken, skip, stream, bus>>
    BY <1>4 DEF L!PendingBack, L!serviceVars
  <2>3. /\ \A types : OnBus(types) => OnBus(types)'
        /\ Relisted => Relisted'
    BY <2>2, StreamStays
  <2>4. \A r \in Elements(reads') : "row" \in r.got => r \in Elements(reads)
    BY <2>1 DEF Over, Fresh
  <2>5. \A r \in Elements(reads) : r.kind \in RowReads => \E a \in Elements(reads') : a.kind = r.kind
    BY <1>0, <2>1 DEF Over
  <2> QED BY <2>2, <2>3, <2>4, <2>5, RowKept
<1>5. CASE L!ReadFailed(i)
  <2>1. Over(i, <<>>) /\ reads[i].kind \in L!Kinds
    BY <1>5, OverFacts DEF Over, L!Reads
  <2>2. UNCHANGED <<row, sRow>>
    BY <1>5, FailedFacts DEF L!serviceVars
  <2>3. \A r \in Elements(reads') : "row" \in r.got => r \in Elements(reads)
    BY <2>1 DEF Over, Fresh
  <2>4. overtaken \subseteq overtaken'
    BY <1>5, FailedFacts
  <2>5. CASE reads[i].kind = "pending"
    <3>1. \A r \in Elements(reads) : r.kind \in RowReads => \E a \in Elements(reads') : a.kind = r.kind
      BY <1>0, <2>1, <2>5 DEF Over
    <3>2. /\ OnBus(RowEvents) => OnBus(RowEvents)'
          /\ OnBus(LifeEvents) => OnBus(LifeEvents)'
          /\ Relisted => Relisted'
      BY <1>5, FailedFacts
    <3> QED BY <2>2, <2>3, <2>4, <3>1, <3>2, RowKept
  <2>6. CASE reads[i].kind # "pending"
    <3>1. Relisted' \/ "row" \in overtaken'
      BY <1>5, <2>1, <2>6, FailedFacts DEF L!Kinds, L!Parts
    <3>2. CASE "row" \in overtaken'
      BY <3>2 DEF RowFollowed
    <3>3. CASE "row" \notin overtaken'
      <4>1. RowComing' /\ "row" \notin overtaken
        BY <2>4, <3>1, <3>3, RelistedComing
      <4>2. \A r \in Elements(reads') : "row" \in r.got => r.row = sRow'
        BY <2>2, <2>3, <4>1 DEF RowFollowed
      <4> QED BY <4>1, <4>2 DEF RowFollowed
    <3> QED BY <3>2, <3>3
  <2> QED BY <2>5, <2>6
<1> QED
  BY <1>1, <1>2, <1>3, <1>4, <1>5

\* What a change of the service leaves coming.
LEMMA ToldFacts ==
  ASSUME L!TypeOK, Ordered, NEW parts \in SUBSET L!Parts, NEW e, Told(parts, e)
  PROVE  /\ UNCHANGED <<row, busy, cards, reads>> /\ overtaken \subseteq overtaken'
         /\ \A types : OnBus(types) => OnBus(types)'
         /\ Elements(bus) \subseteq Elements(bus')
         /\ Relisted => Relisted'
         /\ \A part \in parts : part \notin overtaken' =>
              /\ Relisted' \/ e \in Elements(bus')
              /\ \A r \in Elements(reads') : part \notin r.got
<1>1. L!Announce(parts, e) /\ e \in L!Events /\ UNCHANGED <<skip, stream, row, busy, cards, reads>>
  BY DEF Told, Said
<1>2. overtaken \subseteq overtaken' /\ Elements(bus) \subseteq Elements(bus')
  BY <1>1, AnnounceFacts
<1> QED
  BY <1>1, <1>2, AnnounceComing

LEMMA RowService ==
  ASSUME L!TypeOK, Ordered, RowFollowed,
         \/ L!Create /\ Told({"row"}, L!Event("created", 0)) /\ sRow' # 0
         \/ L!Rename /\ Told({"row"}, L!Event("renamed", sRow')) /\ sRow' # 0
         \/ L!Delete /\ Told({"row"}, L!Event("deleted", 0))
         \/ L!StartTurn /\ Told({"busy"}, L!Event("started", 0))
         \/ L!EndTurn /\ Told({"row", "busy"}, L!Event("ended", 0)) /\ sRow' # 0
         \/ L!AskUser /\ Told({"cards"}, L!Event("asked", asked + 1))
         \/ \E c \in L!Cards : (L!OtherReply(c) \/ L!ReplyServed(c)) /\ Told({"cards"}, L!Event("replied", c))
  PROVE  RowFollowed'
<1>0. {"row"} \in SUBSET L!Parts /\ {"busy"} \in SUBSET L!Parts /\ {"row", "busy"} \in SUBSET L!Parts /\ {"cards"} \in SUBSET L!Parts
  BY DEF L!Parts
<1> SUFFICES ASSUME "row" \notin overtaken'
             PROVE  RowFollowed'
  BY DEF RowFollowed
<1>1. ASSUME NEW parts \in SUBSET L!Parts, NEW e, "row" \in parts, Told(parts, e)
      PROVE  /\ \A r \in Elements(reads') : "row" \notin r.got
             /\ RowComing /\ row' = row
             /\ Relisted' \/ e \in Elements(bus')
             /\ (ReadKinds \cap RowReads # {} \/ Relisted) => (ReadKinds \cap RowReads # {} \/ Relisted)'
             /\ OnBus(LifeEvents) => OnBus(LifeEvents)'
  BY <1>1, ToldFacts DEF RowFollowed, ReadKinds
<1>2. ASSUME RowComing', \A r \in Elements(reads') : "row" \notin r.got PROVE RowFollowed'
  BY <1>2 DEF RowFollowed
<1>3. CASE L!Create /\ Told({"row"}, L!Event("created", 0)) /\ sRow' # 0
  <2>1. L!Event("created", 0) \in Elements(bus') => OnBus(LifeEvents)'
    BY EventFields DEF OnBus, LifeEvents
  <2> QED BY <1>0, <1>1, <1>2, <1>3, <2>1 DEF RowComing
<1>4. CASE L!Rename /\ Told({"row"}, L!Event("renamed", sRow')) /\ sRow' # 0
  <2>1. L!Event("renamed", sRow') \in Elements(bus') => OnBus(RowEvents)'
    BY EventFields DEF OnBus, RowEvents
  <2>2. sRow # 0
    BY <1>4 DEF L!Rename
  <2>3. /\ \A r \in Elements(reads') : "row" \notin r.got
        /\ RowComing /\ row' = row
        /\ Relisted' \/ L!Event("renamed", sRow') \in Elements(bus')
        /\ (ReadKinds \cap RowReads # {} \/ Relisted) => (ReadKinds \cap RowReads # {} \/ Relisted)'
        /\ OnBus(LifeEvents) => OnBus(LifeEvents)'
    BY <1>0, <1>1, <1>4
  <2> QED BY <1>2, <1>4, <2>1, <2>2, <2>3 DEF RowComing
<1>5. CASE L!Delete /\ Told({"row"}, L!Event("deleted", 0))
  <2>1. L!Event("deleted", 0) \in Elements(bus') => OnBus(RowEvents)'
    BY EventFields DEF OnBus, RowEvents
  <2>2. sRow' = 0
    BY <1>5 DEF L!Delete
  <2> QED BY <1>0, <1>1, <1>2, <1>5, <2>1, <2>2 DEF RowComing
<1>6. CASE L!EndTurn /\ Told({"row", "busy"}, L!Event("ended", 0)) /\ sRow' # 0
  <2>1. L!Event("ended", 0) \in Elements(bus') => OnBus(RowEvents)'
    BY EventFields DEF OnBus, RowEvents
  <2>2. sRow # 0
    BY <1>6 DEF L!EndTurn, Ordered
  <2>3. /\ \A r \in Elements(reads') : "row" \notin r.got
        /\ RowComing /\ row' = row
        /\ Relisted' \/ L!Event("ended", 0) \in Elements(bus')
        /\ (ReadKinds \cap RowReads # {} \/ Relisted) => (ReadKinds \cap RowReads # {} \/ Relisted)'
        /\ OnBus(LifeEvents) => OnBus(LifeEvents)'
    BY <1>0, <1>1, <1>6
  <2> QED BY <1>2, <1>6, <2>1, <2>2, <2>3 DEF RowComing
<1>7. ASSUME NEW parts \in SUBSET L!Parts, NEW e, Told(parts, e), sRow' = sRow PROVE RowFollowed'
  <2>1. /\ UNCHANGED <<row, busy, cards, reads>> /\ overtaken \subseteq overtaken'
        /\ OnBus(RowEvents) => OnBus(RowEvents)'
        /\ OnBus(LifeEvents) => OnBus(LifeEvents)'
        /\ Relisted => Relisted'
    BY <1>7, ToldFacts
  <2> QED BY <1>7, <2>1, RowKept
<1>8. CASE L!StartTurn /\ Told({"busy"}, L!Event("started", 0))
  BY <1>0, <1>7, <1>8 DEF L!StartTurn
<1>9. CASE L!AskUser /\ Told({"cards"}, L!Event("asked", asked + 1))
  BY <1>0, <1>7, <1>9 DEF L!AskUser
<1>10. ASSUME NEW c \in L!Cards, L!OtherReply(c) \/ L!ReplyServed(c), Told({"cards"}, L!Event("replied", c)) PROVE RowFollowed'
  BY <1>0, <1>7, <1>10 DEF L!OtherReply, L!ReplyServed, L!Settle
<1> QED
  BY <1>3, <1>4, <1>5, <1>6, <1>8, <1>9, <1>10

\* The stream opens or is lost, or a session is opened.
LEMMA StreamSteps ==
  ASSUME L!TypeOK, Ordered, L!StreamOpens \/ L!StreamLost \/ L!OpenSession
  PROVE  /\ UNCHANGED <<row, busy, cards>> /\ UNCHANGED L!serviceVars
         /\ \/ overtaken' = L!Parts
            \/ overtaken' = overtaken /\ Relisted'
            \/ /\ overtaken' = overtaken /\ (Relisted => Relisted')
               /\ Elements(bus) \subseteq Elements(bus')
         /\ Elements(reads) \subseteq Elements(reads')
         /\ \A r \in Elements(reads') : r \in Elements(reads) \/ r.got = {}
         /\ missed \subseteq missed'
         /\ \A c \in L!Cards : L!Event("replied", c) \in Elements(bus) =>
              c \in missed' \/ L!Event("replied", c) \in Elements(bus')
<1>1. CASE L!StreamOpens
  <2>1. bus = <<>> /\ Elements(bus) = {}
    BY <1>1, EmptyElements DEF L!StreamOpens, Ordered
  <2>2. stream' = "open" /\ skip' = skip /\ L!Event("connected", 0) \in Elements(bus')
    BY <1>1, OneElements DEF L!StreamOpens, L!shownVars
  <2>3. Relisted => Relisted'
    BY <2>2, EventFields DEF Relisted, OnBus
  <2> QED BY <1>1, <2>1, <2>3 DEF L!StreamOpens, L!shownVars
<1>2. CASE L!StreamLost
  <2>1. /\ UNCHANGED <<row, busy, cards, reads>> /\ UNCHANGED L!serviceVars
        /\ overtaken' = L!Parts \/ (overtaken' = overtaken /\ ~skip')
        /\ stream' = "dialing"
        /\ missed' = missed \cup {bus[i].of : i \in {j \in DOMAIN bus : bus[j].type = "replied"}}
    BY <1>2 DEF L!StreamLost, L!shownVars
  <2>2. overtaken' = L!Parts \/ (overtaken' = overtaken /\ Relisted')
    BY <2>1 DEF Relisted
  <2>3. ASSUME NEW c \in L!Cards, L!Event("replied", c) \in Elements(bus) PROVE c \in missed'
    <3>1. PICK i \in DOMAIN bus : bus[i] = L!Event("replied", c)
      BY <2>3, LenProperties DEF Elements, L!TypeOK
    <3> QED BY <2>1, <3>1, EventFields
  <2> QED BY <2>1, <2>2, <2>3
<1>3. CASE L!OpenSession
  <2>1. reads \in Seq(L!Reads) /\ L!Ask(reads, <<"pending">>) /\ <<"pending">> \in Seq(L!Kinds)
    BY <1>3, KindsTyped DEF L!OpenSession, L!TypeOK, L!Kinds
  <2>2. /\ Elements(reads) \subseteq Elements(reads')
        /\ \A r \in Elements(reads') : r \in Elements(reads) \/ r.got = {}
    BY <2>1, AskFacts DEF Fresh
  <2>3. UNCHANGED <<row, busy, cards, overtaken, skip, stream, bus, missed>> /\ UNCHANGED L!serviceVars
    BY <1>3 DEF L!OpenSession, L!shownVars
  <2>4. Relisted => Relisted'
    BY <2>3, StreamStays
  <2> QED BY <2>2, <2>3, <2>4
<1> QED
  BY <1>1, <1>2, <1>3

LEMMA RowStream ==
  ASSUME L!TypeOK, Ordered, RowFollowed, L!StreamOpens \/ L!StreamLost \/ L!OpenSession
  PROVE  RowFollowed'
<1>1. /\ UNCHANGED <<row, sRow>>
      /\ Elements(reads) \subseteq Elements(reads')
      /\ \A r \in Elements(reads') : r \in Elements(reads) \/ r.got = {}
  BY StreamSteps DEF L!serviceVars
<1>2. CASE overtaken' = L!Parts
  BY <1>2 DEF RowFollowed, L!Parts
<1>3. CASE overtaken' = overtaken /\ Relisted'
  <2>1. RowComing'
    BY <1>3, RelistedComing
  <2> QED BY <1>1, <1>3, <2>1 DEF RowFollowed
<1>4. CASE overtaken' = overtaken /\ (Relisted => Relisted') /\ Elements(bus) \subseteq Elements(bus')
  <2>1. /\ OnBus(RowEvents) => OnBus(RowEvents)'
        /\ OnBus(LifeEvents) => OnBus(LifeEvents)'
    BY <1>4, StreamStays
  <2> QED BY <1>1, <1>4, <2>1, RowKept
<1> QED
  BY <1>2, <1>3, <1>4, StreamSteps

\* An event is applied: what it was, what it asks for, what it leaves.
LEMMA EventSteps ==
  ASSUME L!TypeOK, Ordered, L!OnEvent, NEW e, e = Head(bus)
  PROVE  /\ e \in L!Events /\ UNCHANGED L!serviceVars /\ missed' = missed
         /\ Elements(bus) \subseteq Elements(bus') \cup {e}
         /\ \A types : /\ OnBus(types) => OnBus(types)' \/ e.type \in types
                       /\ e.type \in types => OnBus(types)' \/ e \in Finals(bus, types)
         /\ Elements(reads) \subseteq Elements(reads')
         /\ \A r \in Elements(reads') : r \in Elements(reads) \/ r.got = {}
         /\ \A k \in Elements(EventReads(e)) : \E r \in Elements(reads') : r.kind = k /\ r.got = {}
<1>1. e \in L!Events /\ UNCHANGED L!serviceVars /\ missed' = missed /\ bus # <<>> /\ bus' = Tail(bus)
  BY PopFacts DEF L!OnEvent
<1>2. /\ Elements(bus) \subseteq Elements(bus') \cup {e}
      /\ \A types : e.type \in types => OnBus(types)' \/ e \in Finals(bus, types)
  BY <1>1, PopFacts
<1>3. \A types : OnBus(types) => OnBus(types)' \/ e.type \in types
  BY <1>2 DEF OnBus
<1>4. reads \in Seq(L!Reads) /\ EventReads(e) \in Seq(L!Kinds) /\ L!Ask(reads, EventReads(e))
  BY OnEventReads DEF L!TypeOK
<1>5. /\ Elements(reads) \subseteq Elements(reads')
      /\ \A r \in Elements(reads') : r \in Elements(reads) \/ r.got = {}
      /\ \A k \in Elements(EventReads(e)) : \E r \in Elements(reads') : r.kind = k /\ r.got = {}
  BY <1>4, AskFacts DEF Fresh
<1> QED
  BY <1>1, <1>2, <1>3, <1>5

\* The first connection is passed over, every later one reads the list again.
LEMMA ConnectedSteps ==
  ASSUME L!TypeOK, Ordered, L!OnEvent, Head(bus).type = "connected"
  PROVE  /\ UNCHANGED <<row, busy, cards>>
         /\ "cards" \in overtaken' <=> "cards" \in overtaken
         /\ \/ overtaken' = overtaken /\ ~Relisted
            \/ /\ \E r \in Elements(reads') : r.kind = "resync" /\ r.got = {}
               /\ overtaken' = overtaken \/ \A r \in Elements(reads) : r.got = {}
<1>1. UNCHANGED <<row, busy, cards>> /\ L!Connected
  BY DEF L!OnEvent
<1>2. CASE skip
  BY <1>1, <1>2 DEF L!Connected, Relisted
<1>3. CASE ~skip
  <2>1. EventReads(Head(bus)) = <<"resync">>
    BY <1>3 DEF EventReads, L!When
  <2>2. \E r \in Elements(reads') : r.kind = "resync" /\ r.got = {}
    BY <2>1, OneElements, EventSteps
  <2>3. overtaken' = IF L!BeingRead = {} THEN overtaken \ {"row", "busy"} ELSE overtaken
    BY <1>1, <1>3 DEF L!Connected
  <2>4. L!BeingRead = {} => \A r \in Elements(reads) : r.got = {}
    BY BeingReadFacts
  <2>5. "cards" \in overtaken' <=> "cards" \in overtaken
    BY <2>3
  <2> QED BY <1>1, <2>2, <2>3, <2>4, <2>5
<1> QED
  BY <1>2, <1>3

\* The others leave what is to be listed and what was overtaken.
LEMMA NewsSteps ==
  ASSUME L!TypeOK, Ordered, L!OnEvent, NEW e, e = Head(bus), e.type # "connected"
  PROVE  /\ overtaken' = overtaken /\ (Relisted => Relisted')
         /\ row' = CASE e.type = "renamed" /\ row # 0 -> e.of
                     [] e.type = "deleted" -> 0
                     [] OTHER -> row
         /\ busy' = CASE e.type = "started" -> TRUE
                      [] e.type \in {"ended", "deleted"} -> FALSE
                      [] OTHER -> busy
         /\ cards' = CASE e.type = "asked" -> cards \cup {e.of}
                       [] e.type = "replied" -> cards \ {e.of}
                       [] OTHER -> cards
         /\ (e.type = "created" \/ (e.type = "ended" /\ row # 0)) =>
              \E r \in Elements(reads') : r.kind = "row"
<1>1. overtaken' = overtaken /\ skip' = skip /\ stream' = stream
  BY DEF L!OnEvent
<1>2. OnBus({"connected"}) => OnBus({"connected"})'
  BY EventSteps
<1>3. Relisted => Relisted'
  BY <1>1, <1>2 DEF Relisted
<1>4. ASSUME e.type = "created" \/ (e.type = "ended" /\ row # 0)
      PROVE  \E r \in Elements(reads') : r.kind = "row"
  <2>1. EventReads(e) = <<"row">>
    BY <1>4 DEF EventReads, L!When
  <2> QED BY <2>1, OneElements, EventSteps
<1>5. /\ row' = CASE e.type = "renamed" /\ row # 0 -> e.of
                  [] e.type = "deleted" -> 0
                  [] OTHER -> row
      /\ busy' = CASE e.type = "started" -> TRUE
                   [] e.type \in {"ended", "deleted"} -> FALSE
                   [] OTHER -> busy
      /\ cards' = CASE e.type = "asked" -> cards \cup {e.of}
                    [] e.type = "replied" -> cards \ {e.of}
                    [] OTHER -> cards
  BY DEF L!OnEvent
<1> QED
  BY <1>1, <1>3, <1>4, <1>5

LEMMA RowEvent ==
  ASSUME L!TypeOK, Ordered, TellsRow, RowFollowed, L!OnEvent
  PROVE  RowFollowed'
<1> DEFINE e == Head(bus)
<1>0. /\ RowReads = {"start", "resync", "row"} /\ ListReads = {"start", "resync"}
      /\ RowEvents = {"created", "renamed", "deleted", "ended"} /\ LifeEvents = {"created", "deleted"}
  BY DEF RowReads, ListReads, RowEvents, LifeEvents
<1>1. /\ e \in L!Events /\ sRow' = sRow
      /\ OnBus(RowEvents) => OnBus(RowEvents)' \/ e.type \in RowEvents
      /\ OnBus(LifeEvents) => OnBus(LifeEvents)' \/ e.type \in LifeEvents
      /\ e.type \in RowEvents => OnBus(RowEvents)' \/ e \in Finals(bus, RowEvents)
      /\ e.type \in LifeEvents => OnBus(LifeEvents)' \/ e \in Finals(bus, LifeEvents)
      /\ Elements(reads) \subseteq Elements(reads')
      /\ \A r \in Elements(reads') : r \in Elements(reads) \/ r.got = {}
  BY EventSteps DEF L!serviceVars
<1>2. /\ ReadKinds \cap RowReads # {} => (ReadKinds \cap RowReads # {})'
      /\ ReadKinds \cap ListReads # {} => (ReadKinds \cap ListReads # {})'
  BY <1>1 DEF ReadKinds, RowReads, ListReads
<1>3. CASE e.type = "connected"
  <2>1. /\ row' = row
        /\ \/ overtaken' = overtaken /\ ~Relisted
           \/ /\ \E r \in Elements(reads') : r.kind = "resync" /\ r.got = {}
              /\ overtaken' = overtaken \/ \A r \in Elements(reads) : r.got = {}
    BY <1>3, ConnectedSteps
  <2>2. CASE overtaken' = overtaken /\ ~Relisted
    <3>1. /\ OnBus(RowEvents) => OnBus(RowEvents)'
          /\ OnBus(LifeEvents) => OnBus(LifeEvents)'
      BY <1>0, <1>1, <1>3
    <3> QED BY <1>1, <2>1, <2>2, <3>1, RowKept
  <2>3. CASE /\ \E r \in Elements(reads') : r.kind = "resync" /\ r.got = {}
             /\ overtaken' = overtaken \/ \A r \in Elements(reads) : r.got = {}
    <3>1. RowComing'
      BY <1>0, <2>3 DEF RowComing, ReadKinds
    <3>2. "row" \notin overtaken' => \A r \in Elements(reads') : "row" \in r.got => r.row = sRow'
      BY <1>1, <2>3 DEF RowFollowed
    <3> QED BY <3>1, <3>2 DEF RowFollowed
  <2> QED BY <2>1, <2>2, <2>3
<1>4. CASE e.type # "connected"
  <2>1. /\ overtaken' = overtaken /\ (Relisted => Relisted')
        /\ row' = CASE e.type = "renamed" /\ row # 0 -> e.of
                    [] e.type = "deleted" -> 0
                    [] OTHER -> row
        /\ (e.type = "created" \/ (e.type = "ended" /\ row # 0)) =>
             \E r \in Elements(reads') : r.kind = "row"
    BY <1>4, NewsSteps
  <2>2. e.type = "renamed" => e.of # 0
    BY <1>1, StoreSyncBounds DEF L!Events
  <2>3. /\ e \in Finals(bus, RowEvents) => /\ e.type = "deleted" <=> sRow = 0
                                           /\ e.type = "renamed" => e.of = sRow
        /\ e \in Finals(bus, LifeEvents) => (e.type = "deleted" <=> sRow = 0)
    BY DEF TellsRow
  <2> SUFFICES ASSUME "row" \notin overtaken
               PROVE  RowFollowed'
    BY <2>1 DEF RowFollowed
  <2>4. \A r \in Elements(reads') : "row" \in r.got => r.row = sRow'
    BY <1>1 DEF RowFollowed
  <2>5. RowComing
    BY DEF RowFollowed
  <2> HIDE DEF e
  <2>6. ASSUME sRow # 0 PROVE RowComing'
    <3>1. (ReadKinds \cap RowReads # {} \/ Relisted) => RowComing'
      BY <1>1, <1>2, <2>1, <2>6 DEF RowComing
    <3>2. CASE e.type = "renamed"
      BY <1>0, <1>1, <2>1, <2>2, <2>3, <2>5, <2>6, <3>1, <3>2 DEF RowComing
    <3>3. CASE e.type = "deleted"
      BY <1>0, <1>1, <2>3, <2>6, <3>3 DEF RowComing
    <3>4. CASE e.type = "created" \/ (e.type = "ended" /\ row # 0)
      <4>1. (ReadKinds \cap RowReads # {})'
        BY <1>0, <2>1, <3>4 DEF ReadKinds
      <4> QED BY <1>1, <2>6, <4>1 DEF RowComing
    <3>5. CASE e.type \notin {"renamed", "deleted", "created"} /\ ~(e.type = "ended" /\ row # 0)
      BY <1>0, <1>1, <2>1, <2>5, <2>6, <3>1, <3>5 DEF RowComing
    <3> QED BY <3>2, <3>3, <3>4, <3>5
  <2>7. ASSUME sRow = 0 PROVE RowComing'
    <3>1. (ReadKinds \cap ListReads # {} \/ Relisted \/ OnBus(RowEvents)') => RowComing'
      BY <1>1, <1>2, <2>1, <2>7 DEF RowComing
    <3>2. CASE e.type \in RowEvents
      <4>1. OnBus(RowEvents)' \/ e.type = "deleted"
        BY <1>1, <2>3, <2>7, <3>2
      <4>2. e.type = "deleted" => row' = 0
        BY <2>1
      <4> QED BY <1>1, <2>7, <3>1, <4>1, <4>2 DEF RowComing
    <3>3. CASE e.type \notin RowEvents
      <4>1. row' = row
        BY <1>0, <2>1, <3>3
      <4>2. OnBus(RowEvents) => OnBus(RowEvents)'
        BY <1>1, <3>3
      <4> QED BY <1>1, <2>5, <2>7, <3>1, <4>1, <4>2 DEF RowComing
    <3> QED BY <3>2, <3>3
  <2> QED BY <2>4, <2>6, <2>7, <2>1 DEF RowFollowed
<1> QED
  BY <1>3, <1>4

LEMMA RowFollowedNext ==
  ASSUME L!TypeOK, Ordered, TellsRow, RowFollowed, [L!Next]_L!vars
  PROVE  RowFollowed'
<1>1. CASE UNCHANGED L!vars
  <2>1. UNCHANGED <<row, sRow, overtaken, reads, skip, stream, bus>>
    BY <1>1 DEF L!vars, L!shownVars, L!serviceVars
  <2> QED BY <2>1, StreamStays, RowKept
<1>2. ASSUME NEW c \in L!Cards, L!Reply(c) \/ L!ReplyBack(c) \/ L!ReplyFailed(c) PROVE RowFollowed'
  <2>1. UNCHANGED <<row, sRow, overtaken, reads, skip, stream, bus>>
    BY <1>2 DEF L!Reply, L!ReplyBack, L!ReplyFailed, L!shownVars, L!serviceVars
  <2> QED BY <2>1, StreamStays, RowKept
<1> QED
  BY <1>1, <1>2, NextFacts, RowReadStep, RowService, RowStream, RowEvent DEF Own

-----------------------------------------------------------------------------
(* The busy mark *)

LEMMA BusyKept ==
  ASSUME BusyFollowed, "busy" \in overtaken => "busy" \in overtaken', UNCHANGED <<busy, sBusy>>,
         Relisted => Relisted', OnBus(BusyEvents) => OnBus(BusyEvents)',
         \A r \in Elements(reads') : "busy" \in r.got => r \in Elements(reads) \/ r.busy = sBusy,
         \A r \in Elements(reads) : r.kind \in ListReads => \E a \in Elements(reads') : a.kind = r.kind
  PROVE  BusyFollowed'
<1>1. ReadKinds \cap ListReads # {} => (ReadKinds \cap ListReads # {})'
  BY DEF ReadKinds, ListReads
<1>2. BusyComing => BusyComing'
  BY <1>1 DEF BusyComing
<1> QED
  BY <1>2 DEF BusyFollowed

LEMMA BusyReadStep ==
  ASSUME L!TypeOK, Ordered, BusyFollowed, L!ReadStep
  PROVE  BusyFollowed'
<1> PICK i \in DOMAIN reads :
      \/ \E part \in L!Parts : L!ReadServed(i, part)
      \/ L!ListBack(i) \/ L!RowBack(i) \/ L!PendingBack(i)
      \/ L!ReadFailed(i)
  BY DEF L!ReadStep
<1>0. ListReads = {"start", "resync"}
  BY DEF ListReads
<1>1. ASSUME NEW part \in L!Parts, L!ReadServed(i, part) PROVE BusyFollowed'
  <2>1. UNCHANGED <<busy, sBusy, overtaken, skip, stream, bus>>
    BY <1>1 DEF L!ReadServed, L!shownVars, L!serviceVars
  <2>2. /\ OnBus(BusyEvents) => OnBus(BusyEvents)'
        /\ Relisted => Relisted'
    BY <2>1, StreamStays
  <2>3. PICK r \in Elements(reads), a \in Elements(reads') :
          /\ Elements(reads') \subseteq Elements(reads) \cup {a}
          /\ Elements(reads) \subseteq Elements(reads') \cup {r}
          /\ part \in L!Wanted(r.kind) \ r.got
          /\ a.kind = r.kind /\ a.got = r.got \cup {part}
          /\ a.busy = IF part = "busy" THEN sBusy ELSE r.busy
    BY <1>1, ServedFacts
  <2>4. \A d \in Elements(reads) : \E b \in Elements(reads') : b.kind = d.kind
    BY <2>3
  <2>5. "busy" \in overtaken \/ ("busy" \in a.got => a.busy = sBusy)
    BY <2>3 DEF BusyFollowed
  <2>6. CASE "busy" \in overtaken
    BY <2>1, <2>6 DEF BusyFollowed
  <2>7. CASE "busy" \notin overtaken
    <3>1. \A d \in Elements(reads') : "busy" \in d.got => d \in Elements(reads) \/ d.busy = sBusy
      BY <2>3, <2>5, <2>7
    <3> QED BY <2>1, <2>2, <2>4, <3>1, BusyKept
  <2> QED BY <2>6, <2>7
<1>2. CASE L!ListBack(i)
  <2>1. Over(i, Then(reads[i].busy, reads[i].row)) /\ busy' = reads[i].busy /\ "busy" \in reads[i].got
    BY <1>2, OverFacts DEF L!ListBack, L!Wanted
  <2>2. UNCHANGED <<sBusy, overtaken, skip, stream, bus>>
    BY <1>2 DEF L!ListBack, L!serviceVars
  <2>3. ASSUME "busy" \notin overtaken
        PROVE  /\ busy' = sBusy
               /\ \A r \in Elements(reads') : "busy" \in r.got => r.busy = sBusy
    BY <2>1, <2>3 DEF BusyFollowed, Over, Fresh
  <2> QED BY <2>2, <2>3 DEF BusyFollowed, BusyComing
<1>3. CASE L!RowBack(i) \/ L!PendingBack(i)
  <2>1. Over(i, <<>>) /\ reads[i].kind \notin ListReads
    BY <1>0, <1>3, OverFacts DEF L!RowBack, L!PendingBack
  <2>2. UNCHANGED <<busy, sBusy, overtaken, skip, stream, bus>>
    BY <1>3 DEF L!RowBack, L!PendingBack, L!serviceVars
  <2>3. /\ OnBus(BusyEvents) => OnBus(BusyEvents)'
        /\ Relisted => Relisted'
    BY <2>2, StreamStays
  <2>4. \A r \in Elements(reads') : "busy" \in r.got => r \in Elements(reads)
    BY <2>1 DEF Over, Fresh
  <2>5. \A r \in Elements(reads) : r.kind \in ListReads => \E a \in Elements(reads') : a.kind = r.kind
    BY <2>1 DEF Over
  <2> QED BY <2>2, <2>3, <2>4, <2>5, BusyKept
<1>4. CASE L!ReadFailed(i)
  <2>1. Over(i, <<>>)
    BY <1>4, OverFacts
  <2>2. UNCHANGED <<busy, sBusy>> /\ overtaken \subseteq overtaken'
    BY <1>4, FailedFacts DEF L!serviceVars
  <2>3. \A r \in Elements(reads') : "busy" \in r.got => r \in Elements(reads)
    BY <2>1 DEF Over, Fresh
  <2>4. CASE reads[i].kind \notin ListReads
    <3>1. \A r \in Elements(reads) : r.kind \in ListReads => \E a \in Elements(reads') : a.kind = r.kind
      BY <2>1, <2>4 DEF Over
    <3>2. /\ OnBus(BusyEvents) => OnBus(BusyEvents)'
          /\ Relisted => Relisted'
      BY <1>4, FailedFacts
    <3> QED BY <2>2, <2>3, <3>1, <3>2, BusyKept
  <2>5. CASE reads[i].kind \in ListReads
    <3>1. Relisted' \/ "busy" \in overtaken'
      BY <1>0, <1>4, <2>5, FailedFacts DEF L!Parts
    <3>2. CASE "busy" \in overtaken'
      BY <3>2 DEF BusyFollowed
    <3>3. CASE "busy" \notin overtaken'
      <4>1. BusyComing' /\ "busy" \notin overtaken
        BY <2>2, <3>1, <3>3, RelistedComing
      <4>2. \A r \in Elements(reads') : "busy" \in r.got => r.busy = sBusy'
        BY <2>2, <2>3, <4>1 DEF BusyFollowed
      <4> QED BY <4>1, <4>2 DEF BusyFollowed
    <3> QED BY <3>2, <3>3
  <2> QED BY <2>4, <2>5
<1> QED
  BY <1>1, <1>2, <1>3, <1>4

LEMMA BusyService ==
  ASSUME L!TypeOK, Ordered, BusyFollowed,
         \/ L!Create /\ Told({"row"}, L!Event("created", 0)) /\ sRow' # 0
         \/ L!Rename /\ Told({"row"}, L!Event("renamed", sRow')) /\ sRow' # 0
         \/ L!Delete /\ Told({"row"}, L!Event("deleted", 0))
         \/ L!StartTurn /\ Told({"busy"}, L!Event("started", 0))
         \/ L!EndTurn /\ Told({"row", "busy"}, L!Event("ended", 0)) /\ sRow' # 0
         \/ L!AskUser /\ Told({"cards"}, L!Event("asked", asked + 1))
         \/ \E c \in L!Cards : (L!OtherReply(c) \/ L!ReplyServed(c)) /\ Told({"cards"}, L!Event("replied", c))
  PROVE  BusyFollowed'
<1>0. {"row"} \in SUBSET L!Parts /\ {"busy"} \in SUBSET L!Parts /\ {"row", "busy"} \in SUBSET L!Parts /\ {"cards"} \in SUBSET L!Parts
  BY DEF L!Parts
<1>1. ASSUME NEW parts \in SUBSET L!Parts, NEW e, "busy" \in parts, Told(parts, e), e.type \in BusyEvents
      PROVE  BusyFollowed'
  <2> SUFFICES ASSUME "busy" \notin overtaken'
               PROVE  BusyFollowed'
    BY DEF BusyFollowed
  <2>1. /\ \A r \in Elements(reads') : "busy" \notin r.got
        /\ Relisted' \/ e \in Elements(bus')
    BY <1>1, ToldFacts
  <2>2. BusyComing'
    BY <1>1, <2>1 DEF BusyComing, OnBus
  <2> QED BY <2>1, <2>2 DEF BusyFollowed
<1>2. ASSUME NEW parts \in SUBSET L!Parts, NEW e, Told(parts, e), sBusy' = sBusy PROVE BusyFollowed'
  <2>1. /\ UNCHANGED <<row, busy, cards, reads>> /\ overtaken \subseteq overtaken'
        /\ OnBus(BusyEvents) => OnBus(BusyEvents)'
        /\ Relisted => Relisted'
    BY <1>2, ToldFacts
  <2> QED BY <1>2, <2>1, BusyKept
<1>3. CASE L!StartTurn /\ Told({"busy"}, L!Event("started", 0))
  BY <1>0, <1>1, <1>3, EventFields DEF BusyEvents
<1>4. CASE L!EndTurn /\ Told({"row", "busy"}, L!Event("ended", 0))
  BY <1>0, <1>1, <1>4, EventFields DEF BusyEvents
<1>5. CASE L!Create /\ Told({"row"}, L!Event("created", 0))
  BY <1>0, <1>2, <1>5 DEF L!Create
<1>6. CASE L!Rename /\ Told({"row"}, L!Event("renamed", sRow'))
  BY <1>0, <1>2, <1>6 DEF L!Rename
<1>7. CASE L!Delete /\ Told({"row"}, L!Event("deleted", 0))
  BY <1>0, <1>2, <1>7 DEF L!Delete
<1>8. CASE L!AskUser /\ Told({"cards"}, L!Event("asked", asked + 1))
  BY <1>0, <1>2, <1>8 DEF L!AskUser
<1>9. ASSUME NEW c \in L!Cards, L!OtherReply(c) \/ L!ReplyServed(c), Told({"cards"}, L!Event("replied", c)) PROVE BusyFollowed'
  BY <1>0, <1>2, <1>9 DEF L!OtherReply, L!ReplyServed, L!Settle
<1> QED
  BY <1>3, <1>4, <1>5, <1>6, <1>7, <1>8, <1>9

LEMMA BusyStream ==
  ASSUME L!TypeOK, Ordered, BusyFollowed, L!StreamOpens \/ L!StreamLost \/ L!OpenSession
  PROVE  BusyFollowed'
<1>1. /\ UNCHANGED <<busy, sBusy>>
      /\ Elements(reads) \subseteq Elements(reads')
      /\ \A r \in Elements(reads') : r \in Elements(reads) \/ r.got = {}
  BY StreamSteps DEF L!serviceVars
<1>2. CASE overtaken' = L!Parts
  BY <1>2 DEF BusyFollowed, L!Parts
<1>3. CASE overtaken' = overtaken /\ Relisted'
  <2>1. BusyComing'
    BY <1>3, RelistedComing
  <2> QED BY <1>1, <1>3, <2>1 DEF BusyFollowed
<1>4. CASE overtaken' = overtaken /\ (Relisted => Relisted') /\ Elements(bus) \subseteq Elements(bus')
  <2>1. OnBus(BusyEvents) => OnBus(BusyEvents)'
    BY <1>4, StreamStays
  <2> QED BY <1>1, <1>4, <2>1, BusyKept
<1> QED
  BY <1>2, <1>3, <1>4, StreamSteps

LEMMA BusyEvent ==
  ASSUME L!TypeOK, Ordered, TellsBusy, BusyFollowed, L!OnEvent
  PROVE  BusyFollowed'
<1> DEFINE e == Head(bus)
<1>0. ListReads = {"start", "resync"} /\ BusyEvents = {"started", "ended", "deleted"}
  BY DEF ListReads, BusyEvents
<1>1. /\ e \in L!Events /\ sBusy' = sBusy
      /\ OnBus(BusyEvents) => OnBus(BusyEvents)' \/ e.type \in BusyEvents
      /\ e.type \in BusyEvents => OnBus(BusyEvents)' \/ e \in Finals(bus, BusyEvents)
      /\ Elements(reads) \subseteq Elements(reads')
      /\ \A r \in Elements(reads') : r \in Elements(reads) \/ r.got = {}
  BY EventSteps DEF L!serviceVars
<1>2. CASE e.type = "connected"
  <2>1. /\ busy' = busy
        /\ \/ overtaken' = overtaken /\ ~Relisted
           \/ /\ \E r \in Elements(reads') : r.kind = "resync" /\ r.got = {}
              /\ overtaken' = overtaken \/ \A r \in Elements(reads) : r.got = {}
    BY <1>2, ConnectedSteps
  <2>2. CASE overtaken' = overtaken /\ ~Relisted
    <3>1. OnBus(BusyEvents) => OnBus(BusyEvents)'
      BY <1>0, <1>1, <1>2
    <3> QED BY <1>1, <2>1, <2>2, <3>1, BusyKept
  <2>3. CASE /\ \E r \in Elements(reads') : r.kind = "resync" /\ r.got = {}
             /\ overtaken' = overtaken \/ \A r \in Elements(reads) : r.got = {}
    <3>1. BusyComing'
      BY <1>0, <2>3 DEF BusyComing, ReadKinds
    <3>2. "busy" \notin overtaken' => \A r \in Elements(reads') : "busy" \in r.got => r.busy = sBusy'
      BY <1>1, <2>3 DEF BusyFollowed
    <3> QED BY <3>1, <3>2 DEF BusyFollowed
  <2> QED BY <2>1, <2>2, <2>3
<1>3. CASE e.type \in BusyEvents
  <2>1. overtaken' = overtaken /\ busy' = (e.type = "started")
    BY <1>0, <1>3, NewsSteps
  <2>2. e \in Finals(bus, BusyEvents) => (e.type = "started" <=> sBusy)
    BY DEF TellsBusy
  <2>3. sBusy \in BOOLEAN
    BY DEF L!TypeOK
  <2> HIDE DEF e
  <2>4. BusyComing'
    BY <1>1, <1>3, <2>1, <2>2, <2>3 DEF BusyComing
  <2>5. "busy" \notin overtaken => \A r \in Elements(reads') : "busy" \in r.got => r.busy = sBusy'
    BY <1>1 DEF BusyFollowed
  <2> QED BY <2>1, <2>4, <2>5 DEF BusyFollowed
<1>4. CASE e.type # "connected" /\ e.type \notin BusyEvents
  <2>1. overtaken' = overtaken /\ busy' = busy /\ (Relisted => Relisted')
    BY <1>0, <1>4, NewsSteps
  <2> QED BY <1>1, <1>4, <2>1, BusyKept
<1> QED
  BY <1>2, <1>3, <1>4

LEMMA BusyFollowedNext ==
  ASSUME L!TypeOK, Ordered, TellsBusy, BusyFollowed, [L!Next]_L!vars
  PROVE  BusyFollowed'
<1>1. CASE UNCHANGED L!vars
  <2>1. UNCHANGED <<busy, sBusy, overtaken, reads, skip, stream, bus>>
    BY <1>1 DEF L!vars, L!shownVars, L!serviceVars
  <2> QED BY <2>1, StreamStays, BusyKept
<1>2. ASSUME NEW c \in L!Cards, L!Reply(c) \/ L!ReplyBack(c) \/ L!ReplyFailed(c) PROVE BusyFollowed'
  <2>1. UNCHANGED <<busy, sBusy, overtaken, reads, skip, stream, bus>>
    BY <1>2 DEF L!Reply, L!ReplyBack, L!ReplyFailed, L!shownVars, L!serviceVars
  <2> QED BY <2>1, StreamStays, BusyKept
<1> QED
  BY <1>1, <1>2, NextFacts, BusyReadStep, BusyService, BusyStream, BusyEvent DEF Own

-----------------------------------------------------------------------------
(* The cards *)

CardsRead == \A r \in Elements(reads) : "cards" \in r.got => r.cards = sCards
Looking == \E r \in Elements(reads) : Looks(r)

LEMMA CardsKept ==
  ASSUME CardsFollowed, "cards" \in overtaken => "cards" \in overtaken', UNCHANGED <<cards, sCards>>,
         Relisted => Relisted', missed \subseteq missed',
         \A c \in L!Cards : L!Event("asked", c) \in Elements(bus) =>
           L!Event("asked", c) \in Elements(bus') \/ Relisted',
         \A c \in L!Cards : L!Event("replied", c) \in Elements(bus) =>
           L!Event("replied", c) \in Elements(bus') \/ c \in missed',
         \A r \in Elements(reads') : "cards" \in r.got => r \in Elements(reads) \/ r.cards = sCards,
         sCards # {} /\ Looking => Looking' \/ Relisted',
         cards \subseteq L!Cards, sCards \subseteq L!Cards
  PROVE  CardsFollowed'
<1> SUFFICES ASSUME "cards" \notin overtaken'
             PROVE  CardsFollowed'
  BY DEF CardsFollowed
<1>1. \A r \in Elements(reads') : "cards" \in r.got => r.cards = sCards'
  BY DEF CardsFollowed
<1>2. ASSUME NEW c \in sCards' PROVE CardComing(c)'
  BY <1>2 DEF CardsFollowed, CardComing, Looking
<1>3. ASSUME NEW c \in cards' \ sCards' PROVE c \in missed' \/ L!Event("replied", c) \in Elements(bus')
  BY <1>3 DEF CardsFollowed
<1> QED
  BY <1>1, <1>2, <1>3 DEF CardsFollowed

LEMMA CardsTyped == L!TypeOK => cards \subseteq L!Cards /\ sCards \subseteq L!Cards
  BY DEF L!TypeOK

LEMMA CardsReadStep ==
  ASSUME L!TypeOK, Ordered, BusyFollowed, CardsFollowed, L!ReadStep
  PROVE  CardsFollowed'
<1> PICK i \in DOMAIN reads :
      \/ \E part \in L!Parts : L!ReadServed(i, part)
      \/ L!ListBack(i) \/ L!RowBack(i) \/ L!PendingBack(i)
      \/ L!ReadFailed(i)
  BY DEF L!ReadStep
<1>0. ListReads = {"start", "resync"}
  BY DEF ListReads
<1>1. ASSUME NEW part \in L!Parts, L!ReadServed(i, part) PROVE CardsFollowed'
  <2>1. UNCHANGED <<cards, sCards, overtaken, skip, stream, bus, missed>>
    BY <1>1 DEF L!ReadServed, L!shownVars, L!serviceVars
  <2>2. Relisted => Relisted'
    BY <2>1, StreamStays
  <2>3. PICK r \in Elements(reads), a \in Elements(reads') :
          /\ Elements(reads') \subseteq Elements(reads) \cup {a}
          /\ Elements(reads) \subseteq Elements(reads') \cup {r}
          /\ part \in L!Wanted(r.kind) \ r.got
          /\ a.kind = r.kind /\ a.got = r.got \cup {part}
          /\ a.busy = IF part = "busy" THEN sBusy ELSE r.busy
          /\ a.cards = IF part = "cards" THEN sCards ELSE r.cards
    BY <1>1, ServedFacts, ListNames
  <2>4. sBusy /\ Looks(r) => Looks(a)
    BY <2>3 DEF Looks
  <2>5. sCards # {} /\ Looking => Looking'
    BY <2>3, <2>4 DEF Looking, Ordered
  <2>6. CASE "cards" \in overtaken
    BY <2>1, <2>6 DEF CardsFollowed
  <2>7. CASE "cards" \notin overtaken
    <3>1. \A d \in Elements(reads') : "cards" \in d.got => d \in Elements(reads) \/ d.cards = sCards
      <4>1. "cards" \in r.got => r.cards = sCards
        BY <2>3, <2>7 DEF CardsFollowed
      <4>2. "cards" \in a.got => a.cards = sCards
        BY <2>3, <4>1
      <4> QED BY <2>3, <4>2
    <3> QED BY <2>1, <2>2, <2>5, <3>1, CardsTyped, CardsKept
  <2> QED BY <2>6, <2>7
<1>2. CASE L!ListBack(i)
  <2> DEFINE kinds == Then(reads[i].busy, reads[i].row)
  <2>1. Over(i, kinds) /\ "busy" \in reads[i].got /\ reads[i].kind # "pending"
    BY <1>2, OverFacts DEF L!ListBack, L!Wanted
  <2>2. UNCHANGED <<cards, sCards, overtaken, skip, stream, bus, missed>>
    BY <1>2 DEF L!ListBack, L!serviceVars
  <2>3. Relisted => Relisted'
    BY <2>2, StreamStays
  <2>4. reads[i].busy => "pending" \in Elements(kinds)
    BY ThenTyped
  <2> HIDE DEF kinds
  <2>5. Looks(reads[i]) => \E r \in Elements(reads') : r.kind = "pending"
    BY <2>1, <2>4 DEF Looks, Over
  <2>6. Looking => Looking'
    BY <2>1, <2>5 DEF Looking, Looks, Over
  <2>7. \A r \in Elements(reads') : "cards" \in r.got => r \in Elements(reads)
    BY <2>1 DEF Over, Fresh
  <2> QED BY <2>2, <2>3, <2>6, <2>7, CardsTyped, CardsKept
<1>3. CASE L!RowBack(i)
  <2>1. Over(i, <<>>) /\ reads[i].kind = "row"
    BY <1>3, OverFacts DEF L!RowBack
  <2>2. UNCHANGED <<cards, sCards, overtaken, skip, stream, bus, missed>>
    BY <1>3 DEF L!RowBack, L!serviceVars
  <2>3. Relisted => Relisted'
    BY <2>2, StreamStays
  <2>4. Looking => Looking'
    BY <1>0, <2>1 DEF Looking, Looks, Over
  <2>5. \A r \in Elements(reads') : "cards" \in r.got => r \in Elements(reads)
    BY <2>1 DEF Over, Fresh
  <2> QED BY <2>2, <2>3, <2>4, <2>5, CardsTyped, CardsKept
<1>4. CASE L!PendingBack(i)
  <2>1. Over(i, <<>>) /\ "cards" \in reads[i].got /\ cards' = reads[i].cards
    BY <1>4, OverFacts DEF L!PendingBack
  <2>2. UNCHANGED <<sCards, overtaken>>
    BY <1>4 DEF L!PendingBack, L!serviceVars
  <2>3. ASSUME "cards" \notin overtaken
        PROVE  /\ cards' = sCards
               /\ \A r \in Elements(reads') : "cards" \in r.got => r.cards = sCards
    BY <2>1, <2>3 DEF CardsFollowed, Over, Fresh
  <2> QED BY <2>2, <2>3 DEF CardsFollowed, CardComing
<1>5. CASE L!ReadFailed(i)
  <2>1. Over(i, <<>>) /\ reads[i].kind \in L!Kinds
    BY <1>5, OverFacts DEF Over, L!Reads
  <2>2. UNCHANGED <<cards, sCards, bus, missed>> /\ overtaken \subseteq overtaken'
    BY <1>5, FailedFacts DEF L!serviceVars
  <2>3. \A r \in Elements(reads') : "cards" \in r.got => r \in Elements(reads)
    BY <2>1 DEF Over, Fresh
  <2>4. CASE "cards" \in overtaken'
    BY <2>4 DEF CardsFollowed
  <2>5. CASE "cards" \notin overtaken'
    <3>1. Relisted' \/ reads[i].kind = "row"
      BY <1>5, <2>1, <2>5, FailedFacts DEF L!Kinds, L!Parts
    <3>2. Relisted => Relisted'
      BY <1>5, FailedFacts
    <3>3. Looking => Looking' \/ Relisted'
      <4>1. reads[i].kind = "row" => ~Looks(reads[i])
        BY <1>0 DEF Looks
      <4> QED BY <2>1, <3>1, <4>1 DEF Looking, Over
    <3> QED BY <2>2, <2>3, <3>2, <3>3, CardsTyped, CardsKept
  <2> QED BY <2>4, <2>5
<1> QED
  BY <1>1, <1>2, <1>3, <1>4, <1>5

LEMMA CardsService ==
  ASSUME L!TypeOK, Ordered, CardsFollowed,
         \/ L!Create /\ Told({"row"}, L!Event("created", 0)) /\ sRow' # 0
         \/ L!Rename /\ Told({"row"}, L!Event("renamed", sRow')) /\ sRow' # 0
         \/ L!Delete /\ Told({"row"}, L!Event("deleted", 0))
         \/ L!StartTurn /\ Told({"busy"}, L!Event("started", 0))
         \/ L!EndTurn /\ Told({"row", "busy"}, L!Event("ended", 0)) /\ sRow' # 0
         \/ L!AskUser /\ Told({"cards"}, L!Event("asked", asked + 1))
         \/ \E c \in L!Cards : (L!OtherReply(c) \/ L!ReplyServed(c)) /\ Told({"cards"}, L!Event("replied", c))
  PROVE  CardsFollowed'
<1>0. {"row"} \in SUBSET L!Parts /\ {"busy"} \in SUBSET L!Parts /\ {"row", "busy"} \in SUBSET L!Parts /\ {"cards"} \in SUBSET L!Parts
  BY DEF L!Parts
<1>1. ASSUME NEW parts \in SUBSET L!Parts, NEW e, Told(parts, e), sCards' = sCards, missed' = missed PROVE CardsFollowed'
  <2>1. /\ UNCHANGED <<cards, reads>> /\ overtaken \subseteq overtaken'
        /\ Elements(bus) \subseteq Elements(bus')
        /\ Relisted => Relisted'
    BY <1>1, ToldFacts
  <2>2. Looking => Looking'
    BY <2>1 DEF Looking
  <2> QED BY <1>1, <2>1, <2>2, CardsTyped, CardsKept
<1>2. CASE L!Create /\ Told({"row"}, L!Event("created", 0))
  BY <1>0, <1>1, <1>2 DEF L!Create
<1>3. CASE L!Rename /\ Told({"row"}, L!Event("renamed", sRow'))
  BY <1>0, <1>1, <1>3 DEF L!Rename
<1>4. CASE L!Delete /\ Told({"row"}, L!Event("deleted", 0))
  BY <1>0, <1>1, <1>4 DEF L!Delete
<1>5. CASE L!StartTurn /\ Told({"busy"}, L!Event("started", 0))
  BY <1>0, <1>1, <1>5 DEF L!StartTurn
<1>6. CASE L!EndTurn /\ Told({"row", "busy"}, L!Event("ended", 0))
  BY <1>0, <1>1, <1>6 DEF L!EndTurn
<1>7. CASE L!AskUser /\ Told({"cards"}, L!Event("asked", asked + 1))
  <2>1. sCards = {} /\ sCards' = {asked + 1} /\ missed' = missed
    BY <1>7 DEF L!AskUser
  <2>2. /\ UNCHANGED <<cards, reads>> /\ overtaken \subseteq overtaken'
        /\ Elements(bus) \subseteq Elements(bus')
        /\ "cards" \notin overtaken' =>
              /\ Relisted' \/ L!Event("asked", asked + 1) \in Elements(bus')
              /\ \A r \in Elements(reads') : "cards" \notin r.got
    BY <1>0, <1>7, ToldFacts
  <2> SUFFICES ASSUME "cards" \notin overtaken'
               PROVE  CardsFollowed'
    BY DEF CardsFollowed
  <2>3. \A c \in sCards' : CardComing(c)'
    BY <2>1, <2>2 DEF CardComing
  <2>4. \A c \in cards' \ sCards' : c \in missed' \/ L!Event("replied", c) \in Elements(bus')
    BY <2>1, <2>2 DEF CardsFollowed
  <2> QED BY <2>2, <2>3, <2>4 DEF CardsFollowed
<1>8. ASSUME NEW d \in L!Cards, L!OtherReply(d) \/ L!ReplyServed(d), Told({"cards"}, L!Event("replied", d)) PROVE CardsFollowed'
  <2>1. /\ sCards' = sCards \ {d}
        /\ missed \subseteq missed' /\ (stream # "open" => d \in missed')
    BY <1>8 DEF L!OtherReply, L!ReplyServed, L!Settle
  <2>2. /\ UNCHANGED <<cards, reads>> /\ overtaken \subseteq overtaken'
        /\ Elements(bus) \subseteq Elements(bus') /\ (Relisted => Relisted')
        /\ "cards" \notin overtaken' => \A r \in Elements(reads') : "cards" \notin r.got
    BY <1>0, <1>8, ToldFacts
  <2>3. stream = "open" => L!Event("replied", d) \in Elements(bus')
    BY <1>0, <1>8, AnnounceTells DEF Told, Said
  <2> SUFFICES ASSUME "cards" \notin overtaken'
               PROVE  CardsFollowed'
    BY DEF CardsFollowed
  <2>4. \A c \in sCards' : CardComing(c)'
    BY <2>1, <2>2 DEF CardsFollowed, CardComing
  <2>5. \A c \in cards' \ sCards' : c \in missed' \/ L!Event("replied", c) \in Elements(bus')
    BY <2>1, <2>2, <2>3 DEF CardsFollowed
  <2> QED BY <2>2, <2>4, <2>5 DEF CardsFollowed
<1> QED
  BY <1>2, <1>3, <1>4, <1>5, <1>6, <1>7, <1>8

LEMMA CardsStream ==
  ASSUME L!TypeOK, Ordered, CardsFollowed, L!StreamOpens \/ L!StreamLost \/ L!OpenSession
  PROVE  CardsFollowed'
<1>1. /\ UNCHANGED <<cards, sCards>>
      /\ Elements(reads) \subseteq Elements(reads')
      /\ \A r \in Elements(reads') : r \in Elements(reads) \/ r.got = {}
      /\ missed \subseteq missed'
      /\ \A c \in L!Cards : L!Event("replied", c) \in Elements(bus) =>
           c \in missed' \/ L!Event("replied", c) \in Elements(bus')
  BY StreamSteps DEF L!serviceVars
<1>2. Looking => Looking'
  BY <1>1 DEF Looking
<1>3. CASE overtaken' = L!Parts
  BY <1>3 DEF CardsFollowed, L!Parts
<1>4. CASE overtaken' = overtaken /\ Relisted'
  BY <1>1, <1>2, <1>4, CardsTyped, CardsKept
<1>5. CASE overtaken' = overtaken /\ (Relisted => Relisted') /\ Elements(bus) \subseteq Elements(bus')
  BY <1>1, <1>2, <1>5, CardsTyped, CardsKept
<1> QED
  BY <1>3, <1>4, <1>5, StreamSteps

LEMMA CardsEvent ==
  ASSUME L!TypeOK, Ordered, TellsCards, CardsFollowed, L!OnEvent
  PROVE  CardsFollowed'
<1> DEFINE e == Head(bus)
<1>1. /\ e \in L!Events /\ sCards' = sCards /\ missed' = missed
      /\ Elements(bus) \subseteq Elements(bus') \cup {e}
      /\ Elements(reads) \subseteq Elements(reads')
      /\ \A r \in Elements(reads') : r \in Elements(reads) \/ r.got = {}
  BY EventSteps DEF L!serviceVars
<1>2. e = L!Event(e.type, e.of) /\ e \in Elements(bus)
      /\ \A a, b : Trailed(bus, a, b) => (e = a => b \in Elements(bus'))
  BY PopFacts, EventIs DEF L!OnEvent
<1>3. Looking => Looking'
  BY <1>1 DEF Looking
<1>4. ASSUME e.type \notin {"asked", "replied"}
      PROVE  \A c \in L!Cards : /\ L!Event("asked", c) \in Elements(bus) => L!Event("asked", c) \in Elements(bus')
                                /\ L!Event("replied", c) \in Elements(bus) => L!Event("replied", c) \in Elements(bus')
  <2> SUFFICES ASSUME NEW c \in L!Cards
               PROVE  e # L!Event("asked", c) /\ e # L!Event("replied", c)
    BY <1>1
  <2> QED BY <1>4, EventFields
<1>5. CASE e.type = "connected"
  <2>1. /\ cards' = cards
        /\ "cards" \in overtaken' <=> "cards" \in overtaken
        /\ \/ overtaken' = overtaken /\ ~Relisted
           \/ \E r \in Elements(reads') : r.kind = "resync" /\ r.got = {}
    BY <1>5, ConnectedSteps
  <2>2. CASE ~Relisted
    BY <1>1, <1>3, <1>4, <1>5, <2>1, <2>2, CardsTyped, CardsKept
  <2>3. CASE \E r \in Elements(reads') : r.kind = "resync" /\ r.got = {}
    <3> SUFFICES ASSUME "cards" \notin overtaken
                 PROVE  CardsFollowed'
      BY <2>1 DEF CardsFollowed
    <3>1. \A r \in Elements(reads') : "cards" \in r.got => r.cards = sCards'
      BY <1>1 DEF CardsFollowed
    <3>2. \A c : CardComing(c)'
      BY <2>3 DEF CardComing, Looks, ListReads
    <3>3. \A c \in cards' \ sCards' : c \in missed' \/ L!Event("replied", c) \in Elements(bus')
      BY <1>1, <1>4, <1>5, <2>1, CardsTyped DEF CardsFollowed
    <3> QED BY <3>1, <3>2, <3>3 DEF CardsFollowed
  <2> QED BY <2>1, <2>2, <2>3
<1>6. CASE e.type \notin {"connected", "asked", "replied"}
  <2>1. overtaken' = overtaken /\ cards' = cards /\ (Relisted => Relisted')
    BY <1>6, NewsSteps
  <2> QED BY <1>1, <1>3, <1>4, <1>6, <2>1, CardsTyped, CardsKept
<1>7. ASSUME e.type \in {"asked", "replied"}
      PROVE  /\ e.of \in L!Cards /\ overtaken' = overtaken /\ (Relisted => Relisted')
             /\ cards' = IF e.type = "asked" THEN cards \cup {e.of} ELSE cards \ {e.of}
             /\ "cards" \notin overtaken => \A r \in Elements(reads') : "cards" \in r.got => r.cards = sCards'
  <2>1. e.of \in L!Cards
    BY <1>1, <1>7 DEF L!Events
  <2>2. overtaken' = overtaken /\ (Relisted => Relisted')
        /\ cards' = IF e.type = "asked" THEN cards \cup {e.of} ELSE cards \ {e.of}
    BY <1>7, NewsSteps
  <2>3. "cards" \notin overtaken => \A r \in Elements(reads') : "cards" \in r.got => r.cards = sCards'
    BY <1>1 DEF CardsFollowed
  <2> QED BY <2>1, <2>2, <2>3
<1>8. CASE e.type = "asked"
  <2> DEFINE d == e.of
  <2>1. /\ d \in L!Cards /\ overtaken' = overtaken /\ (Relisted => Relisted') /\ cards' = cards \cup {d}
        /\ "cards" \notin overtaken => \A r \in Elements(reads') : "cards" \in r.got => r.cards = sCards'
    BY <1>7, <1>8
  <2>2. e = L!Event("asked", d)
    BY <1>2, <1>8
  <2>3. /\ \A c \in L!Cards : c # d => e # L!Event("asked", c)
        /\ \A c \in L!Cards : e # L!Event("replied", c)
    BY <1>8, EventFields
  <2>4. d \notin sCards => L!Event("replied", d) \in Elements(bus')
    BY <1>2, <2>1, <2>2 DEF TellsCards
  <2> HIDE DEF d, e
  <2> SUFFICES ASSUME "cards" \notin overtaken
               PROVE  CardsFollowed'
    BY <2>1 DEF CardsFollowed
  <2>5. ASSUME NEW c \in sCards' PROVE CardComing(c)'
    <3>1. CardComing(c) /\ c \in L!Cards
      BY <1>1, <2>5, CardsTyped DEF CardsFollowed
    <3>2. L!Event("asked", c) \in Elements(bus) => L!Event("asked", c) \in Elements(bus') \/ c = d
      BY <1>1, <2>3, <3>1
    <3> QED BY <1>3, <2>1, <3>1, <3>2 DEF CardComing, Looking
  <2>6. ASSUME NEW c \in cards' \ sCards' PROVE c \in missed' \/ L!Event("replied", c) \in Elements(bus')
    <3>1. CASE c = d
      BY <1>1, <2>4, <2>6, <3>1
    <3>2. CASE c # d
      <4>1. c \in cards \ sCards /\ c \in L!Cards
        BY <1>1, <2>1, <2>6, <3>2, CardsTyped
      <4> QED BY <1>1, <2>3, <4>1 DEF CardsFollowed
    <3> QED BY <3>1, <3>2
  <2> QED BY <2>1, <2>5, <2>6 DEF CardsFollowed
<1>9. CASE e.type = "replied"
  <2> DEFINE d == e.of
  <2>1. /\ d \in L!Cards /\ overtaken' = overtaken /\ (Relisted => Relisted') /\ cards' = cards \ {d}
        /\ "cards" \notin overtaken => \A r \in Elements(reads') : "cards" \in r.got => r.cards = sCards'
    BY <1>7, <1>9
  <2>2. e = L!Event("replied", d)
    BY <1>2, <1>9
  <2>3. /\ \A c \in L!Cards : c # d => e # L!Event("replied", c)
        /\ \A c \in L!Cards : e # L!Event("asked", c)
    BY <1>9, EventFields
  <2>4. d \notin sCards
    BY <1>2, <2>1, <2>2 DEF TellsCards
  <2> HIDE DEF d, e
  <2> SUFFICES ASSUME "cards" \notin overtaken
               PROVE  CardsFollowed'
    BY <2>1 DEF CardsFollowed
  <2>5. ASSUME NEW c \in sCards' PROVE CardComing(c)'
    <3>1. CardComing(c) /\ c \in L!Cards /\ c # d
      BY <1>1, <2>4, <2>5, CardsTyped DEF CardsFollowed
    <3>2. L!Event("asked", c) \in Elements(bus) => L!Event("asked", c) \in Elements(bus')
      BY <1>1, <2>3, <3>1
    <3> QED BY <1>3, <2>1, <3>1, <3>2 DEF CardComing, Looking
  <2>6. ASSUME NEW c \in cards' \ sCards' PROVE c \in missed' \/ L!Event("replied", c) \in Elements(bus')
    <3>1. c \in cards \ sCards /\ c \in L!Cards /\ c # d
      BY <1>1, <2>1, <2>6, CardsTyped
    <3> QED BY <1>1, <2>3, <3>1 DEF CardsFollowed
  <2> QED BY <2>1, <2>5, <2>6 DEF CardsFollowed
<1> QED
  BY <1>5, <1>6, <1>8, <1>9

LEMMA CardsFollowedNext ==
  ASSUME L!TypeOK, Ordered, TellsCards, BusyFollowed, CardsFollowed, [L!Next]_L!vars
  PROVE  CardsFollowed'
<1>1. ASSUME UNCHANGED <<cards, sCards, overtaken, reads, skip, stream, bus, missed>> PROVE CardsFollowed'
  BY <1>1 DEF CardsFollowed, CardComing, Relisted, OnBus
<1>2. CASE UNCHANGED L!vars
  BY <1>1, <1>2 DEF L!vars, L!shownVars, L!serviceVars
<1>3. ASSUME NEW c \in L!Cards, L!Reply(c) \/ L!ReplyFailed(c) PROVE CardsFollowed'
  BY <1>1, <1>3 DEF L!Reply, L!ReplyFailed, L!shownVars, L!serviceVars
<1>4. ASSUME NEW d \in L!Cards, L!ReplyBack(d) PROVE CardsFollowed'
  <2>1. /\ UNCHANGED <<sCards, overtaken, reads, skip, stream, bus, missed>>
        /\ cards' = cards \ {d} /\ d \notin sCards
    BY <1>4 DEF L!ReplyBack, L!serviceVars
  <2>2. Relisted => Relisted'
    BY <2>1, StreamStays
  <2>3. "cards" \notin overtaken => \A c \in sCards' : CardComing(c)'
    BY <2>1, <2>2 DEF CardsFollowed, CardComing
  <2> QED BY <2>1, <2>3 DEF CardsFollowed
<1> QED
  BY <1>2, <1>3, <1>4, NextFacts, CardsReadStep, CardsService, CardsStream, CardsEvent DEF Own

-----------------------------------------------------------------------------
(* The theorems *)

LEMMA FollowedInit == L!Init => Followed
<1> SUFFICES ASSUME L!Init PROVE Followed
  OBVIOUS
<1>1. /\ Elements(bus) = {} /\ Len(bus) = 0 /\ stream = "dialing" /\ skip /\ overtaken = {}
      /\ ~sBusy /\ ~busy /\ sCards = {} /\ cards = {} /\ row = 0
  BY EmptyElements DEF L!Init
<1>2. reads = <<L!Read("start")>> /\ L!Read("start").got = {} /\ L!Read("start").kind = "start"
  BY ReadTyped DEF L!Init, L!Kinds
<1>3. Elements(reads) = {L!Read("start")}
  BY <1>2, OneElements
<1>4. ReadKinds = {"start"} /\ \A r \in Elements(reads) : r.got = {}
  BY <1>2, <1>3 DEF ReadKinds
<1>5. \A types : Finals(bus, types) = {}
  BY <1>1 DEF Finals
<1>6. Ordered
  BY <1>1 DEF L!Init, Ordered
<1>7. TellsRow /\ TellsBusy /\ TellsCards
  BY <1>1, <1>5 DEF TellsRow, TellsBusy, TellsCards, Trailed
<1>8. RowFollowed
  BY <1>4 DEF RowFollowed, RowComing, RowReads, ListReads
<1>9. BusyFollowed
  BY <1>4 DEF BusyFollowed, BusyComing, ListReads
<1>10. CardsFollowed
  BY <1>1, <1>4 DEF CardsFollowed
<1> QED
  BY <1>6, <1>7, <1>8, <1>9, <1>10 DEF Followed

LEMMA FollowedNext == L!TypeOK /\ Followed /\ [L!Next]_L!vars => Followed'
  BY OrderedNext, TellsRowNext, TellsBusyNext, TellsCardsNext, RowFollowedNext, BusyFollowedNext,
     CardsFollowedNext DEF Followed

\* A step of the store is one of the list, or leaves the list alone.
LEMMA ListStep ==
  ASSUME [Next]_<<list, transcripts>>
  PROVE  [L!Next]_L!vars
<1>1. CASE L!Next
  BY <1>1
<1>2. CASE UNCHANGED list
  BY <1>2 DEF list, L!vars, L!shownVars, L!serviceVars
<1> QED
  BY <1>1, <1>2 DEF Next

\* The inductive invariant holds: whatever of the service the store does not
\* show yet is in an answer or an event on its way, or will be asked for.
THEOREM FollowedKept == Spec => [](L!TypeOK /\ Followed)
<1>1. L!TypeOK /\ Followed /\ [Next]_<<list, transcripts>> => (L!TypeOK /\ Followed)'
  BY ListStep, TypedNext, FollowedNext
<1>2. Init => L!TypeOK /\ Followed
  BY TypedInit, FollowedInit DEF Init
<1> QED
  BY <1>1, <1>2, PTL DEF Spec

\* Nothing on its way, nothing is owed: the list entry, its busy mark and the
\* cards are the service's, whatever the order of answers, events and drops.
THEOREM StoreAgreesHolds == Spec => []StoreAgrees
<1>1. L!TypeOK /\ Followed => StoreAgrees
  <2> SUFFICES ASSUME L!TypeOK, Followed, L!Quiet PROVE L!StoreAgrees
    BY DEF StoreAgrees, L!StoreAgrees, L!RowAgrees, L!BusyAgrees, L!CardsShown, L!CardsGone
  <2>1. Elements(reads) = {} /\ Elements(bus) = {} /\ stream = "open"
    BY EmptyElements DEF L!Quiet
  <2>2. ReadKinds = {} /\ ~Relisted /\ \A types : ~OnBus(types)
    BY <2>1 DEF ReadKinds, Relisted, OnBus
  <2>3. L!RowAgrees
    BY <2>2 DEF Followed, RowFollowed, RowComing, L!RowAgrees
  <2>4. L!BusyAgrees
    BY <2>2 DEF Followed, BusyFollowed, BusyComing, L!BusyAgrees
  <2>5. L!CardsShown /\ L!CardsGone
    BY <2>1, <2>2 DEF Followed, CardsFollowed, CardComing, L!CardsShown, L!CardsGone
  <2> QED BY <2>3, <2>4, <2>5 DEF L!StoreAgrees
<1> QED
  BY <1>1, FollowedKept, PTL

-----------------------------------------------------------------------------
(* The transcripts' inductive invariant *)

\* What the reads and the events under way are about, and what was answered.
Sound ==
  /\ \A r \in ToSet(pageReads) :
       /\ r.kind # "list" => r.of \in Sessions
       /\ r.kind = "older" => r.before > 1 /\ r.before <= MaxLen
       /\ r.served /\ r.kind = "older" => r.page = T!PageBefore(r.before)
       /\ r.served /\ r.kind \in {"open", "warm", "tail"} =>
            \E b \in 2 .. MaxLen + 1 : b <= len[r.of] + 1 /\ r.page = T!PageBefore(b)
  /\ \A e \in ToSet(pageBus) : /\ e.type \in {"message", "ended"} => e.of \in Sessions
                               /\ e.type = "message" => e.id > 0
  /\ \A s \in Sessions : len[s] > 0 /\ paging[s].cursor # 1

\* LoadingEnds, of the reads whatever their places.
Loading ==
  \A s \in Sessions :
    /\ paging[s].loadingOlder => \E r \in ToSet(pageReads) : r.kind = "older" /\ r.of = s
    /\ s \in ToSet(recent) \ revived /\ ~paging[s].hydrated =>
         \E r \in ToSet(pageReads) : r.kind = "open" /\ r.of = s

\* A session is held from its opening on, and what was not opened lately has no state.
Holding ==
  /\ ToSet(recent) \subseteq held
  /\ T!Revived
  /\ \A r \in ToSet(pageReads) : r.kind \in {"open", "older"} => r.of \in ToSet(recent) \cup revived
  /\ \A s \in Sessions \ (ToSet(recent) \cup revived) : paging[s] = T!NoPaging
  /\ Loading

\* Both read a page that sets the same part of the state.
SameWait(r, q) ==
  /\ r.of = q.of
  /\ \/ r.kind \in {"open", "warm"} /\ q.kind \in {"open", "warm"}
     \/ r.kind = "older" /\ q.kind = "older" /\ r.of \notin revived

\* One read at a time waits for the same.
Single == \A i, j \in DOMAIN pageReads : SameWait(pageReads[i], pageReads[j]) => i = j

\* A session is opened once at a time; one never forgotten under a read reads one older page
\* at a time, the one before its cursor, and none before its first.
Once ==
  /\ Single
  /\ \A r \in ToSet(pageReads) :
       /\ r.kind \in {"open", "warm"} => r.of \in opening
       /\ r.kind = "open" /\ r.of \notin revived => paging[r.of].cursor = 0
       /\ r.kind = "older" /\ r.of \notin revived =>
            paging[r.of].loadingOlder /\ paging[r.of].cursor = r.before

\* A read that will bring, or has brought, the message.
Fetched(s, m) ==
  \E r \in ToSet(pageReads) : /\ r.of = s /\ r.kind \in {"open", "warm", "tail"}
                              /\ r.served => m \in ToSet(r.page)

Announced(s, m) == T!Event("message", s, m) \in ToSet(pageBus)

\* Every transcript kept will be read again.
ReadAgain ==
  \/ ~up
  \/ \E e \in ToSet(pageBus) : e.type = "connected"
  \/ \E r \in ToSet(pageReads) : r.kind = "list"

\* The newest message is shown, or on its way.
Comes ==
  \A s \in ToSet(recent) \ unread :
    \/ len[s] \in ToSet(rows[s]) \/ Fetched(s, len[s]) \/ Announced(s, len[s])
    \/ ReadAgain

\* The first page will reach back from the message, or past it.
First(s, m) ==
  \E r \in ToSet(pageReads) : /\ r.of = s /\ r.kind = "open"
                              /\ r.served => \E n \in ToSet(r.page) : m <= n

\* Each message is shown, on its way or to be scrolled to.
Scrolls ==
  pageFaults = 0 =>
    /\ up
    /\ \A s \in ToSet(recent) \ revived : \A m \in 1 .. len[s] :
         \/ m \in ToSet(rows[s]) \/ m < paging[s].cursor
         \/ Announced(s, m) \/ First(s, m)

Paged == T!TypeOK /\ Sound /\ Holding /\ Once /\ Comes /\ Scrolls

-----------------------------------------------------------------------------
(* Sequences of places *)

\* A sequence without repeats is as long as it has elements.
LEMMA LenIs ==
  ASSUME NEW S, NEW s \in Seq(S), IsInjective(s)
  PROVE  IsFiniteSet(ToSet(s)) /\ Cardinality(ToSet(s)) = Len(s)
<1>1. Len(s) \in Nat /\ DOMAIN s = 1 .. Len(s) /\ s \in [1 .. Len(s) -> S]
  BY LenProperties
<1>2. s \in Surjection(1 .. Len(s), ToSet(s)) /\ s \in Injection(1 .. Len(s), ToSet(s))
  <2>1. s \in [1 .. Len(s) -> ToSet(s)]
    BY <1>1 DEF ToSet
  <2>2. \A e \in ToSet(s) : \E i \in 1 .. Len(s) : s[i] = e
    BY <1>1 DEF ToSet
  <2>3. \A i, j \in 1 .. Len(s) : s[i] = s[j] => i = j
    BY <1>1 DEF IsInjective
  <2> QED BY <2>1, <2>2, <2>3 DEF Injection, Surjection
<1>3. IsFiniteSet(1 .. Len(s)) /\ Cardinality(1 .. Len(s)) = Len(s)
  <2>1. 1 \in Int /\ Len(s) \in Int /\ (1 > Len(s) => Len(s) = 0) /\ Len(s) - 1 + 1 = Len(s)
    BY <1>1
  <2> QED BY <1>1, <2>1, FS_Interval
<1> QED
  BY <1>2, <1>3, FS_Surjection

\* Where the elements left were before one was taken out.
LEMMA RemoveAtPlaces ==
  ASSUME NEW S, NEW s \in Seq(S), NEW i \in DOMAIN s
  PROVE  \A j, k \in DOMAIN RemoveAt(s, i) : \E a, b \in DOMAIN s \ {i} :
           s[a] = RemoveAt(s, i)[j] /\ s[b] = RemoveAt(s, i)[k] /\ (a = b => j = k)
<1> DEFINE n == Len(s)
           p == SubSeq(s, 1, i - 1)
           q == SubSeq(s, i + 1, n)
           t == RemoveAt(s, i)
           at(j) == IF j < i THEN j ELSE j + 1
<1>1. n \in Nat /\ DOMAIN s = 1 .. n /\ i \in 1 .. n /\ n # 0 /\ \A k \in 1 .. n : s[k] \in S
  BY LenProperties, ElementOfSeq
<1>2. /\ p \in Seq(S) /\ Len(p) = i - 1 /\ \A k \in 1 .. i - 1 : p[k] = s[k]
  <2>1. \A k \in 1 .. i - 1 : s[k] \in S /\ k \in 1 .. n
    BY <1>1
  <2> QED BY <1>1, <2>1, SubSeqProperties
<1>3. /\ q \in Seq(S) /\ Len(q) = n - i /\ \A k \in 1 .. n - i : q[k] = s[i + k]
  <2>1. i + 1 \in 1 .. n + 1 /\ (i + 1 <= n + 1) /\ \A k \in i + 1 .. n : s[k] \in S
    BY <1>1
  <2>2. /\ q \in Seq(S) /\ Len(q) = IF i + 1 <= n THEN n - (i + 1) + 1 ELSE 0
        /\ \A k \in 1 .. n - (i + 1) + 1 : q[k] = s[(i + 1) + k - 1]
    BY <1>1, <2>1, SubSeqProperties
  <2>3. \A k \in 1 .. n - i : (i + 1) + k - 1 = i + k
    BY <1>1
  <2> HIDE DEF q
  <2>4. n - (i + 1) + 1 = n - i
    BY <1>1
  <2> QED BY <1>1, <2>2, <2>3, <2>4
<1>4. t = p \o q
  BY DEF RemoveAt
<1> HIDE DEF p, q, n, t
<1>9. /\ DOMAIN (p \o q) = 1 .. Len(p) + Len(q)
      /\ \A k \in 1 .. Len(p) : (p \o q)[k] = p[k]
      /\ \A k \in 1 .. Len(q) : (p \o q)[Len(p) + k] = q[k]
  <2>1. p \in Seq(S) /\ q \in Seq(S)
    BY <1>2, <1>3
  <2> QED BY <2>1, ConcatParts
<1>5. DOMAIN t = 1 .. n - 1
  <2>1. (i - 1) + (n - i) = n - 1
    BY <1>1
  <2> QED BY <1>2, <1>3, <1>4, <1>9, <2>1
<1>6. ASSUME NEW j \in 1 .. n - 1 PROVE t[j] = s[at(j)] /\ at(j) \in 1 .. n /\ at(j) # i
  <2>1. CASE j < i
    <3>1. j \in 1 .. i - 1
      BY <1>1, <2>1
    <3>2. (p \o q)[j] = p[j]
      BY <1>2, <1>3, <1>9, <3>1
    <3> QED BY <1>1, <1>2, <1>4, <2>1, <3>1, <3>2
  <2>2. CASE ~(j < i)
    <3>1. j - (i - 1) \in 1 .. n - i /\ (i - 1) + (j - (i - 1)) = j /\ i + (j - (i - 1)) = j + 1
      BY <1>1, <2>2
    <3>2. (p \o q)[(i - 1) + (j - (i - 1))] = q[j - (i - 1)]
      BY <1>2, <1>3, <1>9, <3>1
    <3>3. t[j] = s[j + 1]
      BY <1>3, <1>4, <3>1, <3>2
    <3>4. j + 1 \in 1 .. n /\ j + 1 # i
      BY <1>1, <2>2
    <3> QED BY <2>2, <3>3, <3>4
  <2> QED BY <2>1, <2>2
<1>7. \A j, k \in 1 .. n - 1 : at(j) = at(k) => j = k
  BY <1>1
<1> HIDE DEF at
<1> QED
  BY <1>1, <1>5, <1>6, <1>7 DEF t

-----------------------------------------------------------------------------
(* Pages and rows *)

\* A page ends before the message it was asked for and reaches back to its cursor.
LEMMA PageIs ==
  ASSUME NEW b \in 2 .. MaxLen + 1
  PROVE  /\ T!PageBefore(b) \in Seq(T!Messages) /\ IsInjective(T!PageBefore(b))
         /\ b - 1 \in ToSet(T!PageBefore(b)) /\ \A m \in ToSet(T!PageBefore(b)) : m < b
         /\ T!Cursor(T!PageBefore(b)) \in 0 .. MaxLen /\ T!Cursor(T!PageBefore(b)) # 1
         /\ \A m \in 1 .. b - 1 : m \in ToSet(T!PageBefore(b)) \/ m < T!Cursor(T!PageBefore(b))
<1> DEFINE first == IF b > PageSize THEN b - PageSize ELSE 1
           n == b - first
           p == [i \in 1 .. n |-> first + i - 1]
<1>1. /\ PageSize \in Nat \ {0} /\ MaxLen \in Nat /\ b \in Nat
      /\ first \in Nat \ {0} /\ first < b /\ n \in Nat \ {0} /\ first + n = b
  BY TranscriptsBounds
<1>2. T!PageBefore(b) = p
  BY DEF T!PageBefore
<1> HIDE DEF first, n
<1>3. p \in Seq(T!Messages) /\ Len(p) = n /\ DOMAIN p = 1 .. n
  <2>1. \A i \in 1 .. n : first + i - 1 \in 1 .. MaxLen
    BY <1>1
  <2>2. p \in [1 .. n -> T!Messages]
    BY <2>1 DEF T!Messages
  <2>3. DOMAIN p = 1 .. n
    OBVIOUS
  <2> HIDE DEF p
  <2>4. p \in Seq(T!Messages)
    BY <1>1, <2>2, SeqDef
  <2> QED BY <1>1, <2>3, <2>4, LenProperties
<1>4. \A i \in 1 .. n : p[i] = first + i - 1
  OBVIOUS
<1> HIDE DEF p
<1>5. IsInjective(p)
  <2>1. \A i, j \in 1 .. n : first + i - 1 = first + j - 1 => i = j
    BY <1>1
  <2> QED BY <1>3, <1>4, <2>1 DEF IsInjective
<1>6. ToSet(p) = first .. b - 1
  <2>1. \A i \in 1 .. n : first + i - 1 \in first .. b - 1
    BY <1>1
  <2>2. \A m \in first .. b - 1 : m - first + 1 \in 1 .. n /\ first + (m - first + 1) - 1 = m
    BY <1>1
  <2> QED BY <1>3, <1>4, <2>1, <2>2 DEF ToSet
<1>7. p # <<>> /\ p[1] = first
  <2>1. 1 \in 1 .. n /\ first + 1 - 1 = first
    BY <1>1
  <2>2. p[1] = first
    BY <1>4, <2>1
  <2>3. p # <<>>
    BY <1>1, <1>3, EmptySet
  <2> QED BY <2>2, <2>3
<1>8. T!Cursor(p) = IF first = 1 THEN 0 ELSE first
  BY <1>7 DEF T!Cursor
<1>9. T!Cursor(p) \in 0 .. MaxLen /\ T!Cursor(p) # 1
  BY <1>1, <1>8
<1>10. \A m \in 1 .. b - 1 : m \in first .. b - 1 \/ m < T!Cursor(p)
  BY <1>1, <1>8
<1>11. b - 1 \in first .. b - 1 /\ \A m \in first .. b - 1 : m < b
  BY <1>1
<1> QED
  BY <1>2, <1>3, <1>5, <1>6, <1>9, <1>10, <1>11

\* What a page adds is what the rows do not have, either way round.
LEMMA MissingAdds ==
  ASSUME NEW s \in Seq(T!Messages), IsInjective(s), NEW page \in Seq(T!Messages), IsInjective(page)
  PROVE  /\ T!MergeProjection(s, page) \in Seq(T!Messages) /\ IsInjective(T!MergeProjection(s, page))
         /\ ToSet(T!MergeProjection(s, page)) = ToSet(s) \cup ToSet(page)
         /\ T!Missing(page, s) \o s \in Seq(T!Messages) /\ IsInjective(T!Missing(page, s) \o s)
         /\ ToSet(T!Missing(page, s) \o s) = ToSet(s) \cup ToSet(page)
<1> DEFINE a == T!Missing(page, s)
<1>1. a \in Seq(T!Messages) /\ ToSet(a) = ToSet(page) \cap (T!Messages \ ToSet(s)) /\ IsInjective(a)
  BY OnlyKept, PageNames DEF T!Missing
<1>2. ToSet(page) \subseteq T!Messages
  BY SetTyped
<1>3. T!MergeProjection(s, page) = s \o a
  BY DEF T!MergeProjection
<1> HIDE DEF a
<1>4. ToSet(a) \cap ToSet(s) = {} /\ ToSet(a) \cup ToSet(s) = ToSet(s) \cup ToSet(page)
  BY <1>1, <1>2
<1>5. s \o a \in Seq(T!Messages) /\ IsInjective(s \o a) /\ ToSet(s \o a) = ToSet(s) \cup ToSet(a)
  BY <1>1, <1>4, ConcatApart
<1>6. a \o s \in Seq(T!Messages) /\ IsInjective(a \o s) /\ ToSet(a \o s) = ToSet(a) \cup ToSet(s)
  BY <1>1, <1>4, ConcatApart
<1> QED
  BY <1>3, <1>4, <1>5, <1>6 DEF a

-----------------------------------------------------------------------------
(* Reads asked and reads over *)

\* A read newly asked.
LEMMA ReadIs ==
  ASSUME NEW kind \in T!Kinds, NEW s \in Sessions \cup {NoSession}, NEW b \in 0 .. MaxLen
  PROVE  /\ T!Read(kind, s, b) \in T!Reads /\ T!Read(kind, s, b).kind = kind /\ T!Read(kind, s, b).of = s
         /\ T!Read(kind, s, b).before = b /\ ~T!Read(kind, s, b).served
<1>1. <<>> \in Seq(T!Messages) /\ b \in 0 .. MaxLen + 1
  BY TranscriptsBounds
<1> QED
  BY <1>1 DEF T!Read, T!Reads

\* One read more, after those kept.
LEMMA AskOne ==
  ASSUME NEW kept \in Seq(T!Reads), NEW r \in T!Reads, T!Ask(kept, <<r>>)
  PROVE  /\ pageReads' \in Seq(T!Reads) /\ Len(pageReads') <= MaxReads
         /\ ToSet(pageReads') = ToSet(kept) \cup {r}
         /\ \A j \in DOMAIN pageReads' : \/ j \in DOMAIN kept /\ pageReads'[j] = kept[j]
                                         \/ j = Len(kept) + 1 /\ pageReads'[j] = r
<1> DEFINE x == <<r>>
<1>1. x \in Seq(T!Reads) /\ ToSet(x) = {r} /\ Len(x) = 1 /\ x[1] = r
  BY OneSet
<1>2. pageReads' = kept \o x /\ Len(kept) + Len(x) <= MaxReads
  BY DEF T!Ask
<1> HIDE DEF x
<1>3. /\ kept \o x \in Seq(T!Reads) /\ Len(kept) \in Nat /\ DOMAIN kept = 1 .. Len(kept)
      /\ Len(kept \o x) = Len(kept) + Len(x)
      /\ DOMAIN (kept \o x) = 1 .. Len(kept) + Len(x)
      /\ \A i \in 1 .. Len(kept) : (kept \o x)[i] = kept[i]
      /\ \A i \in 1 .. Len(x) : (kept \o x)[Len(kept) + i] = x[i]
      /\ ToSet(kept \o x) = ToSet(kept) \cup ToSet(x)
  BY <1>1, ConcatParts
<1>4. \A j \in 1 .. Len(kept) + 1 : j \in 1 .. Len(kept) \/ j = Len(kept) + 1
  BY <1>3
<1> QED
  BY <1>1, <1>2, <1>3, <1>4

\* No read is asked.
LEMMA AskNone ==
  ASSUME NEW kept \in Seq(T!Reads), T!Ask(kept, <<>>)
  PROVE  pageReads' = kept /\ Len(kept) <= MaxReads
BY ConcatEmptySeq, EmptySet, LenProperties DEF T!Ask

\* What a read that is over leaves.
LEMMA ReadOver ==
  ASSUME T!TypeOK, NEW i \in DOMAIN pageReads
  PROVE  /\ pageReads[i] \in T!Reads /\ pageReads[i] \in ToSet(pageReads)
         /\ RemoveAt(pageReads, i) \in Seq(T!Reads) /\ Len(RemoveAt(pageReads, i)) <= MaxReads
         /\ ToSet(RemoveAt(pageReads, i)) \subseteq ToSet(pageReads)
         /\ ToSet(pageReads) \subseteq ToSet(RemoveAt(pageReads, i)) \cup {pageReads[i]}
         /\ \A j, k \in DOMAIN RemoveAt(pageReads, i) : \E a, b \in DOMAIN pageReads \ {i} :
              /\ pageReads[a] = RemoveAt(pageReads, i)[j] /\ pageReads[b] = RemoveAt(pageReads, i)[k]
              /\ a = b => j = k
<1>1. pageReads \in Seq(T!Reads) /\ Len(pageReads) <= MaxReads /\ MaxReads \in Nat
  BY TranscriptsBounds DEF T!TypeOK
<1>2. pageReads[i] \in T!Reads /\ pageReads[i] \in ToSet(pageReads)
  BY <1>1, SetTyped
<1>3. /\ RemoveAt(pageReads, i) \in Seq(T!Reads) /\ Len(RemoveAt(pageReads, i)) = Len(pageReads) - 1
      /\ Len(pageReads) \in Nat
      /\ ToSet(RemoveAt(pageReads, i)) \subseteq ToSet(pageReads)
      /\ ToSet(pageReads) \subseteq ToSet(RemoveAt(pageReads, i)) \cup {pageReads[i]}
  BY <1>1, RemoveAtParts
<1>4. Len(pageReads) - 1 <= MaxReads
  BY <1>1, <1>3
<1>5. \A j, k \in DOMAIN RemoveAt(pageReads, i) : \E a, b \in DOMAIN pageReads \ {i} :
        /\ pageReads[a] = RemoveAt(pageReads, i)[j] /\ pageReads[b] = RemoveAt(pageReads, i)[k]
        /\ a = b => j = k
  BY <1>1, RemoveAtPlaces
<1> QED
  BY <1>2, <1>3, <1>4, <1>5

-----------------------------------------------------------------------------
(* What each step keeps *)

\* What is typed, by name.
LEMMA Typing ==
  ASSUME T!TypeOK
  PROVE  /\ pageReads \in Seq(T!Reads) /\ pageBus \in Seq(T!Events) /\ recent \in Seq(Sessions)
         /\ ToSet(pageReads) \subseteq T!Reads /\ ToSet(pageBus) \subseteq T!Events /\ ToSet(recent) \subseteq Sessions
         /\ \A i \in DOMAIN pageReads : pageReads[i] \in ToSet(pageReads)
         /\ DOMAIN pageReads = 1 .. Len(pageReads) /\ Len(pageReads) \in Nat
<1>1. pageReads \in Seq(T!Reads) /\ pageBus \in Seq(T!Events) /\ recent \in Seq(Sessions)
  BY DEF T!TypeOK
<1> QED
  BY <1>1, SetTyped

\* A session settles: its tail is read.
LEMMA SettleKeeps ==
  ASSUME Paged, NEW s \in Sessions, T!Settle(s)
  PROVE  Paged'
<1> DEFINE r == T!Read("tail", s, 0)
<1>0. /\ T!TypeOK /\ Sound /\ Holding /\ Once /\ Comes /\ Scrolls
      /\ UNCHANGED <<recent, held, rows, paging, opening, len, pageBus, up, commands, pageFaults, unread, revived>>
      /\ settling' = settling \ {s} /\ T!Ask(pageReads, <<r>>)
  BY DEF Paged, T!Settle
<1>1. /\ r \in T!Reads /\ r.kind = "tail" /\ r.of = s /\ ~r.served
  <2>1. "tail" \in T!Kinds /\ 0 \in 0 .. MaxLen /\ s \in Sessions \cup {NoSession}
    BY TranscriptsBounds DEF T!Kinds
  <2> QED BY <2>1, ReadIs
<1> HIDE DEF r
<1>2. /\ pageReads' \in Seq(T!Reads) /\ Len(pageReads') <= MaxReads /\ ToSet(pageReads') = ToSet(pageReads) \cup {r}
      /\ \A j \in DOMAIN pageReads' : \/ j \in DOMAIN pageReads /\ pageReads'[j] = pageReads[j]
                                      \/ j = Len(pageReads) + 1 /\ pageReads'[j] = r
  BY <1>0, <1>1, Typing, AskOne
<1>3. T!TypeOK'
  BY <1>0, <1>2 DEF T!TypeOK
<1>4. Sound'
  BY <1>0, <1>1, <1>2 DEF Sound
<1>5. Holding'
  BY <1>0, <1>1, <1>2, Typing DEF Holding, T!Revived, Loading
<1>6. Once'
  BY <1>0, <1>1, <1>2 DEF Once, Single, SameWait
<1>7. Comes'
  BY <1>0, <1>1, <1>2 DEF Comes, Fetched, Announced, ReadAgain, T!Event
<1>8. Scrolls'
  BY <1>0, <1>1, <1>2 DEF Scrolls, Announced, First, T!Event
<1> QED
  BY <1>3, <1>4, <1>5, <1>6, <1>7, <1>8 DEF Paged

\* The session on screen reads an older page.
LEMMA LoadOlderKeeps ==
  ASSUME Paged, NEW s \in Sessions, T!LoadOlder(s)
  PROVE  Paged'
<1> DEFINE r == T!Read("older", s, paging[s].cursor)
           p == [paging[s] EXCEPT !.loadingOlder = TRUE]
<1>0. /\ T!TypeOK /\ Sound /\ Holding /\ Once /\ Comes /\ Scrolls
      /\ recent # <<>> /\ s = Last(recent) /\ paging[s].cursor # 0 /\ ~paging[s].loadingOlder
      /\ UNCHANGED <<recent, held, rows, opening, settling, len, pageBus, up, pageFaults, unread, revived>>
      /\ commands < MaxCommands /\ commands' = commands + 1
      /\ paging' = [paging EXCEPT ![s] = p] /\ T!Ask(pageReads, <<r>>)
  BY PageNames DEF Paged, T!LoadOlder, T!UserCommand, T!SetPaging
<1>1. /\ paging \in [Sessions -> T!Paging] /\ paging[s] \in T!Paging /\ paging[s].cursor \in 2 .. MaxLen
      /\ p \in T!Paging /\ p.loadingOlder /\ p.cursor = paging[s].cursor /\ p.hydrated = paging[s].hydrated
  <2>1. paging \in [Sessions -> T!Paging] /\ paging[s].cursor # 1 /\ MaxLen \in Nat
    BY <1>0, TranscriptsBounds DEF T!TypeOK, Sound
  <2>2. paging[s] \in T!Paging
    BY <2>1
  <2> HIDE DEF p
  <2>3. paging[s].cursor \in 0 .. MaxLen
    BY <2>2 DEF T!Paging
  <2>4. p \in T!Paging /\ p.loadingOlder /\ p.cursor = paging[s].cursor /\ p.hydrated = paging[s].hydrated
    BY <2>2 DEF T!Paging, p
  <2> QED BY <1>0, <2>1, <2>2, <2>3, <2>4
<1>2. /\ r \in T!Reads /\ r.kind = "older" /\ r.of = s /\ ~r.served /\ r.before = paging[s].cursor
  <2>1. "older" \in T!Kinds /\ paging[s].cursor \in 0 .. MaxLen /\ s \in Sessions \cup {NoSession}
    BY <1>1, TranscriptsBounds DEF T!Kinds
  <2> QED BY <2>1, ReadIs
<1> HIDE DEF r, p
<1>3. /\ pageReads' \in Seq(T!Reads) /\ Len(pageReads') <= MaxReads /\ ToSet(pageReads') = ToSet(pageReads) \cup {r}
      /\ \A j \in DOMAIN pageReads' : \/ j \in DOMAIN pageReads /\ pageReads'[j] = pageReads[j]
                                      \/ j = Len(pageReads) + 1 /\ pageReads'[j] = r
  BY <1>0, <1>2, Typing, AskOne
<1>4. /\ paging' \in [Sessions -> T!Paging] /\ paging'[s] = p /\ \A t \in Sessions : t # s => paging'[t] = paging[t]
  BY <1>0, <1>1
<1>5. T!TypeOK'
  <2>1. commands' \in 0 .. MaxCommands
    BY <1>0, TranscriptsBounds DEF T!TypeOK
  <2> QED BY <1>0, <1>3, <1>4, <2>1 DEF T!TypeOK
<1>6. Sound'
  BY <1>0, <1>1, <1>2, <1>3, <1>4, TranscriptsBounds DEF Sound
<1>7. s \in ToSet(recent)
  <2>1. Len(recent) \in DOMAIN recent
    BY <1>0, EmptySeq, LenProperties DEF T!TypeOK
  <2> QED BY <1>0, <2>1 DEF ToSet, Last
<1>8. Holding'
  <2>1. Loading'
    BY <1>0, <1>1, <1>2, <1>3, <1>4 DEF Holding, Loading
  <2> QED BY <1>0, <1>2, <1>3, <1>4, <1>7, <2>1 DEF Holding, T!Revived
<1>9. Once'
  <2>1. \A q \in ToSet(pageReads) : q.of = s /\ s \notin revived => q.kind # "older" /\ q.kind # "open"
    BY <1>0 DEF Once
  <2>2. \A j \in DOMAIN pageReads : pageReads[j] \in ToSet(pageReads)
    BY <1>0, Typing
  <2>3. Single'
    BY <1>0, <1>2, <1>3, <2>1, <2>2 DEF Once, Single, SameWait
  <2>4. \A q \in ToSet(pageReads) : q.kind \in {"open", "older"} /\ q.of \notin revived => q.of # s
    BY <2>1
  <2>5. \A q \in ToSet(pageReads) : q.kind \in {"open", "older"} => q.of \in Sessions
    BY <1>0 DEF Sound
  <2> QED BY <1>0, <1>1, <1>2, <1>3, <1>4, <2>3, <2>4, <2>5 DEF Once
<1>10. Comes'
  BY <1>0, <1>2, <1>3 DEF Comes, Fetched, Announced, ReadAgain, T!Event
<1>11. Scrolls'
  <2>1. \A t \in Sessions : paging'[t].cursor = paging[t].cursor
    BY <1>1, <1>4
  <2>2. ToSet(recent) \subseteq Sessions
    BY <1>0, Typing
  <2> QED BY <1>0, <1>2, <1>3, <2>1, <2>2 DEF Scrolls, Announced, First, T!Event
<1> QED
  BY <1>5, <1>6, <1>8, <1>9, <1>10, <1>11 DEF Paged

\* A turn adds a message: it is told, if the stream is up.
LEMMA NewMessageKeeps ==
  ASSUME Paged, NEW s \in Sessions, NEW last \in BOOLEAN, T!NewMessage(s, last)
  PROVE  Paged'
<1> DEFINE e == T!Event("message", s, len[s] + 1)
           f == T!Event("ended", s, 0)
           events == <<e>> \o (IF last THEN <<f>> ELSE <<>>)
<1>0. /\ T!TypeOK /\ Sound /\ Holding /\ Once /\ Comes /\ Scrolls
      /\ UNCHANGED <<recent, held, rows, paging, opening, settling, pageReads, up, commands, pageFaults, unread, revived>>
      /\ len[s] < MaxLen /\ len' = [len EXCEPT ![s] = len[s] + 1]
      /\ IF up THEN pageBus' = pageBus \o events ELSE UNCHANGED pageBus
  BY DEF Paged, T!NewMessage, T!clientVars
<1>1. /\ len \in [Sessions -> 0 .. MaxLen] /\ MaxLen \in Nat /\ len[s] \in 1 .. MaxLen - 1 /\ len[s] + 1 \in 1 .. MaxLen
      /\ len' \in [Sessions -> 0 .. MaxLen] /\ len'[s] = len[s] + 1 /\ \A t \in Sessions : t # s => len'[t] = len[t]
  <2>1. len \in [Sessions -> 0 .. MaxLen] /\ len[s] > 0 /\ MaxLen \in Nat
    BY <1>0, TranscriptsBounds DEF T!TypeOK, Sound
  <2>2. len[s] \in 0 .. MaxLen
    BY <2>1
  <2>3. len[s] + 1 \in 1 .. MaxLen /\ len[s] + 1 \in 0 .. MaxLen /\ len[s] \in 1 .. MaxLen - 1
    BY <1>0, <2>1, <2>2
  <2> QED BY <1>0, <2>1, <2>3
<1>2. e \in T!Events /\ f \in T!Events /\ e.type = "message" /\ f.type = "ended" /\ e.of = s /\ f.of = s /\ e.id = len[s] + 1
  BY <1>1 DEF T!Event, T!Events
<1>3. events \in Seq(T!Events) /\ e \in ToSet(events) /\ ToSet(events) \subseteq {e, f}
  <2> HIDE DEF e, f
  <2>1. <<e>> \in Seq(T!Events) /\ ToSet(<<e>>) = {e} /\ <<f>> \in Seq(T!Events) /\ ToSet(<<f>>) = {f}
    BY <1>2, OneSet
  <2>2. CASE last
    <3> DEFINE x == <<e>>
               y == <<f>>
    <3>1. x \in Seq(T!Events) /\ y \in Seq(T!Events) /\ ToSet(x) = {e} /\ ToSet(y) = {f} /\ events = x \o y
      BY <2>1, <2>2
    <3> HIDE DEF x, y, events
    <3>2. x \o y \in Seq(T!Events) /\ ToSet(x \o y) = ToSet(x) \cup ToSet(y)
      BY <3>1, ConcatParts
    <3> QED BY <3>1, <3>2
  <2>3. CASE ~last
    <3>1. events = <<e>> \o <<>>
      BY <2>3
    <3>2. events = <<e>>
      BY <2>1, <3>1, ConcatEmptySeq
    <3> QED BY <2>1, <3>2
  <2> QED BY <2>2, <2>3
<1> HIDE DEF events, e, f
<1>4. /\ pageBus' \in Seq(T!Events) /\ ToSet(pageBus) \subseteq ToSet(pageBus') /\ ToSet(pageBus') \subseteq ToSet(pageBus) \cup {e, f}
      /\ up => e \in ToSet(pageBus')
  <2>1. pageBus \in Seq(T!Events)
    BY <1>0, Typing
  <2>2. pageBus \o events \in Seq(T!Events) /\ ToSet(pageBus \o events) = ToSet(pageBus) \cup ToSet(events)
    BY <1>3, <2>1, ConcatParts
  <2> QED BY <1>0, <1>3, <2>1, <2>2
<1>5. T!TypeOK'
  BY <1>0, <1>1, <1>4 DEF T!TypeOK
<1>6. Sound'
  <2>1. \A t \in Sessions : len[t] \in Nat /\ len'[t] \in Nat /\ len[t] <= len'[t] /\ len'[t] > 0
    BY <1>0, <1>1 DEF Sound
  <2>2. \A r \in ToSet(pageReads) : r.served /\ r.kind \in {"open", "warm", "tail"} =>
            \E b \in 2 .. MaxLen + 1 : b <= len'[r.of] + 1 /\ r.page = T!PageBefore(b)
    <3> SUFFICES ASSUME NEW r \in ToSet(pageReads), r.served, r.kind \in {"open", "warm", "tail"}
                 PROVE  \E b \in 2 .. MaxLen + 1 : b <= len'[r.of] + 1 /\ r.page = T!PageBefore(b)
      OBVIOUS
    <3>1. r.of \in Sessions
      BY <1>0 DEF Sound
    <3>2. PICK b \in 2 .. MaxLen + 1 : b <= len[r.of] + 1 /\ r.page = T!PageBefore(b)
      BY <1>0 DEF Sound
    <3>3. b <= len'[r.of] + 1
      BY <1>1, <2>1, <3>1, <3>2
    <3> QED BY <3>2, <3>3
  <2>3. \A x \in ToSet(pageBus') : /\ x.type \in {"message", "ended"} => x.of \in Sessions
                                   /\ x.type = "message" => x.id > 0
    BY <1>0, <1>1, <1>2, <1>4 DEF Sound
  <2> QED BY <1>0, <2>1, <2>2, <2>3 DEF Sound
<1>7. Holding'
  BY <1>0 DEF Holding, T!Revived, Loading
<1>8. Once'
  BY <1>0 DEF Once, Single, SameWait
<1>9. Comes'
  <2> SUFFICES ASSUME NEW t \in ToSet(recent) \ unread
               PROVE  \/ len'[t] \in ToSet(rows[t]) \/ Fetched(t, len[t])' \/ Announced(t, len[t])' \/ ReadAgain'
    BY <1>0 DEF Comes
  <2>1. t \in Sessions
    BY <1>0, Typing
  <2>2. ReadAgain => ReadAgain'
    BY <1>0, <1>4 DEF ReadAgain
  <2>3. CASE t = s
    BY <1>0, <1>1, <1>4, <2>3 DEF ReadAgain, Announced, e
  <2>4. CASE t # s
    <3>1. len'[t] = len[t]
      BY <1>1, <2>1, <2>4
    <3>2. Fetched(t, len[t]) => Fetched(t, len[t])'
      BY <1>0, <3>1 DEF Fetched
    <3>3. Announced(t, len[t]) => Announced(t, len[t])'
      BY <1>4, <3>1 DEF Announced, T!Event
    <3> QED BY <1>0, <2>2, <3>1, <3>2, <3>3 DEF Comes
  <2> QED BY <2>3, <2>4
<1>10. Scrolls'
  <2> SUFFICES ASSUME pageFaults = 0
               PROVE  /\ up
                      /\ \A t \in ToSet(recent) \ revived : \A m \in 1 .. len'[t] :
                           \/ m \in ToSet(rows[t]) \/ m < paging[t].cursor
                           \/ Announced(t, m)' \/ First(t, m)'
    BY <1>0 DEF Scrolls
  <2>1. up
    BY <1>0 DEF Scrolls
  <2> SUFFICES ASSUME NEW t \in ToSet(recent) \ revived, NEW m \in 1 .. len'[t]
               PROVE  \/ m \in ToSet(rows[t]) \/ m < paging[t].cursor
                      \/ Announced(t, m)' \/ First(t, m)'
    BY <2>1
  <2>2. t \in Sessions
    BY <1>0, Typing
  <2>3. CASE m \in 1 .. len[t]
    <3>1. First(t, m) => First(t, m)'
      BY <1>0 DEF First
    <3>2. Announced(t, m) => Announced(t, m)'
      BY <1>4 DEF Announced, T!Event
    <3> QED BY <1>0, <2>3, <3>1, <3>2 DEF Scrolls
  <2>4. CASE m \notin 1 .. len[t]
    <3>1. t = s /\ m = len[s] + 1
      <4>1. len[t] \in Nat
        BY <1>1, <2>2
      <4>2. t = s
        BY <1>1, <2>2, <2>4
      <4> QED BY <1>1, <2>4, <4>1, <4>2
    <3> QED BY <1>4, <2>1, <3>1 DEF Announced, T!Event, e
  <2> QED BY <2>3, <2>4
<1> QED
  BY <1>5, <1>6, <1>7, <1>8, <1>9, <1>10 DEF Paged

\* The stream drops, and what was on it.
LEMMA BusLostKeeps ==
  ASSUME Paged, T!BusLost
  PROVE  Paged'
<1>0. /\ T!TypeOK /\ Sound /\ Holding /\ Once /\ Comes /\ Scrolls
      /\ UNCHANGED <<recent, held, rows, paging, opening, settling, pageReads, len, commands, unread, revived>>
      /\ up' = FALSE /\ pageBus' = <<>> /\ pageFaults < MaxFaults /\ pageFaults' = pageFaults + 1
  BY DEF Paged, T!BusLost, T!Fault, T!clientVars
<1>1. pageFaults' \in 0 .. MaxFaults /\ pageFaults' # 0
  BY <1>0, TranscriptsBounds DEF T!TypeOK
<1>2. pageBus' \in Seq(T!Events) /\ ToSet(pageBus') = {}
  <2>1. <<>> \in Seq(T!Events)
    BY EmptySeq
  <2> QED BY <1>0, <2>1, EmptySet
<1>3. T!TypeOK'
  BY <1>0, <1>1, <1>2 DEF T!TypeOK
<1>4. Sound'
  BY <1>0, <1>2 DEF Sound
<1>5. Holding'
  BY <1>0 DEF Holding, T!Revived, Loading
<1>6. Once'
  BY <1>0 DEF Once, Single, SameWait
<1>7. Comes'
  BY <1>0 DEF Comes, ReadAgain
<1>8. Scrolls'
  BY <1>1 DEF Scrolls
<1> QED
  BY <1>3, <1>4, <1>5, <1>6, <1>7, <1>8 DEF Paged

\* The stream is back, and tells so first.
LEMMA ReconnectKeeps ==
  ASSUME Paged, T!Reconnect
  PROVE  Paged'
<1> DEFINE e == T!Event("connected", NoSession, 0)
<1>0. /\ T!TypeOK /\ Sound /\ Holding /\ Once /\ Comes /\ Scrolls
      /\ UNCHANGED <<recent, held, rows, paging, opening, settling, pageReads, len, commands, pageFaults, unread, revived>>
      /\ ~up /\ up' = TRUE /\ pageBus' = <<e>>
  BY DEF Paged, T!Reconnect, T!clientVars
<1>1. e \in T!Events /\ e.type = "connected"
  <2>1. 0 \in 0 .. MaxLen
    BY TranscriptsBounds
  <2> QED BY <2>1 DEF T!Event, T!Events
<1> HIDE DEF e
<1>2. pageBus' \in Seq(T!Events) /\ ToSet(pageBus') = {e}
  BY <1>0, <1>1, OneSet
<1>3. T!TypeOK'
  BY <1>0, <1>2 DEF T!TypeOK
<1>4. Sound'
  BY <1>0, <1>1, <1>2 DEF Sound
<1>5. Holding'
  BY <1>0 DEF Holding, T!Revived, Loading
<1>6. Once'
  BY <1>0 DEF Once, Single, SameWait
<1>7. Comes'
  BY <1>0, <1>1, <1>2 DEF Comes, ReadAgain
<1>8. Scrolls'
  BY <1>0 DEF Scrolls
<1> QED
  BY <1>3, <1>4, <1>5, <1>6, <1>7, <1>8 DEF Paged

\* The service answers a read.
LEMMA ReadServedKeeps ==
  ASSUME Paged, NEW i \in DOMAIN pageReads, T!ReadServed(i)
  PROVE  Paged'
<1> DEFINE r == pageReads[i]
           before == CASE r.kind = "list" -> 1
                       [] r.kind = "older" -> r.before
                       [] OTHER -> len[r.of] + 1
           g == [r EXCEPT !.served = TRUE, !.page = T!PageBefore(before)]
<1>0. /\ T!TypeOK /\ Sound /\ Holding /\ Once /\ Comes /\ Scrolls
      /\ UNCHANGED <<recent, held, rows, paging, opening, settling, len, pageBus, up, commands, pageFaults, unread, revived>>
      /\ ~r.served
  BY DEF Paged, T!ReadServed, T!clientVars
<1>1. r \in T!Reads /\ r \in ToSet(pageReads) /\ pageReads \in Seq(T!Reads) /\ Len(pageReads) <= MaxReads
  BY <1>0, Typing DEF T!TypeOK
<1>2. pageReads' = [pageReads EXCEPT ![i] = g]
  BY <1>1 DEF T!ReadServed
<1>3. /\ r.kind # "list" => before \in 2 .. MaxLen + 1
      /\ r.kind = "older" => before = r.before
      /\ r.kind \in {"open", "warm", "tail"} => before = len[r.of] + 1
  <2>0. MaxLen \in Nat /\ len \in [Sessions -> 0 .. MaxLen] /\ r.kind \in T!Kinds /\ r.before \in 0 .. MaxLen + 1
    BY <1>0, <1>1, TranscriptsBounds DEF T!TypeOK, T!Reads
  <2>1. CASE r.kind = "older"
    BY <1>0, <1>1, <2>0, <2>1 DEF Sound
  <2>2. CASE r.kind \in {"open", "warm", "tail"}
    <3>1. r.of \in Sessions /\ len[r.of] > 0 /\ len[r.of] \in 0 .. MaxLen
      BY <1>0, <1>1, <2>0, <2>2 DEF Sound
    <3>2. before = len[r.of] + 1
      BY <2>2
    <3> HIDE DEF before
    <3>3. before \in 2 .. MaxLen + 1
      BY <2>0, <3>1, <3>2
    <3> QED BY <2>2, <3>2, <3>3
  <2> QED BY <2>0, <2>1, <2>2 DEF T!Kinds
<1>4. T!PageBefore(before) \in Seq(T!Messages)
  <2>1. CASE r.kind = "list"
    <3>1. before = 1 /\ PageSize \in Nat \ {0}
      BY <2>1, TranscriptsBounds
    <3>2. T!PageBefore(1) = [j \in 1 .. 0 |-> 1 + j - 1]
      BY <3>1 DEF T!PageBefore
    <3>3. T!PageBefore(1) = <<>>
      BY <3>2
    <3> HIDE DEF before
    <3>4. <<>> \in Seq(T!Messages)
      BY EmptySeq
    <3> QED BY <3>1, <3>3, <3>4
  <2>2. CASE r.kind # "list"
    <3>1. before \in 2 .. MaxLen + 1
      BY <1>3, <2>2
    <3> HIDE DEF before
    <3> QED BY <3>1, PageIs
  <2> QED BY <2>1, <2>2
<1> HIDE DEF before
<1>5. /\ g \in T!Reads /\ g.kind = r.kind /\ g.of = r.of /\ g.before = r.before /\ g.served
      /\ g.page = T!PageBefore(before)
  BY <1>1, <1>4 DEF T!Reads
<1> HIDE DEF g, r
<1>6. /\ pageReads' \in Seq(T!Reads) /\ Len(pageReads') = Len(pageReads) /\ DOMAIN pageReads' = DOMAIN pageReads /\ pageReads'[i] = g
      /\ \A k \in DOMAIN pageReads : k # i => pageReads'[k] = pageReads[k]
  BY <1>1, <1>2, <1>5, ExceptParts
<1>7. g \in ToSet(pageReads') /\ ToSet(pageReads') \subseteq ToSet(pageReads) \cup {g} /\ ToSet(pageReads) \subseteq ToSet(pageReads') \cup {r}
  BY <1>6 DEF ToSet, r
<1>8. T!TypeOK'
  BY <1>0, <1>1, <1>6 DEF T!TypeOK
<1>9. Sound'
  <2>1. g.kind # "list" => g.of \in Sessions
    BY <1>0, <1>1, <1>5 DEF Sound
  <2>2. g.kind = "older" => g.before > 1 /\ g.before <= MaxLen /\ g.page = T!PageBefore(g.before)
    BY <1>0, <1>1, <1>3, <1>5 DEF Sound
  <2>3. g.kind \in {"open", "warm", "tail"} =>
          \E b \in 2 .. MaxLen + 1 : b <= len[g.of] + 1 /\ g.page = T!PageBefore(b)
    <3> SUFFICES ASSUME g.kind \in {"open", "warm", "tail"}
                 PROVE  \E b \in 2 .. MaxLen + 1 : b <= len[g.of] + 1 /\ g.page = T!PageBefore(b)
      OBVIOUS
    <3>1. before \in 2 .. MaxLen + 1 /\ before = len[g.of] + 1
      BY <1>3, <1>5
    <3>2. before <= len[g.of] + 1
      BY <3>1, TranscriptsBounds
    <3> QED BY <1>5, <3>1, <3>2
  <2> QED BY <1>0, <1>5, <1>7, <2>1, <2>2, <2>3 DEF Sound
<1>10. Holding'
  <2>1. Loading'
    <3> SUFFICES ASSUME NEW s \in Sessions
                 PROVE  /\ paging[s].loadingOlder => \E q \in ToSet(pageReads') : q.kind = "older" /\ q.of = s
                        /\ s \in ToSet(recent) \ revived /\ ~paging[s].hydrated =>
                             \E q \in ToSet(pageReads') : q.kind = "open" /\ q.of = s
      BY <1>0 DEF Loading
    <3>1. ASSUME NEW q \in ToSet(pageReads)
          PROVE  \E x \in ToSet(pageReads') : x.kind = q.kind /\ x.of = q.of
      BY <1>5, <1>7
    <3> QED BY <1>0, <3>1 DEF Holding, Loading
  <2> QED BY <1>0, <1>1, <1>5, <1>7, <2>1 DEF Holding, T!Revived
<1>11. Once'
  <2>1. Single'
    <3>1. \A k \in DOMAIN pageReads : pageReads'[k].kind = pageReads[k].kind /\ pageReads'[k].of = pageReads[k].of
      BY <1>5, <1>6 DEF r
    <3> QED BY <1>0, <1>6, <3>1 DEF Once, Single, SameWait
  <2> QED BY <1>0, <1>1, <1>5, <1>7, <2>1 DEF Once
<1>12. ASSUME NEW s \in Sessions, NEW m \in 1 .. len[s], NEW q \in ToSet(pageReads), q.of = s
       PROVE  /\ q.kind = "list" => \E x \in ToSet(pageReads') : x.kind = "list"
              /\ q.kind \in {"open", "warm", "tail"} /\ (q.served => m \in ToSet(q.page)) /\ m = len[s] =>
                   \E x \in ToSet(pageReads') : /\ x.of = s /\ x.kind \in {"open", "warm", "tail"}
                                                /\ m \in ToSet(x.page) \/ ~x.served
              /\ q.kind = "open" /\ (q.served => \E n \in ToSet(q.page) : m <= n) =>
                   \E x \in ToSet(pageReads') : /\ x.of = s /\ x.kind = "open"
                                                /\ x.served => \E n \in ToSet(x.page) : m <= n
  <2>1. CASE q # r
    BY <1>7, <1>12, <2>1
  <2>2. CASE q = r
    <3>1. /\ g \in ToSet(pageReads') /\ g.kind = q.kind /\ g.of = s /\ g.page = T!PageBefore(before)
      BY <1>5, <1>7, <1>12, <2>2
    <3>2. q.kind \in {"open", "warm", "tail"} => before = len[s] + 1 /\ before \in 2 .. MaxLen + 1
      BY <1>3, <1>12, <2>2
    <3>3. q.kind \in {"open", "warm", "tail"} => len[s] \in ToSet(g.page)
      <4> SUFFICES ASSUME q.kind \in {"open", "warm", "tail"} PROVE len[s] \in ToSet(g.page)
        OBVIOUS
      <4>1. before - 1 \in ToSet(T!PageBefore(before))
        BY <3>2, PageIs
      <4>2. len[s] \in Nat
        BY <1>0, TranscriptsBounds DEF T!TypeOK
      <4> QED BY <3>1, <3>2, <4>1, <4>2
    <3>4. m <= len[s]
      BY <1>0, TranscriptsBounds DEF T!TypeOK
    <3> QED BY <3>1, <3>3, <3>4
  <2> QED BY <2>1, <2>2
<1>13. \A s \in Sessions : len[s] \in 1 .. len[s]
  BY <1>0, TranscriptsBounds DEF T!TypeOK, Sound
<1>14. ToSet(recent) \subseteq Sessions
  BY <1>0, Typing
<1>15. Comes'
  <2> SUFFICES ASSUME NEW s \in ToSet(recent) \ unread
               PROVE  len[s] \in ToSet(rows[s]) \/ Fetched(s, len[s])' \/ Announced(s, len[s])' \/ ReadAgain'
    BY <1>0 DEF Comes
  <2>1. Fetched(s, len[s]) => Fetched(s, len[s])'
    BY <1>0, <1>12, <1>13, <1>14 DEF Fetched
  <2>2. Announced(s, len[s]) => Announced(s, len[s])'
    BY <1>0 DEF Announced, T!Event
  <2>3. ReadAgain => ReadAgain'
    BY <1>0, <1>5, <1>7 DEF ReadAgain
  <2> QED BY <1>0, <2>1, <2>2, <2>3 DEF Comes
<1>16. Scrolls'
  <2> SUFFICES ASSUME pageFaults = 0, NEW s \in ToSet(recent) \ revived, NEW m \in 1 .. len[s]
               PROVE  m \in ToSet(rows[s]) \/ m < paging[s].cursor \/ Announced(s, m)' \/ First(s, m)'
    BY <1>0 DEF Scrolls
  <2>1. First(s, m) => First(s, m)'
    BY <1>0, <1>12, <1>14 DEF First
  <2>2. Announced(s, m) => Announced(s, m)'
    BY <1>0 DEF Announced, T!Event
  <2> QED BY <1>0, <2>1, <2>2 DEF Scrolls
<1> QED
  BY <1>8, <1>9, <1>10, <1>11, <1>15, <1>16 DEF Paged

\* The tails asked: one for each transcript kept.
LEMMA TailsAre ==
  ASSUME T!TypeOK
  PROVE  /\ T!Tails \in Seq(T!Reads) /\ ToSet(T!Tails) = {T!Read("tail", s, 0) : s \in ToSet(recent)}
         /\ \A r \in ToSet(T!Tails) : /\ r \in T!Reads /\ r.kind = "tail" /\ ~r.served
                                      /\ r.of \in Sessions
         /\ \A j \in DOMAIN T!Tails : T!Tails[j] \in ToSet(T!Tails)
<1>1. recent \in Seq(Sessions) /\ DOMAIN recent = 1 .. Len(recent) /\ Len(recent) \in Nat
      /\ \A i \in DOMAIN recent : recent[i] \in Sessions
  BY Typing, LenProperties, ElementOfSeq
<1>2. \A s \in Sessions : /\ T!Read("tail", s, 0) \in T!Reads /\ T!Read("tail", s, 0).kind = "tail"
                          /\ T!Read("tail", s, 0).of = s /\ ~T!Read("tail", s, 0).served
  <2>1. "tail" \in T!Kinds /\ 0 \in 0 .. MaxLen
    BY TranscriptsBounds DEF T!Kinds
  <2> QED BY <2>1, ReadIs
<1>3. T!Tails \in [1 .. Len(recent) -> T!Reads] /\ \A i \in DOMAIN recent : T!Tails[i] = T!Read("tail", recent[i], 0)
  BY <1>1, <1>2 DEF T!Tails
<1>4. T!Tails \in Seq(T!Reads) /\ DOMAIN T!Tails = DOMAIN recent
  BY <1>1, <1>3, SeqDef
<1>5. ToSet(T!Tails) = {T!Read("tail", s, 0) : s \in ToSet(recent)}
  BY <1>3, <1>4 DEF ToSet
<1>6. ToSet(recent) \subseteq Sessions
  BY Typing
<1> QED
  BY <1>2, <1>4, <1>5, <1>6, SetTyped

\* What is left of the reads waits as it did.
LEMMA LeftSingle ==
  ASSUME T!TypeOK, Once, NEW i \in DOMAIN pageReads
  PROVE  /\ \A j, k \in DOMAIN RemoveAt(pageReads, i) :
              SameWait(RemoveAt(pageReads, i)[j], RemoveAt(pageReads, i)[k]) => j = k
         /\ \A r \in ToSet(RemoveAt(pageReads, i)) : ~SameWait(r, pageReads[i])
<1> DEFINE kept == RemoveAt(pageReads, i)
<1>1. ASSUME NEW j \in DOMAIN kept, NEW k \in DOMAIN kept
      PROVE  \E a, b \in DOMAIN pageReads \ {i} : pageReads[a] = kept[j] /\ pageReads[b] = kept[k] /\ (a = b => j = k)
  BY ReadOver
<1> HIDE DEF kept
<1>2. ASSUME NEW j \in DOMAIN kept, NEW k \in DOMAIN kept, SameWait(kept[j], kept[k]) PROVE j = k
  <2>1. PICK a \in DOMAIN pageReads \ {i}, b \in DOMAIN pageReads \ {i} :
          pageReads[a] = kept[j] /\ pageReads[b] = kept[k] /\ (a = b => j = k)
    BY <1>1
  <2>2. SameWait(pageReads[a], pageReads[b])
    BY <1>2, <2>1
  <2>3. a = b
    BY <2>2 DEF Once, Single
  <2> QED BY <2>1, <2>3
<1>3. ASSUME NEW j \in DOMAIN kept, SameWait(kept[j], pageReads[i]) PROVE FALSE
  <2>1. PICK a \in DOMAIN pageReads \ {i}, b \in DOMAIN pageReads \ {i} :
          pageReads[a] = kept[j] /\ pageReads[b] = kept[j] /\ (a = b => j = j)
    BY <1>1
  <2>2. SameWait(pageReads[a], pageReads[i])
    BY <1>3, <2>1
  <2> QED BY <2>2 DEF Once, Single
<1> QED
  BY <1>2, <1>3 DEF kept, ToSet

\* Nothing the list's answer sets: every transcript kept is read again.
LEMMA TailsKeep ==
  ASSUME Paged, NEW i \in DOMAIN pageReads, pageReads[i].kind = "list",
         T!Ask(RemoveAt(pageReads, i), T!Tails),
         UNCHANGED <<recent, held, rows, paging, opening, settling, len, pageBus, up, commands, unread, revived>>,
         pageFaults' \in 0 .. MaxFaults, pageFaults' = 0 => pageFaults = 0
  PROVE  Paged'
<1> DEFINE kept == RemoveAt(pageReads, i)
<1>0. /\ T!TypeOK /\ Sound /\ Holding /\ Once /\ Comes /\ Scrolls
      /\ T!Tails \in Seq(T!Reads) /\ pageReads' = kept \o T!Tails /\ Len(kept) + Len(T!Tails) <= MaxReads
  BY TailsAre DEF Paged, T!Ask
<1>1. /\ pageReads[i] \in T!Reads /\ pageReads[i] \in ToSet(pageReads) /\ kept \in Seq(T!Reads)
      /\ ToSet(kept) \subseteq ToSet(pageReads) /\ ToSet(pageReads) \subseteq ToSet(kept) \cup {pageReads[i]}
      /\ \A j, k \in DOMAIN kept : \E a, b \in DOMAIN pageReads \ {i} :
           pageReads[a] = kept[j] /\ pageReads[b] = kept[k] /\ (a = b => j = k)
  BY <1>0, ReadOver
<1> HIDE DEF kept
<1>2. /\ pageReads' \in Seq(T!Reads) /\ Len(pageReads') <= MaxReads /\ ToSet(pageReads') = ToSet(kept) \cup ToSet(T!Tails)
      /\ \A j \in DOMAIN pageReads' : \/ j \in DOMAIN kept /\ pageReads'[j] = kept[j]
                                      \/ pageReads'[j] \in ToSet(T!Tails)
  <2>1. /\ kept \o T!Tails \in Seq(T!Reads) /\ Len(kept \o T!Tails) = Len(kept) + Len(T!Tails)
        /\ DOMAIN kept = 1 .. Len(kept) /\ DOMAIN T!Tails = 1 .. Len(T!Tails)
        /\ \A j \in 1 .. Len(kept) : (kept \o T!Tails)[j] = kept[j]
        /\ \A j \in DOMAIN (kept \o T!Tails) :
             \/ j \in 1 .. Len(kept)
             \/ j - Len(kept) \in 1 .. Len(T!Tails) /\ (kept \o T!Tails)[j] = T!Tails[j - Len(kept)]
        /\ ToSet(kept \o T!Tails) = ToSet(kept) \cup ToSet(T!Tails)
    BY <1>0, <1>1, ConcatParts
  <2>2. \A j \in DOMAIN T!Tails : T!Tails[j] \in ToSet(T!Tails)
    BY <1>0, TailsAre
  <2> QED BY <1>0, <2>1, <2>2
<1>3. /\ ToSet(T!Tails) = {T!Read("tail", s, 0) : s \in ToSet(recent)}
      /\ \A r \in ToSet(T!Tails) : r \in T!Reads /\ r.kind = "tail" /\ ~r.served /\ r.of \in Sessions
  BY <1>0, TailsAre
<1>4. T!TypeOK'
  BY <1>0, <1>2 DEF T!TypeOK
<1>5. Sound'
  BY <1>0, <1>1, <1>2, <1>3 DEF Sound
<1>6. Holding'
  <2>1. \A r \in ToSet(pageReads) : r.kind # "list" => r \in ToSet(pageReads')
    BY <1>1, <1>2
  <2>2. Loading'
    BY <1>0, <2>1 DEF Holding, Loading
  <2> QED BY <1>0, <1>1, <1>2, <1>3, <2>2 DEF Holding, T!Revived
<1>7. Once'
  <2>0. \A j, k \in DOMAIN kept : SameWait(kept[j], kept[k]) => j = k
    BY <1>0, LeftSingle DEF kept
  <2>1. Single'
    <3> SUFFICES ASSUME NEW j \in DOMAIN pageReads', NEW k \in DOMAIN pageReads', SameWait(pageReads[j], pageReads[k])'
                 PROVE  j = k
      BY DEF Single
    <3>1. pageReads'[j].kind # "tail" /\ pageReads'[k].kind # "tail" /\ SameWait(pageReads'[j], pageReads'[k])
      BY DEF SameWait
    <3>2. j \in DOMAIN kept /\ k \in DOMAIN kept /\ pageReads'[j] = kept[j] /\ pageReads'[k] = kept[k]
      BY <1>2, <1>3, <3>1
    <3> QED BY <2>0, <3>1, <3>2
  <2> QED BY <1>0, <1>1, <1>2, <1>3, <2>1 DEF Once
<1>8. Comes'
  <2>1. \A s \in ToSet(recent) : /\ T!Read("tail", s, 0) \in ToSet(pageReads') /\ T!Read("tail", s, 0).kind = "tail"
                                 /\ T!Read("tail", s, 0).of = s /\ ~T!Read("tail", s, 0).served
    <3>1. \A s \in ToSet(recent) : T!Read("tail", s, 0) \in ToSet(pageReads')
      BY <1>2, <1>3
    <3> QED BY <3>1 DEF T!Read
  <2> QED BY <2>1 DEF Comes, Fetched
<1>9. Scrolls'
  BY <1>0, <1>1, <1>2 DEF Scrolls, Announced, First, T!Event
<1> QED
  BY <1>4, <1>5, <1>6, <1>7, <1>8, <1>9 DEF Paged

\* The rows of a session, put anew.
LEMMA PutIs ==
  ASSUME T!TypeOK, NEW s \in Sessions, NEW new \in Seq(T!Messages), IsInjective(new), T!Put(s, new)
  PROVE  /\ rows' \in [Sessions -> Seq(T!Messages)] /\ held' \subseteq Sessions
         /\ \A t \in Sessions : IsInjective(rows'[t]) /\ (t \notin held' => rows'[t] = <<>>)
         /\ rows'[s] = new /\ \A t \in Sessions : t # s => rows'[t] = rows[t]
BY PageNames DEF T!Put, T!TypeOK

\* The first page is in.
LEMMA OpenBackKeeps ==
  ASSUME Paged, NEW i \in DOMAIN pageReads, T!OpenBack(i)
  PROVE  Paged'
<1> DEFINE kept == RemoveAt(pageReads, i)
           r == pageReads[i]
           s == r.of
           page == r.page
           new == T!MergeProjection(page, rows[s])
           p == [paging[s] EXCEPT !.cursor = T!Cursor(page), !.hydrated = TRUE]
<1>0. /\ T!TypeOK /\ Sound /\ Holding /\ Once /\ Comes /\ Scrolls
      /\ UNCHANGED <<recent, settling, len, pageBus, up, commands, pageFaults, unread, revived>>
      /\ r.kind = "open" /\ r.served /\ T!Put(s, new) /\ paging' = [paging EXCEPT ![s] = p]
      /\ opening' = opening \ {s} /\ T!Ask(kept, <<>>)
  BY PageNames DEF Paged, T!OpenBack, T!SetPaging
<1>1. /\ r \in T!Reads /\ r \in ToSet(pageReads) /\ kept \in Seq(T!Reads) /\ Len(kept) <= MaxReads
      /\ ToSet(kept) \subseteq ToSet(pageReads) /\ ToSet(pageReads) \subseteq ToSet(kept) \cup {r}
  BY <1>0, ReadOver
<1>2. pageReads' = kept
  BY <1>0, <1>1, AskNone
<1>3. /\ \A j, k \in DOMAIN kept : SameWait(kept[j], kept[k]) => j = k
      /\ \A q \in ToSet(kept) : ~SameWait(q, r)
  BY <1>0, LeftSingle
<1>4. s \in Sessions /\ \E b \in 2 .. MaxLen + 1 : b <= len[s] + 1 /\ page = T!PageBefore(b)
  BY <1>0, <1>1 DEF Sound
<1>5. PICK b \in 2 .. MaxLen + 1 : b <= len[s] + 1 /\ page = T!PageBefore(b)
  BY <1>4
<1>6. /\ page \in Seq(T!Messages) /\ IsInjective(page) /\ \A m \in ToSet(page) : m < b
      /\ T!Cursor(page) \in 0 .. MaxLen /\ T!Cursor(page) # 1
      /\ \A m \in 1 .. b - 1 : m \in ToSet(page) \/ m < T!Cursor(page)
  BY <1>5, PageIs
<1>7. rows[s] \in Seq(T!Messages) /\ IsInjective(rows[s])
  BY <1>0, <1>4, PageNames DEF T!TypeOK
<1>8. /\ new \in Seq(T!Messages) /\ IsInjective(new) /\ ToSet(new) = ToSet(rows[s]) \cup ToSet(page)
  BY <1>6, <1>7, MissingAdds
<1> HIDE DEF new, kept
<1>9. /\ rows' \in [Sessions -> Seq(T!Messages)] /\ held' \subseteq Sessions
      /\ \A t \in Sessions : IsInjective(rows'[t]) /\ (t \notin held' => rows'[t] = <<>>)
      /\ rows'[s] = new /\ \A t \in Sessions : t # s => rows'[t] = rows[t]
      /\ held' = held \cup {s}
  BY <1>0, <1>4, <1>8, PutIs DEF T!Put
<1>10. /\ paging' \in [Sessions -> T!Paging] /\ \A t \in Sessions : t # s => paging'[t] = paging[t]
       /\ paging'[s].cursor = T!Cursor(page) /\ paging'[s].hydrated
       /\ paging'[s].loadingOlder = paging[s].loadingOlder
  <2>1. paging \in [Sessions -> T!Paging] /\ paging[s] \in T!Paging
    BY <1>0, <1>4 DEF T!TypeOK
  <2>2. p \in T!Paging /\ p.cursor = T!Cursor(page) /\ p.hydrated /\ p.loadingOlder = paging[s].loadingOlder
    BY <1>6, <2>1 DEF T!Paging
  <2> HIDE DEF p
  <2> QED BY <1>0, <1>4, <2>1, <2>2
<1> HIDE DEF r, p, page, s
<1>11. T!TypeOK'
  BY <1>0, <1>1, <1>2, <1>9, <1>10, PageNames DEF T!TypeOK
<1>12. Sound'
  BY <1>0, <1>1, <1>2, <1>4, <1>6, <1>10 DEF Sound
<1>13. Holding'
  <2>1. s \in ToSet(recent) \cup revived
    BY <1>0, <1>1 DEF Holding, s
  <2>2. Loading'
    BY <1>0, <1>1, <1>2, <1>4, <1>10 DEF Holding, Loading, s
  <2> QED BY <1>0, <1>1, <1>2, <1>4, <1>9, <1>10, <2>1, <2>2 DEF Holding, T!Revived
<1>14. \A q \in ToSet(kept) : q.kind \in {"open", "warm"} => q.of # s
  BY <1>0, <1>3 DEF SameWait, s
<1>15. s \notin revived => paging[s].cursor = 0
  BY <1>0, <1>1 DEF Once, s
<1>16. Once'
  <2>1. Single'
    BY <1>0, <1>2, <1>3 DEF Single, SameWait
  <2>2. \A q \in ToSet(kept) : q.kind \in {"open", "warm", "older"} => q.of \in Sessions
    BY <1>0, <1>1 DEF Sound
  <2>3. \A q \in ToSet(kept) : q.kind = "older" /\ q.of \notin revived => q.of # s
    <3> SUFFICES ASSUME NEW q \in ToSet(kept), q.kind = "older", q.of \notin revived, q.of = s PROVE FALSE
      OBVIOUS
    <3>1. paging[s].cursor = q.before /\ q.before > 1
      BY <1>0, <1>1 DEF Once, Sound
    <3> QED BY <1>15, <3>1
  <2> QED BY <1>0, <1>1, <1>2, <1>10, <1>14, <2>1, <2>2, <2>3 DEF Once
<1>17. ToSet(recent) \subseteq Sessions
  BY <1>0, Typing
<1>18. \A t \in Sessions : ToSet(rows[t]) \subseteq ToSet(rows'[t])
  BY <1>8, <1>9
<1>19. Comes'
  <2> SUFFICES ASSUME NEW t \in ToSet(recent) \ unread
               PROVE  len[t] \in ToSet(rows'[t]) \/ Fetched(t, len[t])' \/ Announced(t, len[t])' \/ ReadAgain'
    BY <1>0 DEF Comes
  <2>1. Fetched(t, len[t]) => Fetched(t, len[t])' \/ len[t] \in ToSet(rows'[t])
    BY <1>0, <1>1, <1>2, <1>8, <1>9 DEF Fetched, s, page
  <2>2. Announced(t, len[t]) => Announced(t, len[t])'
    BY <1>0 DEF Announced, T!Event
  <2>3. ReadAgain => ReadAgain'
    BY <1>0, <1>1, <1>2 DEF ReadAgain
  <2> QED BY <1>0, <1>17, <1>18, <2>1, <2>2, <2>3 DEF Comes
<1>20. Scrolls'
  <2> SUFFICES ASSUME pageFaults = 0, NEW t \in ToSet(recent) \ revived, NEW m \in 1 .. len[t]
               PROVE  m \in ToSet(rows'[t]) \/ m < paging'[t].cursor \/ Announced(t, m)' \/ First(t, m)'
    BY <1>0 DEF Scrolls
  <2>1. First(t, m) => First(t, m)' \/ m \in ToSet(rows'[t]) \/ m < paging'[t].cursor
    <3> SUFFICES ASSUME NEW q \in ToSet(pageReads), q.of = t, q.kind = "open",
                        q.served => \E n \in ToSet(q.page) : m <= n
                 PROVE  First(t, m)' \/ m \in ToSet(rows'[t]) \/ m < paging'[t].cursor
      BY DEF First
    <3>1. CASE q \in ToSet(kept)
      BY <1>2, <3>1 DEF First
    <3>2. CASE q = r
      <4>1. PICK n \in ToSet(page) : m <= n
        BY <1>0, <3>2 DEF page
      <4>2. n < b /\ n \in T!Messages /\ b \in Nat /\ t = s
        BY <1>6, <1>17, <3>2, <4>1, SetTyped DEF s
      <4>3. m \in Nat /\ m >= 1
        OBVIOUS
      <4>4. m \in 1 .. b - 1
        BY <4>1, <4>2, <4>3 DEF T!Messages
      <4> QED BY <1>6, <1>8, <1>9, <1>10, <4>2, <4>4
    <3> QED BY <1>1, <3>1, <3>2
  <2>2. Announced(t, m) => Announced(t, m)'
    BY <1>0 DEF Announced, T!Event
  <2>3. m < paging[t].cursor => m < paging'[t].cursor
    <3>1. t \in Sessions /\ m >= 1
      BY <1>17
    <3> QED BY <1>10, <1>15, <3>1
  <2> QED BY <1>0, <1>17, <1>18, <2>1, <2>2, <2>3 DEF Scrolls
<1> QED
  BY <1>11, <1>12, <1>13, <1>16, <1>19, <1>20 DEF Paged

\* An older page is in.
LEMMA OlderBackKeeps ==
  ASSUME Paged, NEW i \in DOMAIN pageReads, T!OlderBack(i)
  PROVE  Paged'
<1> DEFINE kept == RemoveAt(pageReads, i)
           r == pageReads[i]
           s == r.of
           page == r.page
           new == T!Missing(page, rows[s]) \o rows[s]
           p == [paging[s] EXCEPT !.cursor = T!Cursor(page), !.loadingOlder = FALSE]
           b == r.before
<1>0. /\ T!TypeOK /\ Sound /\ Holding /\ Once /\ Comes /\ Scrolls
      /\ UNCHANGED <<recent, opening, settling, len, pageBus, up, commands, pageFaults, unread, revived>>
      /\ r.kind = "older" /\ r.served /\ T!Put(s, new) /\ paging' = [paging EXCEPT ![s] = p]
      /\ T!Ask(kept, <<>>)
  BY PageNames DEF Paged, T!OlderBack, T!SetPaging
<1>1. /\ r \in T!Reads /\ r \in ToSet(pageReads) /\ kept \in Seq(T!Reads) /\ Len(kept) <= MaxReads
      /\ ToSet(kept) \subseteq ToSet(pageReads) /\ ToSet(pageReads) \subseteq ToSet(kept) \cup {r}
  BY <1>0, ReadOver
<1>2. pageReads' = kept
  BY <1>0, <1>1, AskNone
<1>3. /\ \A j, k \in DOMAIN kept : SameWait(kept[j], kept[k]) => j = k
      /\ \A q \in ToSet(kept) : ~SameWait(q, r)
  BY <1>0, LeftSingle
<1>4. s \in Sessions /\ b > 1 /\ b <= MaxLen /\ page = T!PageBefore(b)
  BY <1>0, <1>1 DEF Sound
<1>5. b \in 2 .. MaxLen + 1
  <2>1. b \in 0 .. MaxLen + 1 /\ MaxLen \in Nat
    BY <1>1, TranscriptsBounds DEF T!Reads
  <2> HIDE DEF b
  <2> QED BY <1>4, <2>1
<1>6. /\ page \in Seq(T!Messages) /\ IsInjective(page)
      /\ T!Cursor(page) \in 0 .. MaxLen /\ T!Cursor(page) # 1
      /\ \A m \in 1 .. b - 1 : m \in ToSet(page) \/ m < T!Cursor(page)
  BY <1>4, <1>5, PageIs
<1>7. rows[s] \in Seq(T!Messages) /\ IsInjective(rows[s])
  BY <1>0, <1>4, PageNames DEF T!TypeOK
<1>8. /\ new \in Seq(T!Messages) /\ IsInjective(new) /\ ToSet(new) = ToSet(rows[s]) \cup ToSet(page)
  BY <1>6, <1>7, MissingAdds
<1> HIDE DEF new, kept
<1>9. /\ rows' \in [Sessions -> Seq(T!Messages)] /\ held' \subseteq Sessions
      /\ \A t \in Sessions : IsInjective(rows'[t]) /\ (t \notin held' => rows'[t] = <<>>)
      /\ rows'[s] = new /\ \A t \in Sessions : t # s => rows'[t] = rows[t]
      /\ held' = held \cup {s}
  BY <1>0, <1>4, <1>8, PutIs DEF T!Put
<1>10. /\ paging' \in [Sessions -> T!Paging] /\ \A t \in Sessions : t # s => paging'[t] = paging[t]
       /\ paging'[s].cursor = T!Cursor(page) /\ paging'[s].hydrated = paging[s].hydrated
       /\ ~paging'[s].loadingOlder
  <2>1. paging \in [Sessions -> T!Paging] /\ paging[s] \in T!Paging
    BY <1>0, <1>4 DEF T!TypeOK
  <2>2. p \in T!Paging /\ p.cursor = T!Cursor(page) /\ p.hydrated = paging[s].hydrated /\ ~p.loadingOlder
    BY <1>6, <2>1 DEF T!Paging
  <2> HIDE DEF p
  <2> QED BY <1>0, <1>4, <2>1, <2>2
<1> HIDE DEF r, p, page, s, b
<1>11. T!TypeOK'
  BY <1>0, <1>1, <1>2, <1>9, <1>10, PageNames DEF T!TypeOK
<1>12. Sound'
  BY <1>0, <1>1, <1>2, <1>4, <1>6, <1>10 DEF Sound
<1>13. Holding'
  <2>1. s \in ToSet(recent) \cup revived
    BY <1>0, <1>1 DEF Holding, s
  <2>2. Loading'
    BY <1>0, <1>1, <1>2, <1>4, <1>10 DEF Holding, Loading, s
  <2> QED BY <1>0, <1>1, <1>2, <1>4, <1>9, <1>10, <2>1, <2>2 DEF Holding, T!Revived
<1>14. s \notin revived => /\ \A q \in ToSet(kept) : q.kind = "older" => q.of # s
                           /\ paging[s].cursor = b
  <2>1. s \notin revived => \A q \in ToSet(kept) : q.kind = "older" => q.of # s
    BY <1>0, <1>3 DEF SameWait, s
  <2>2. s \notin revived => paging[s].cursor = b
    BY <1>0, <1>1 DEF Once, s, b
  <2> QED BY <2>1, <2>2
<1>15. Once'
  <2>1. Single'
    BY <1>0, <1>2, <1>3 DEF Single, SameWait
  <2>2. \A q \in ToSet(kept) : q.kind \in {"open", "warm", "older"} => q.of \in Sessions
    BY <1>0, <1>1 DEF Sound
  <2>3. \A q \in ToSet(kept) : q.kind = "open" /\ q.of \notin revived => q.of # s
    <3> SUFFICES ASSUME NEW q \in ToSet(kept), q.kind = "open", q.of \notin revived, q.of = s PROVE FALSE
      OBVIOUS
    <3>1. paging[s].cursor = 0
      BY <1>0, <1>1 DEF Once
    <3> QED BY <1>4, <1>14, <3>1
  <2> QED BY <1>0, <1>1, <1>2, <1>10, <1>14, <2>1, <2>2, <2>3 DEF Once
<1>17. ToSet(recent) \subseteq Sessions
  BY <1>0, Typing
<1>18. \A t \in Sessions : ToSet(rows[t]) \subseteq ToSet(rows'[t])
  BY <1>8, <1>9
<1>19. Comes'
  <2> SUFFICES ASSUME NEW t \in ToSet(recent) \ unread
               PROVE  len[t] \in ToSet(rows'[t]) \/ Fetched(t, len[t])' \/ Announced(t, len[t])' \/ ReadAgain'
    BY <1>0 DEF Comes
  <2>1. Fetched(t, len[t]) => Fetched(t, len[t])'
    BY <1>0, <1>1, <1>2 DEF Fetched
  <2>2. Announced(t, len[t]) => Announced(t, len[t])'
    BY <1>0 DEF Announced, T!Event
  <2>3. ReadAgain => ReadAgain'
    BY <1>0, <1>1, <1>2 DEF ReadAgain
  <2> QED BY <1>0, <1>17, <1>18, <2>1, <2>2, <2>3 DEF Comes
<1>20. Scrolls'
  <2> SUFFICES ASSUME pageFaults = 0, NEW t \in ToSet(recent) \ revived, NEW m \in 1 .. len[t]
               PROVE  m \in ToSet(rows'[t]) \/ m < paging'[t].cursor \/ Announced(t, m)' \/ First(t, m)'
    BY <1>0 DEF Scrolls
  <2>1. First(t, m) => First(t, m)'
    BY <1>0, <1>1, <1>2 DEF First
  <2>2. Announced(t, m) => Announced(t, m)'
    BY <1>0 DEF Announced, T!Event
  <2>3. m < paging[t].cursor => m \in ToSet(rows'[t]) \/ m < paging'[t].cursor
    <3>1. t \in Sessions /\ m >= 1 /\ m \in Nat
      BY <1>17
    <3>2. CASE t # s
      BY <1>10, <3>1, <3>2
    <3>3. CASE t = s
      <4> SUFFICES ASSUME m < paging[t].cursor PROVE m \in ToSet(rows'[t]) \/ m < paging'[t].cursor
        OBVIOUS
      <4>1. m \in 1 .. b - 1
        BY <1>5, <1>14, <3>1, <3>3
      <4> QED BY <1>6, <1>8, <1>9, <1>10, <3>3, <4>1
    <3> QED BY <3>2, <3>3
  <2> QED BY <1>0, <1>17, <1>18, <2>1, <2>2, <2>3 DEF Scrolls
<1> QED
  BY <1>11, <1>12, <1>13, <1>15, <1>19, <1>20 DEF Paged

\* The newest page is in again.
LEMMA TailBackKeeps ==
  ASSUME Paged, NEW i \in DOMAIN pageReads, T!TailBack(i)
  PROVE  Paged'
<1> DEFINE kept == RemoveAt(pageReads, i)
           r == pageReads[i]
           s == r.of
           page == r.page
           new == T!MergeProjection(rows[s], page)
<1>0. /\ T!TypeOK /\ Sound /\ Holding /\ Once /\ Comes /\ Scrolls
      /\ UNCHANGED <<recent, paging, settling, len, pageBus, up, commands, pageFaults, unread, revived>>
      /\ r.kind \in {"warm", "tail"} /\ r.served
      /\ IF s \in held THEN T!Put(s, new) ELSE UNCHANGED <<rows, held>>
      /\ opening' = IF r.kind = "warm" THEN opening \ {s} ELSE opening
      /\ T!Ask(kept, <<>>)
  BY PageNames DEF Paged, T!TailBack
<1>1. /\ r \in T!Reads /\ r \in ToSet(pageReads) /\ kept \in Seq(T!Reads) /\ Len(kept) <= MaxReads
      /\ ToSet(kept) \subseteq ToSet(pageReads) /\ ToSet(pageReads) \subseteq ToSet(kept) \cup {r}
  BY <1>0, ReadOver
<1>2. pageReads' = kept
  BY <1>0, <1>1, AskNone
<1>3. /\ \A j, k \in DOMAIN kept : SameWait(kept[j], kept[k]) => j = k
      /\ \A q \in ToSet(kept) : ~SameWait(q, r)
  BY <1>0, LeftSingle
<1>4. s \in Sessions /\ \E b \in 2 .. MaxLen + 1 : b <= len[s] + 1 /\ page = T!PageBefore(b)
  BY <1>0, <1>1 DEF Sound
<1>5. page \in Seq(T!Messages) /\ IsInjective(page)
  BY <1>4, PageIs
<1>6. rows[s] \in Seq(T!Messages) /\ IsInjective(rows[s])
  BY <1>0, <1>4, PageNames DEF T!TypeOK
<1>7. /\ new \in Seq(T!Messages) /\ IsInjective(new) /\ ToSet(new) = ToSet(rows[s]) \cup ToSet(page)
  BY <1>5, <1>6, MissingAdds
<1> HIDE DEF new, kept
<1>8. /\ rows' \in [Sessions -> Seq(T!Messages)] /\ held' = held
      /\ \A t \in Sessions : IsInjective(rows'[t]) /\ (t \notin held' => rows'[t] = <<>>)
      /\ \A t \in Sessions : ToSet(rows[t]) \subseteq ToSet(rows'[t])
      /\ s \in held => ToSet(page) \subseteq ToSet(rows'[s])
  <2>1. CASE s \in held
    <3>1. T!Put(s, new)
      BY <1>0, <2>1
    <3>2. /\ rows' \in [Sessions -> Seq(T!Messages)]
          /\ \A t \in Sessions : IsInjective(rows'[t]) /\ (t \notin held' => rows'[t] = <<>>)
          /\ rows'[s] = new /\ \A t \in Sessions : t # s => rows'[t] = rows[t]
      BY <1>0, <1>4, <1>7, <3>1, PutIs
    <3>3. held' = held
      BY <2>1, <3>1 DEF T!Put
    <3> QED BY <1>7, <3>2, <3>3
  <2>2. CASE s \notin held
    BY <1>0, <2>2, PageNames DEF T!TypeOK
  <2> QED BY <2>1, <2>2
<1> HIDE DEF r, page, s
<1>9. T!TypeOK'
  BY <1>0, <1>1, <1>2, <1>8, PageNames DEF T!TypeOK
<1>10. Sound'
  BY <1>0, <1>1, <1>2 DEF Sound
<1>11. Holding'
  <2>1. \A q \in ToSet(pageReads) : q.kind \in {"open", "older"} => q \in ToSet(kept)
    BY <1>0, <1>1
  <2>2. Loading'
    BY <1>0, <1>2, <2>1 DEF Holding, Loading
  <2> QED BY <1>0, <1>1, <1>2, <1>8, <2>2 DEF Holding, T!Revived
<1>12. Once'
  <2>1. Single'
    BY <1>0, <1>2, <1>3 DEF Single, SameWait
  <2>2. \A q \in ToSet(kept) : q.kind \in {"open", "warm"} /\ r.kind = "warm" => q.of # s
    BY <1>3 DEF SameWait, s
  <2> QED BY <1>0, <1>1, <1>2, <2>1, <2>2 DEF Once
<1>13. ToSet(recent) \subseteq Sessions /\ ToSet(recent) \subseteq held
  BY <1>0, Typing DEF Holding
<1>14. Comes'
  <2> SUFFICES ASSUME NEW t \in ToSet(recent) \ unread
               PROVE  len[t] \in ToSet(rows'[t]) \/ Fetched(t, len[t])' \/ Announced(t, len[t])' \/ ReadAgain'
    BY <1>0 DEF Comes
  <2>1. Fetched(t, len[t]) => Fetched(t, len[t])' \/ len[t] \in ToSet(rows'[t])
    BY <1>0, <1>1, <1>2, <1>8, <1>13 DEF Fetched, s, page
  <2>2. Announced(t, len[t]) => Announced(t, len[t])'
    BY <1>0 DEF Announced, T!Event
  <2>3. ReadAgain => ReadAgain'
    BY <1>0, <1>1, <1>2 DEF ReadAgain
  <2> QED BY <1>0, <1>8, <1>13, <2>1, <2>2, <2>3 DEF Comes
<1>15. Scrolls'
  <2> SUFFICES ASSUME pageFaults = 0, NEW t \in ToSet(recent) \ revived, NEW m \in 1 .. len[t]
               PROVE  m \in ToSet(rows'[t]) \/ m < paging[t].cursor \/ Announced(t, m)' \/ First(t, m)'
    BY <1>0 DEF Scrolls
  <2>1. First(t, m) => First(t, m)'
    BY <1>0, <1>1, <1>2 DEF First
  <2>2. Announced(t, m) => Announced(t, m)'
    BY <1>0 DEF Announced, T!Event
  <2> QED BY <1>0, <1>8, <1>13, <2>1, <2>2 DEF Scrolls
<1> QED
  BY <1>9, <1>10, <1>11, <1>12, <1>14, <1>15 DEF Paged

\* The list is in.
LEMMA ListBackKeeps ==
  ASSUME Paged, NEW i \in DOMAIN pageReads, T!ListBack(i)
  PROVE  Paged'
<1>1. /\ pageReads[i].kind = "list" /\ T!Ask(RemoveAt(pageReads, i), T!Tails)
      /\ UNCHANGED <<recent, held, rows, paging, opening, settling, len, pageBus, up, commands, unread, revived>>
      /\ pageFaults' = pageFaults
  BY PageNames DEF T!ListBack, T!clientVars
<1>2. pageFaults' \in 0 .. MaxFaults
  BY <1>1 DEF Paged, T!TypeOK
<1> QED
  BY <1>1, <1>2, TailsKeep

\* A read fails.
LEMMA ReadFailedKeeps ==
  ASSUME Paged, NEW i \in DOMAIN pageReads, T!ReadFailed(i)
  PROVE  Paged'
<1> DEFINE kept == RemoveAt(pageReads, i)
           r == pageReads[i]
           s == r.of
           p == [paging[s] EXCEPT !.hydrated = TRUE]
           q == [paging[s] EXCEPT !.loadingOlder = FALSE]
<1>0. /\ T!TypeOK /\ Sound /\ Holding /\ Once /\ Comes /\ Scrolls
      /\ UNCHANGED <<recent, held, rows, settling, len, pageBus, up, commands, revived>>
      /\ pageFaults < MaxFaults /\ pageFaults' = pageFaults + 1
      /\ CASE r.kind = "open" -> /\ paging' = [paging EXCEPT ![s] = p]
                                 /\ opening' = opening \ {s}
           [] r.kind = "warm" -> opening' = opening \ {s} /\ UNCHANGED paging
           [] r.kind = "older" -> /\ paging' = [paging EXCEPT ![s] = q]
                                  /\ UNCHANGED opening
           [] OTHER -> UNCHANGED <<opening, paging>>
      /\ T!Ask(kept, IF r.kind = "list" THEN T!Tails ELSE <<>>)
      /\ unread' = IF r.kind \in {"open", "warm", "tail"} THEN unread \cup {s} ELSE unread
  BY PageNames DEF Paged, T!ReadFailed, T!SetPaging, T!Fault
<1>1. pageFaults' \in 0 .. MaxFaults /\ pageFaults' # 0
  BY <1>0, TranscriptsBounds DEF T!TypeOK
<1>2. /\ r \in T!Reads /\ r \in ToSet(pageReads) /\ kept \in Seq(T!Reads) /\ Len(kept) <= MaxReads
      /\ ToSet(kept) \subseteq ToSet(pageReads) /\ ToSet(pageReads) \subseteq ToSet(kept) \cup {r}
  BY <1>0, ReadOver
<1>3. CASE r.kind = "list"
  <2>1. UNCHANGED <<opening, paging, unread>> /\ T!Ask(RemoveAt(pageReads, i), T!Tails)
    BY <1>0, <1>3
  <2> QED BY <1>0, <1>1, <1>3, <2>1, TailsKeep
<1>4. CASE r.kind # "list"
  <2>1. pageReads' = kept
    BY <1>0, <1>2, <1>4, AskNone
  <2>2. /\ \A j, k \in DOMAIN kept : SameWait(kept[j], kept[k]) => j = k
        /\ \A x \in ToSet(kept) : ~SameWait(x, r)
    BY <1>0, LeftSingle
  <2>3. s \in Sessions /\ r.kind \in {"open", "warm", "older", "tail"}
    BY <1>0, <1>2, <1>4 DEF Sound, T!Reads, T!Kinds
  <2>4. paging \in [Sessions -> T!Paging] /\ paging[s] \in T!Paging
    BY <1>0, <2>3 DEF T!TypeOK
  <2>5. /\ p \in T!Paging /\ p.cursor = paging[s].cursor /\ p.hydrated /\ p.loadingOlder = paging[s].loadingOlder
        /\ q \in T!Paging /\ q.cursor = paging[s].cursor /\ ~q.loadingOlder /\ q.hydrated = paging[s].hydrated
    BY <2>4 DEF T!Paging
  <2> HIDE DEF kept, p, q
  <2>6. /\ paging' \in [Sessions -> T!Paging] /\ \A t \in Sessions : t # s => paging'[t] = paging[t]
        /\ paging'[s].cursor = paging[s].cursor
        /\ r.kind # "open" => paging'[s].hydrated = paging[s].hydrated
        /\ r.kind = "open" => paging'[s].hydrated
        /\ r.kind # "older" => paging'[s].loadingOlder = paging[s].loadingOlder
        /\ r.kind = "older" => ~paging'[s].loadingOlder
        /\ r.kind \in {"warm", "tail"} => paging' = paging
        /\ opening' = IF r.kind \in {"open", "warm"} THEN opening \ {s} ELSE opening
    <3>1. CASE r.kind = "open"
      BY <1>0, <2>3, <2>4, <2>5, <3>1
    <3>2. CASE r.kind = "warm"
      BY <1>0, <2>3, <2>4, <3>2
    <3>3. CASE r.kind = "older"
      BY <1>0, <2>3, <2>4, <2>5, <3>3
    <3>4. CASE r.kind = "tail"
      BY <1>0, <2>3, <2>4, <3>4
    <3> QED BY <2>3, <3>1, <3>2, <3>3, <3>4
  <2> HIDE DEF r, s
  <2>7. T!TypeOK'
    BY <1>0, <1>1, <1>2, <2>1, <2>3, <2>6 DEF T!TypeOK
  <2>8. Sound'
    BY <1>0, <1>2, <2>1, <2>3, <2>6 DEF Sound
  <2>9. Holding'
    <3>1. Loading'
      BY <1>0, <1>2, <2>1, <2>3, <2>6 DEF Holding, Loading, s
    <3>2. r.kind \in {"open", "older"} => s \in ToSet(recent) \cup revived
      BY <1>0, <1>2 DEF Holding, s
    <3>3. \A t \in Sessions \ (ToSet(recent) \cup revived) : paging'[t] = paging[t]
      BY <2>3, <2>6, <3>2
    <3> QED BY <1>0, <1>2, <2>1, <2>3, <2>6, <3>1, <3>3 DEF Holding, T!Revived
  <2>10. Once'
    <3>1. Single'
      BY <1>0, <2>1, <2>2 DEF Single, SameWait
    <3>2. \A x \in ToSet(kept) : x.kind \in {"open", "warm", "older"} => x.of \in Sessions
      BY <1>0, <1>2 DEF Sound
    <3>3. \A x \in ToSet(kept) : r.kind \in {"open", "warm"} /\ x.kind \in {"open", "warm"} => x.of # s
      BY <2>2 DEF SameWait, s
    <3>4. \A x \in ToSet(kept) : r.kind = "older" /\ x.kind = "older" /\ x.of \notin revived => x.of # s
      BY <2>2 DEF SameWait, s
    <3>5. \A t \in Sessions : paging'[t].cursor = paging[t].cursor
      BY <2>3, <2>6
    <3>6. \A x \in ToSet(kept) : x.kind = "older" /\ x.of \notin revived => paging'[x.of].loadingOlder
      BY <1>0, <1>2, <2>3, <2>6, <3>2, <3>4 DEF Once
    <3> QED BY <1>0, <1>2, <2>1, <2>6, <3>1, <3>2, <3>3, <3>5, <3>6 DEF Once
  <2>11. Comes'
    <3> SUFFICES ASSUME NEW t \in ToSet(recent) \ unread'
                 PROVE  len[t] \in ToSet(rows[t]) \/ Fetched(t, len[t])' \/ Announced(t, len[t])' \/ ReadAgain'
      BY <1>0 DEF Comes
    <3>1. t \notin unread /\ (r.kind \in {"open", "warm", "tail"} => t # s)
      BY <1>0
    <3>2. Fetched(t, len[t]) => Fetched(t, len[t])'
      BY <1>0, <1>2, <2>1, <2>3, <3>1 DEF Fetched, s
    <3>3. Announced(t, len[t]) => Announced(t, len[t])'
      BY <1>0 DEF Announced, T!Event
    <3>4. ReadAgain => ReadAgain'
      BY <1>0, <1>2, <1>4, <2>1 DEF ReadAgain
    <3> QED BY <1>0, <3>1, <3>2, <3>3, <3>4 DEF Comes
  <2>12. Scrolls'
    BY <1>1 DEF Scrolls
  <2> QED BY <2>7, <2>8, <2>9, <2>10, <2>11, <2>12 DEF Paged
<1> QED
  BY <1>3, <1>4

\* An event is handled.
LEMMA OnEventKeeps ==
  ASSUME Paged, T!OnEvent
  PROVE  Paged'
<1> DEFINE e == Head(pageBus)
           s == e.of
           one == <<e.id>>
           new == rows[s] \o T!Missing(one, rows[s])
           l == T!Read("list", NoSession, 0)
<1>0. /\ T!TypeOK /\ Sound /\ Holding /\ Once /\ Comes /\ Scrolls
      /\ UNCHANGED <<recent, held, paging, opening, len, up, commands, pageFaults, unread, revived>>
      /\ pageBus # <<>> /\ pageBus' = Tail(pageBus)
      /\ IF e.type = "message" /\ s \in held THEN rows' = [rows EXCEPT ![s] = new] ELSE UNCHANGED rows
      /\ settling' = IF e.type = "ended" /\ s \in held THEN settling \cup {s} ELSE settling
      /\ T!Ask(pageReads, IF e.type = "connected" THEN <<l>> ELSE <<>>)
  BY DEF Paged, T!OnEvent
<1>1. /\ pageBus' \in Seq(T!Events) /\ ToSet(pageBus) = ToSet(pageBus') \cup {e} /\ e \in T!Events
  <2>1. pageBus \in Seq(T!Events)
    BY <1>0, Typing
  <2> QED BY <1>0, <2>1, TailSet, TailParts
<1>2. /\ e.type \in {"message", "ended"} => s \in Sessions
      /\ e.type = "message" => e.id \in T!Messages
  <2>1. e.type \in {"message", "ended"} => s \in Sessions
    BY <1>0, <1>1 DEF Sound
  <2>2. e.type = "message" => e.id > 0 /\ e.id \in 0 .. MaxLen /\ MaxLen \in Nat
    BY <1>0, <1>1, TranscriptsBounds DEF Sound, T!Events
  <2> HIDE DEF e
  <2> QED BY <2>1, <2>2 DEF T!Messages
<1> HIDE DEF l
<1>3. /\ pageReads' \in Seq(T!Reads) /\ Len(pageReads') <= MaxReads /\ ToSet(pageReads) \subseteq ToSet(pageReads')
      /\ \A r \in ToSet(pageReads') : r \in ToSet(pageReads) \/ r.kind = "list"
      /\ \A j \in DOMAIN pageReads' : (j \in DOMAIN pageReads /\ pageReads'[j] = pageReads[j]) \/ pageReads'[j].kind = "list"
      /\ e.type = "connected" => \E r \in ToSet(pageReads') : r.kind = "list"
  <2>1. pageReads \in Seq(T!Reads) /\ Len(pageReads) <= MaxReads
    BY <1>0 DEF T!TypeOK
  <2>2. CASE e.type = "connected"
    <3>1. l \in T!Reads /\ l.kind = "list"
      <4>1. "list" \in T!Kinds /\ NoSession \in Sessions \cup {NoSession} /\ 0 \in 0 .. MaxLen
        BY TranscriptsBounds DEF T!Kinds
      <4> QED BY <4>1, ReadIs DEF l
    <3>2. T!Ask(pageReads, <<l>>)
      BY <1>0, <2>2
    <3> QED BY <2>1, <3>1, <3>2, AskOne
  <2>3. CASE e.type # "connected"
    <3>1. T!Ask(pageReads, <<>>)
      BY <1>0, <2>3
    <3>2. pageReads' = pageReads
      BY <2>1, <3>1, AskNone
    <3> QED BY <2>1, <2>3, <3>2
  <2> QED BY <2>2, <2>3
<1>4. e.type = "message" => /\ rows[s] \in Seq(T!Messages) /\ new \in Seq(T!Messages) /\ IsInjective(new)
                            /\ ToSet(new) = ToSet(rows[s]) \cup {e.id}
  <2> SUFFICES ASSUME e.type = "message"
               PROVE  /\ rows[s] \in Seq(T!Messages) /\ new \in Seq(T!Messages) /\ IsInjective(new)
                      /\ ToSet(new) = ToSet(rows[s]) \cup {e.id}
    OBVIOUS
  <2>1. rows[s] \in Seq(T!Messages) /\ IsInjective(rows[s])
    BY <1>0, <1>2, PageNames DEF T!TypeOK
  <2>2. one \in Seq(T!Messages) /\ IsInjective(one) /\ ToSet(one) = {e.id}
    <3>1. one \in Seq(T!Messages) /\ ToSet(one) = {e.id} /\ DOMAIN one = {1}
      BY <1>2, OneSet
    <3> HIDE DEF one
    <3> QED BY <3>1 DEF IsInjective
  <2>3. new = T!MergeProjection(rows[s], one)
    BY DEF T!MergeProjection
  <2> HIDE DEF new, one
  <2> QED BY <2>1, <2>2, <2>3, MissingAdds
<1> HIDE DEF new, one
<1>5. /\ rows' \in [Sessions -> Seq(T!Messages)]
      /\ \A t \in Sessions : IsInjective(rows'[t]) /\ (t \notin held => rows'[t] = <<>>)
      /\ \A t \in Sessions : ToSet(rows[t]) \subseteq ToSet(rows'[t])
      /\ e.type = "message" /\ s \in held => e.id \in ToSet(rows'[s])
  <2>1. /\ rows \in [Sessions -> Seq(T!Messages)]
        /\ \A t \in Sessions : IsInjective(rows[t]) /\ (t \notin held => rows[t] = <<>>)
    BY <1>0, PageNames DEF T!TypeOK
  <2>2. CASE e.type = "message" /\ s \in held
    <3>1. /\ rows' \in [Sessions -> Seq(T!Messages)] /\ rows'[s] = new /\ \A t \in Sessions : t # s => rows'[t] = rows[t]
      BY <1>0, <1>2, <1>4, <2>1, <2>2
    <3> QED BY <1>4, <2>1, <2>2, <3>1
  <2>3. CASE ~(e.type = "message" /\ s \in held)
    BY <1>0, <2>1, <2>3
  <2> QED BY <2>2, <2>3
<1> HIDE DEF e, s
<1>6. T!TypeOK'
  BY <1>0, <1>1, <1>2, <1>3, <1>5, PageNames DEF T!TypeOK
<1>7. Sound'
  BY <1>0, <1>1, <1>3 DEF Sound
<1>8. Holding'
  BY <1>0, <1>3 DEF Holding, T!Revived, Loading
<1>9. Once'
  <2>1. Single'
    BY <1>0, <1>3 DEF Once, Single, SameWait
  <2> QED BY <1>0, <1>3, <2>1 DEF Once
<1>10. ToSet(recent) \subseteq Sessions /\ ToSet(recent) \subseteq held
  BY <1>0, Typing DEF Holding
<1>11. \A t \in ToSet(recent), m \in Nat : Announced(t, m) => Announced(t, m)' \/ m \in ToSet(rows'[t])
  <2> SUFFICES ASSUME NEW t \in ToSet(recent), NEW m \in Nat, T!Event("message", t, m) = e
               PROVE  m \in ToSet(rows'[t])
    BY <1>1 DEF Announced, T!Event
  <2>1. e.type = "message" /\ s = t /\ e.id = m
    BY DEF T!Event, s
  <2> QED BY <1>5, <1>10, <2>1
<1>12. \A t \in Sessions : len[t] \in Nat
  BY <1>0, TranscriptsBounds DEF T!TypeOK
<1>13. Comes'
  <2> SUFFICES ASSUME NEW t \in ToSet(recent) \ unread
               PROVE  len[t] \in ToSet(rows'[t]) \/ Fetched(t, len[t])' \/ Announced(t, len[t])' \/ ReadAgain'
    BY <1>0 DEF Comes
  <2>1. Fetched(t, len[t]) => Fetched(t, len[t])'
    BY <1>0, <1>3 DEF Fetched
  <2>2. Announced(t, len[t]) => Announced(t, len[t])' \/ len[t] \in ToSet(rows'[t])
    BY <1>0, <1>10, <1>11, <1>12 DEF Announced, T!Event
  <2>3. ReadAgain => ReadAgain'
    BY <1>0, <1>1, <1>3 DEF ReadAgain
  <2> QED BY <1>0, <1>5, <1>10, <2>1, <2>2, <2>3 DEF Comes
<1>14. Scrolls'
  <2> SUFFICES ASSUME pageFaults = 0, NEW t \in ToSet(recent) \ revived, NEW m \in 1 .. len[t]
               PROVE  m \in ToSet(rows'[t]) \/ m < paging[t].cursor \/ Announced(t, m)' \/ First(t, m)'
    BY <1>0 DEF Scrolls
  <2>1. First(t, m) => First(t, m)'
    BY <1>0, <1>3 DEF First
  <2>2. m \in Nat
    OBVIOUS
  <2> QED BY <1>0, <1>5, <1>10, <1>11, <2>1, <2>2 DEF Scrolls
<1> QED
  BY <1>6, <1>7, <1>8, <1>9, <1>13, <1>14 DEF Paged

\* A session opened goes to the end; beyond what is kept the one opened first is forgotten.
LEMMA HoldIs ==
  ASSUME T!TypeOK, NEW s \in Sessions, T!HoldMessages(s)
  PROVE  /\ recent' \in Seq(Sessions) /\ IsInjective(recent') /\ Len(recent') <= Keep
         /\ ToSet(recent') = (ToSet(recent) \cup {s}) \ T!Forgotten(s)
         /\ s \notin T!Forgotten(s) /\ T!Forgotten(s) \subseteq ToSet(recent)
<1> DEFINE others == Only(recent, Sessions \ {s})
           q == T!Recent(s)
           n == Len(q)
           last == Only(q, Sessions \ T!Forgotten(s))
<1>0. recent \in Seq(Sessions) /\ IsInjective(recent) /\ Len(recent) <= Keep /\ Keep \in Nat \ {0}
      /\ Len(recent) \in Nat /\ ToSet(recent) \subseteq Sessions
  BY TranscriptsBounds, Typing, LenProperties, PageNames DEF T!TypeOK
<1>1. others \in Seq(Sessions) /\ IsInjective(others) /\ ToSet(others) = ToSet(recent) \ {s}
  BY <1>0, OnlyKept
<1>2. Len(others) <= Len(recent) /\ Len(others) \in Nat
  <2> HIDE DEF others
  <2>1. /\ IsFiniteSet(ToSet(recent)) /\ Cardinality(ToSet(recent)) = Len(recent)
        /\ Cardinality(ToSet(others)) = Len(others)
    BY <1>0, <1>1, LenIs
  <2>2. Cardinality(ToSet(others)) <= Cardinality(ToSet(recent))
    <3>1. ToSet(others) \in SUBSET ToSet(recent)
      BY <1>1
    <3> QED BY <2>1, <3>1, FS_Subset
  <2> QED BY <1>1, <2>1, <2>2, LenProperties
<1>3. q = Append(others, s)
  BY PageNames DEF T!Recent
<1> HIDE DEF others, q
<1>4. /\ q \in Seq(Sessions) /\ IsInjective(q) /\ ToSet(q) = ToSet(recent) \cup {s}
      /\ n = Len(others) + 1 /\ n \in Nat /\ n <= Keep + 1 /\ q[n] = s /\ DOMAIN q = 1 .. n
  <2>1. s \notin ToSet(others)
    BY <1>1
  <2>2. /\ Append(others, s) \in Seq(Sessions) /\ IsInjective(Append(others, s))
        /\ ToSet(Append(others, s)) = ToSet(others) \cup {s}
    BY <1>1, <2>1, AppendApart
  <2>3. /\ DOMAIN Append(others, s) = 1 .. Len(others) + 1
        /\ Append(others, s)[Len(others) + 1] = s /\ Len(Append(others, s)) = Len(others) + 1
    BY <1>1, AppendParts, AppendProperties
  <2>4. Len(others) + 1 <= Keep + 1 /\ Len(others) + 1 \in Nat
    BY <1>0, <1>2
  <2> QED BY <1>1, <1>3, <2>2, <2>3, <2>4
<1>5. T!Forgotten(s) = IF n > Keep THEN {q[1]} ELSE {}
  <2> HIDE DEF n
  <2>1. T!Forgotten(s) = {q[j] : j \in 1 .. (IF n > Keep THEN n - Keep ELSE 0)}
    BY DEF T!Forgotten, q, n
  <2>2. n > Keep => n - Keep = 1 /\ 1 .. 1 = {1}
    BY <1>0, <1>4
  <2> QED BY <2>1, <2>2
<1>6. n > Keep => q[1] # s
  <2>1. n > Keep => 1 # n /\ 1 \in 1 .. n /\ n \in 1 .. n
    BY <1>0, <1>4
  <2> QED BY <1>4, <2>1 DEF IsInjective
<1>7. last \in Seq(Sessions) /\ IsInjective(last) /\ ToSet(last) = ToSet(q) \ T!Forgotten(s)
  <2>1. /\ last \in Seq(Sessions) /\ IsInjective(last) /\ ToSet(last) = ToSet(q) \cap (Sessions \ T!Forgotten(s))
    BY <1>4, OnlyKept
  <2>2. ToSet(q) \subseteq Sessions
    BY <1>0, <1>4
  <2> QED BY <2>1, <2>2
<1>8. recent' = last
  BY PageNames DEF T!HoldMessages, q
<1> HIDE DEF last, n
<1>9. Len(last) <= Keep
  <2>1. /\ IsFiniteSet(ToSet(q)) /\ Cardinality(ToSet(q)) = n /\ Cardinality(ToSet(last)) = Len(last)
    BY <1>4, <1>7, LenIs DEF n
  <2>2. CASE n > Keep
    <3>1. q[1] \in ToSet(q) /\ ToSet(last) = ToSet(q) \ {q[1]}
      <4>1. 1 \in 1 .. n
        BY <1>0, <1>4, <2>2
      <4> QED BY <1>4, <1>5, <1>7, <2>2, <4>1 DEF ToSet
    <3>2. Cardinality(ToSet(last)) = n - 1
      BY <2>1, <3>1, FS_RemoveElement
    <3> QED BY <1>0, <1>4, <2>1, <3>2
  <2>3. CASE ~(n > Keep)
    <3>1. ToSet(last) = ToSet(q)
      BY <1>5, <1>7, <2>3
    <3> QED BY <1>0, <1>4, <2>1, <2>3, <3>1
  <2> QED BY <2>2, <2>3
<1>10. s \notin T!Forgotten(s)
  BY <1>5, <1>6
<1>11. T!Forgotten(s) \subseteq ToSet(recent)
  <2>1. n > Keep => q[1] \in ToSet(q)
    <3>1. n > Keep => 1 \in 1 .. n
      BY <1>0, <1>4
    <3> QED BY <1>4, <3>1 DEF ToSet
  <2> QED BY <1>4, <1>5, <1>6, <2>1
<1> QED
  BY <1>4, <1>7, <1>8, <1>9, <1>10, <1>11

\* The user opens a session.
LEMMA OpenKeeps ==
  ASSUME Paged, NEW s \in Sessions, T!Open(s)
  PROVE  Paged'
<1> DEFINE kind == IF s \in held THEN "warm" ELSE "open"
           r == T!Read(kind, s, 0)
           gone == T!Forgotten(s)
<1>0. /\ T!TypeOK /\ Sound /\ Holding /\ Once /\ Comes /\ Scrolls
      /\ UNCHANGED <<len, pageBus, up, pageFaults, unread>>
      /\ commands' \in 0 .. MaxCommands
  <2>1. commands < MaxCommands /\ commands' = commands + 1 /\ commands \in 0 .. MaxCommands
    BY DEF Paged, T!TypeOK, T!Open, T!UserCommand
  <2>2. commands' \in 0 .. MaxCommands
    BY <2>1, TranscriptsBounds
  <2> QED BY <2>2 DEF Paged, T!Open
<1>1. CASE s \in opening
  <2>1. UNCHANGED <<recent, held, rows, paging, opening, settling, pageReads, revived>>
    BY <1>1 DEF T!Open, T!clientVars
  <2>2. T!TypeOK'
    BY <1>0, <2>1 DEF T!TypeOK
  <2>3. Sound' /\ Holding' /\ Once'
    BY <1>0, <2>1 DEF Sound, Holding, T!Revived, Loading, Once, Single, SameWait
  <2>4. Comes' /\ Scrolls'
    BY <1>0, <2>1 DEF Comes, Scrolls, Fetched, Announced, ReadAgain, First, T!Event
  <2> QED BY <2>2, <2>3, <2>4 DEF Paged
<1>2. CASE s \notin opening
  <2>0. /\ opening' = opening \cup {s} /\ T!HoldMessages(s) /\ T!Ask(pageReads, <<r>>)
        /\ revived' = revived \cup {t \in gone : \E i \in DOMAIN pageReads : pageReads[i].of = t /\ pageReads[i].kind \in {"open", "older"}}
        /\ settling' = settling
    BY <1>2 DEF T!Open
  <2>1. /\ recent' \in Seq(Sessions) /\ IsInjective(recent') /\ Len(recent') <= Keep
        /\ ToSet(recent') = (ToSet(recent) \cup {s}) \ gone /\ s \notin gone /\ gone \subseteq ToSet(recent)
    BY <1>0, <2>0, HoldIs
  <2>2. r \in T!Reads /\ r.kind = kind /\ r.of = s /\ ~r.served
    <3>1. kind \in T!Kinds /\ 0 \in 0 .. MaxLen /\ s \in Sessions \cup {NoSession}
      BY TranscriptsBounds DEF T!Kinds
    <3> HIDE DEF kind
    <3> QED BY <3>1, ReadIs
  <2> HIDE DEF r, gone
  <2>3. /\ pageReads' \in Seq(T!Reads) /\ Len(pageReads') <= MaxReads /\ ToSet(pageReads') = ToSet(pageReads) \cup {r}
        /\ \A j \in DOMAIN pageReads' : \/ j \in DOMAIN pageReads /\ pageReads'[j] = pageReads[j]
                                        \/ j = Len(pageReads) + 1 /\ pageReads'[j] = r
    BY <1>0, <2>0, <2>2, Typing, AskOne
  <2>4. /\ held' = (held \cup {s}) \ gone
        /\ rows' = [t \in Sessions |-> IF t \in gone THEN <<>> ELSE rows[t]]
        /\ paging' = [t \in Sessions |-> IF t \in gone THEN T!NoPaging ELSE paging[t]]
    BY <2>0 DEF T!HoldMessages, gone
  <2>5. ToSet(recent) \subseteq Sessions /\ \A j \in DOMAIN pageReads : pageReads[j] \in ToSet(pageReads)
    BY <1>0, Typing
  <2>6. revived' = revived \cup {t \in gone : \E x \in ToSet(pageReads) : x.of = t /\ x.kind \in {"open", "older"}}
    BY <2>0 DEF ToSet
  <2>7. T!NoPaging \in T!Paging /\ ~T!NoPaging.loadingOlder /\ T!NoPaging.cursor = 0 /\ ~T!NoPaging.hydrated
    BY TranscriptsBounds DEF T!NoPaging, T!Paging
  <2>9. T!TypeOK'
    <3>1. /\ rows' \in [Sessions -> Seq(T!Messages)] /\ \A t \in Sessions : IsInjective(rows'[t])
          /\ \A t \in Sessions : t \notin held' => rows'[t] = <<>>
      <4>1. <<>> \in Seq(T!Messages) /\ IsInjective(<<>>)
        BY EmptySeq, EmptySet DEF IsInjective
      <4> QED BY <1>0, <2>4, <4>1, PageNames DEF T!TypeOK
    <3>2. paging' \in [Sessions -> T!Paging]
      BY <1>0, <2>4, <2>7 DEF T!TypeOK
    <3>3. held' \subseteq Sessions /\ opening' \subseteq Sessions /\ revived' \subseteq Sessions
      BY <1>0, <2>0, <2>4, <2>1, <2>5, <2>6 DEF T!TypeOK
    <3> QED BY <1>0, <2>0, <2>1, <2>3, <3>1, <3>2, <3>3, PageNames DEF T!TypeOK
  <2>10. Sound'
    <3>1. \A t \in Sessions : paging'[t].cursor # 1
      BY <1>0, <2>4, <2>7 DEF Sound
    <3> QED BY <1>0, <2>2, <2>3, <3>1 DEF Sound
  <2>11. \A t \in Sessions \ gone : paging'[t] = paging[t] /\ rows'[t] = rows[t]
    BY <2>4
  <2>12. Holding'
    <3>1. ToSet(recent') \subseteq held' /\ held' \subseteq ToSet(recent') \cup revived'
      BY <1>0, <2>1, <2>4, <2>6, PageNames DEF Holding, T!Revived
    <3>2. \A x \in ToSet(pageReads') : x.kind \in {"open", "older"} => x.of \in ToSet(recent') \cup revived'
      BY <1>0, <2>1, <2>2, <2>3, <2>6 DEF Holding
    <3>3. \A t \in Sessions \ (ToSet(recent') \cup revived') : paging'[t] = T!NoPaging
      BY <1>0, <2>1, <2>4, <2>6 DEF Holding
    <3>4. Loading'
      <4> SUFFICES ASSUME NEW t \in Sessions
                   PROVE  /\ paging'[t].loadingOlder => \E x \in ToSet(pageReads') : x.kind = "older" /\ x.of = t
                          /\ t \in ToSet(recent') \ revived' /\ ~paging'[t].hydrated =>
                               \E x \in ToSet(pageReads') : x.kind = "open" /\ x.of = t
        BY DEF Loading
      <4>1. paging'[t].loadingOlder => \E x \in ToSet(pageReads') : x.kind = "older" /\ x.of = t
        BY <1>0, <2>3, <2>4, <2>7 DEF Holding, Loading
      <4>2. ASSUME t \in ToSet(recent') \ revived', ~paging'[t].hydrated
            PROVE  \E x \in ToSet(pageReads') : x.kind = "open" /\ x.of = t
        <5>1. t \notin gone /\ t \notin revived /\ ~paging[t].hydrated
          BY <2>1, <2>6, <2>11, <4>2
        <5>2. CASE t \in ToSet(recent)
          BY <1>0, <2>3, <4>2, <5>1, <5>2 DEF Holding, Loading
        <5>3. CASE t \notin ToSet(recent)
          <6>1. t = s /\ s \notin held
            BY <1>0, <2>1, <4>2, <5>1, <5>3, PageNames DEF Holding, T!Revived
          <6> QED BY <2>2, <2>3, <6>1
        <5> QED BY <5>2, <5>3
      <4> QED BY <4>1, <4>2
    <3> QED BY <3>1, <3>2, <3>3, <3>4, PageNames DEF Holding, T!Revived
  <2>13. Once'
    <3>1. \A x \in ToSet(pageReads) : x.kind \in {"open", "warm"} => x.of # s
      BY <1>0, <1>2 DEF Once
    <3>2. Single'
      <4> SUFFICES ASSUME NEW j \in DOMAIN pageReads', NEW k \in DOMAIN pageReads', SameWait(pageReads[j], pageReads[k])'
                   PROVE  j = k
        BY DEF Single
      <4>1. SameWait(pageReads'[j], pageReads'[k])
        BY <2>6 DEF SameWait
      <4>2. r.kind \in {"open", "warm"}
        BY <2>2
      <4> QED BY <1>0, <2>2, <2>3, <2>5, <3>1, <4>1, <4>2 DEF Once, Single, SameWait
    <3>3. \A x \in ToSet(pageReads) : x.kind \in {"open", "older"} /\ x.of \notin revived' =>
            /\ x.of \in Sessions /\ paging'[x.of] = paging[x.of] /\ x.of \notin revived
      BY <1>0, <2>6, <2>11 DEF Sound
    <3>4. r.kind = "open" /\ s \notin revived' => paging'[s].cursor = 0
      <4> SUFFICES ASSUME r.kind = "open", s \notin revived' PROVE paging'[s].cursor = 0
        OBVIOUS
      <4>1. s \notin ToSet(recent) /\ s \notin revived
        BY <1>0, <2>2, <2>6 DEF Holding
      <4>2. paging[s] = T!NoPaging
        BY <1>0, <4>1 DEF Holding
      <4> QED BY <2>1, <2>7, <2>11, <4>2
    <3>5. \A x \in ToSet(pageReads') : x.kind \in {"open", "warm"} => x.of \in opening'
      BY <1>0, <2>0, <2>2, <2>3 DEF Once
    <3>6. \A x \in ToSet(pageReads') : x.kind = "open" /\ x.of \notin revived' => paging'[x.of].cursor = 0
      BY <1>0, <2>2, <2>3, <3>3, <3>4 DEF Once
    <3>7. \A x \in ToSet(pageReads') : x.kind = "older" /\ x.of \notin revived' =>
            paging'[x.of].loadingOlder /\ paging'[x.of].cursor = x.before
      BY <1>0, <2>2, <2>3, <3>3 DEF Once
    <3> QED BY <3>2, <3>5, <3>6, <3>7 DEF Once
  <2>14. Comes'
    <3> SUFFICES ASSUME NEW t \in ToSet(recent') \ unread
                 PROVE  len[t] \in ToSet(rows'[t]) \/ Fetched(t, len[t])' \/ Announced(t, len[t])' \/ ReadAgain'
      BY <1>0 DEF Comes
    <3>1. CASE t = s
      BY <2>2, <2>3, <3>1 DEF Fetched
    <3>2. CASE t # s
      <4>1. t \in ToSet(recent) /\ t \in Sessions \ gone
        BY <2>1, <2>5, <3>2
      <4>2. Fetched(t, len[t]) => Fetched(t, len[t])'
        BY <1>0, <2>3 DEF Fetched
      <4>3. Announced(t, len[t]) => Announced(t, len[t])'
        BY <1>0 DEF Announced, T!Event
      <4>4. ReadAgain => ReadAgain'
        BY <1>0, <2>3 DEF ReadAgain
      <4> QED BY <1>0, <2>11, <4>1, <4>2, <4>3, <4>4 DEF Comes
    <3> QED BY <3>1, <3>2
  <2>15. Scrolls'
    <3> SUFFICES ASSUME pageFaults = 0, NEW t \in ToSet(recent') \ revived', NEW m \in 1 .. len[t]
                 PROVE  m \in ToSet(rows'[t]) \/ m < paging'[t].cursor \/ Announced(t, m)' \/ First(t, m)'
      BY <1>0 DEF Scrolls
    <3>1. t \notin revived /\ t \in Sessions \ gone
      BY <2>1, <2>5, <2>6
    <3>2. CASE t \in ToSet(recent)
      <4>1. First(t, m) => First(t, m)'
        BY <2>3 DEF First
      <4>2. Announced(t, m) => Announced(t, m)'
        BY <1>0 DEF Announced, T!Event
      <4> QED BY <1>0, <2>11, <3>1, <3>2, <4>1, <4>2 DEF Scrolls
    <3>3. CASE t \notin ToSet(recent)
      <4>1. t = s /\ s \notin held
        BY <1>0, <2>1, <3>1, <3>3, PageNames DEF Holding, T!Revived
      <4> QED BY <2>2, <2>3, <4>1 DEF First
    <3> QED BY <3>2, <3>3
  <2> QED BY <2>9, <2>10, <2>12, <2>13, <2>14, <2>15 DEF Paged
<1> QED
  BY <1>1, <1>2

-----------------------------------------------------------------------------
(* The theorems *)

LEMMA InitPaged ==
  ASSUME T!Init
  PROVE  Paged
<1>0. /\ recent = <<>> /\ held = {} /\ rows = [s \in Sessions |-> <<>>]
      /\ paging = [s \in Sessions |-> T!NoPaging]
      /\ opening = {} /\ settling = {} /\ pageReads = <<>>
      /\ len \in [Sessions -> {PageSize + 1}]
      /\ pageBus = <<>> /\ up = TRUE
      /\ commands = 0 /\ pageFaults = 0 /\ unread = {} /\ revived = {}
  BY DEF T!Init
<1>1. ToSet(recent) = {} /\ ToSet(pageReads) = {} /\ ToSet(pageBus) = {} /\ DOMAIN pageReads = {} /\ Len(recent) = 0 /\ Len(pageReads) = 0
  BY <1>0, EmptySet
<1>2. T!NoPaging \in T!Paging /\ ~T!NoPaging.loadingOlder /\ T!NoPaging.cursor = 0
  BY TranscriptsBounds DEF T!NoPaging, T!Paging
<1>3. \A s \in Sessions : len[s] = PageSize + 1 /\ PageSize + 1 \in 0 .. MaxLen /\ PageSize + 1 > 0
  BY <1>0, TranscriptsBounds
<1>4. T!TypeOK
  <2>1. <<>> \in Seq(T!Messages) /\ <<>> \in Seq(Sessions) /\ <<>> \in Seq(T!Reads) /\ <<>> \in Seq(T!Events)
        /\ IsInjective(<<>>)
    BY EmptySeq, EmptySet DEF IsInjective
  <2>2. len \in [Sessions -> 0 .. MaxLen]
    BY <1>0, <1>3
  <2>3. 0 \in 0 .. MaxCommands /\ 0 \in 0 .. MaxFaults /\ 0 <= Keep /\ 0 <= MaxReads
    BY TranscriptsBounds
  <2> QED BY <1>0, <1>1, <1>2, <2>1, <2>2, <2>3, PageNames DEF T!TypeOK
<1>5. Sound
  BY <1>0, <1>1, <1>2, <1>3 DEF Sound
<1>6. Holding
  BY <1>0, <1>1, <1>2 DEF Holding, T!Revived, Loading
<1>7. Once
  BY <1>1 DEF Once, Single
<1>8. Comes /\ Scrolls
  BY <1>0, <1>1 DEF Comes, Scrolls
<1> QED
  BY <1>4, <1>5, <1>6, <1>7, <1>8 DEF Paged

LEMMA StepPaged ==
  ASSUME Paged, [T!Next]_T!vars
  PROVE  Paged'
<1>1. CASE T!ReadStep
  <2>1. PICK i \in DOMAIN pageReads :
          \/ T!ReadServed(i)
          \/ T!OpenBack(i) \/ T!TailBack(i) \/ T!OlderBack(i) \/ T!ListBack(i)
          \/ T!ReadFailed(i)
    BY <1>1 DEF T!ReadStep
  <2> QED BY <2>1, ReadServedKeeps, OpenBackKeeps, TailBackKeeps, OlderBackKeeps, ListBackKeeps,
             ReadFailedKeeps
<1>2. CASE \E s \in Sessions : T!Open(s) \/ T!LoadOlder(s) \/ T!Settle(s)
  BY <1>2, OpenKeeps, LoadOlderKeeps, SettleKeeps
<1>3. CASE \E s \in Sessions, last \in BOOLEAN : T!NewMessage(s, last)
  BY <1>3, NewMessageKeeps
<1>4. CASE T!OnEvent \/ T!BusLost \/ T!Reconnect
  BY <1>4, OnEventKeeps, BusLostKeeps, ReconnectKeeps
<1>5. CASE UNCHANGED T!vars
  <2>0. UNCHANGED <<recent, held, rows, paging, opening, settling, pageReads, len, pageBus, up, commands, pageFaults,
                    unread, revived>>
    BY <1>5 DEF T!vars, T!clientVars
  <2>1. T!TypeOK'
    BY <2>0 DEF Paged, T!TypeOK
  <2>2. Sound' /\ Holding' /\ Once'
    BY <2>0 DEF Paged, Sound, Holding, T!Revived, Loading, Once, Single, SameWait
  <2>3. Comes' /\ Scrolls'
    BY <2>0 DEF Paged, Comes, Scrolls, Fetched, Announced, ReadAgain, First, T!Event
  <2> QED BY <2>1, <2>2, <2>3 DEF Paged
<1> QED
  BY <1>1, <1>2, <1>3, <1>4, <1>5 DEF T!Next

\* Once nothing is on its way, what was on its way is shown.
LEMMA PagedKept ==
  ASSUME Paged
  PROVE  T!Kept
<1>0. T!TypeOK /\ Holding /\ Comes /\ Scrolls /\ ToSet(recent) \subseteq Sessions
  BY Typing DEF Paged
<1>1. \A s \in Sessions : \A m : Contains(rows[s], m) <=> m \in ToSet(rows[s])
  BY <1>0, ContainsIs DEF T!TypeOK
<1>2. T!Quiet => ToSet(pageReads) = {} /\ ToSet(pageBus) = {} /\ up
  BY EmptySet DEF T!Quiet
<1>3. T!Newest
  BY <1>0, <1>1, <1>2, PageNames DEF T!Newest, Comes, Fetched, Announced, ReadAgain
<1>4. T!Reachable
  BY <1>0, <1>1, <1>2, PageNames DEF T!Reachable, Scrolls, Announced, First
<1>5. T!Revived
  BY <1>0 DEF Holding
<1>6. T!LoadingEnds
  BY <1>0, PageNames DEF Holding, Loading, T!LoadingEnds, ToSet
<1> QED
  BY <1>3, <1>4, <1>5, <1>6 DEF T!Kept

\* A step of the store is one of the transcripts, or leaves them alone.
LEMMA TranscriptsStep ==
  ASSUME [Next]_<<list, transcripts>>
  PROVE  [T!Next]_T!vars
<1>1. CASE T!Next
  BY <1>1
<1>2. CASE UNCHANGED transcripts
  BY <1>2 DEF transcripts, T!vars, T!clientVars
<1> QED
  BY <1>1, <1>2 DEF Next

\* The inductive invariant holds: each message of a transcript kept is shown, on its way, or
\* before the cursor, and who waits for a read is told so.
THEOREM PagedHolds == Spec => []Paged
<1>1. Init => Paged
  BY InitPaged DEF Init
<1>2. Paged /\ [Next]_<<list, transcripts>> => Paged'
  BY TranscriptsStep, StepPaged
<1> QED
  BY <1>1, <1>2, PTL DEF Spec

\* The list and the transcripts are of their types: no more are kept than "Keep", no row and
\* no session twice (start, onEvent, holdMessages, mergeProjection).
THEOREM StoreTyped == Spec => []TypeOK
<1>1. L!TypeOK /\ Followed /\ Paged => TypeOK
  BY DEF TypeOK, Paged
<1> QED
  BY <1>1, FollowedKept, PagedHolds, PTL

\* The transcripts kept are those opened lately, with their newest message once nothing is
\* under way, each older one within reach, and no spinner outlives its read (openNow,
\* refreshTail, resync, loadOlder).
THEOREM KeptHolds == Spec => []Kept
<1>1. Paged => Kept
  BY PagedKept DEF Kept
<1> QED
  BY <1>1, PagedHolds, PTL

=============================================================================
