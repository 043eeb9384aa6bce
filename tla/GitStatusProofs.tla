-------------------------- MODULE GitStatusProofs --------------------------
(***************************************************************************)
(* Theorems about GitStatus, for any number of changes, lines and          *)
(* subscriptions: its typing, and that the watch is held for the screens   *)
(* that show the folder, and serves them.                                  *)
(***************************************************************************)
EXTENDS GitStatus, QueueLemmas, TLAPS

-----------------------------------------------------------------------------
(* The inductive invariant *)

\* The daemon listens for line l once it has handled what is on its way to it.
Wants(l) ==
  \/ toDaemon[l] = <<>> /\ l \in listeners
  \/ toDaemon[l] # <<>> /\ LastOf(toDaemon[l]).type = "subscribe"

\* The answer to the phone's subscription is still to come.
Pending ==
  \/ Frame("subscribe", callback) \in Elements(toDaemon[connection])
  \/ Frame("subscribed", callback) \in Elements(toViewer[connection])

\* A line belongs to one screen, and nothing is on a line before it is opened.
Apart ==
  /\ connection # 0 => connection # stream
  /\ \A l \in Lines : l > lines => toDaemon[l] = <<>> /\ toViewer[l] = <<>>

\* What the phone subscribes with is an effect's, and so is what it is answered.
Numbered ==
  connection # 0 =>
    /\ \A f \in Elements(toDaemon[connection]) : f.type = "subscribe" => f.of # 0
    /\ \A f \in Elements(toViewer[connection]) : f.type = "subscribed" => f.of # 0

\* A callback without a screen to release it is released by the answer to come.
Screen ==
  /\ effect # 0 => callback = effect
  /\ connection = 0 => callback = 0
  /\ held => effect # 0
  /\ connection \in peers /\ callback # 0 /\ ~held => Pending

\* The daemon is left listening for the desktop's screen while it is shown, and for the
\* phone while the phone has a callback.
Wanted ==
  /\ stream # 0 => stream \in peers /\ Wants(stream)
  /\ connection \in peers => (Wants(connection) <=> callback # 0)

\* The watch and its timers run for listeners.
Watched ==
  /\ listeners = {} <=> ~selfHealTimer
  /\ listeners = {} => ~treeWatcher /\ ~event /\ ~debounceTimer

\* The phone is going to be told.
Due ==
  \/ (event \/ debounceTimer \/ inFlight) /\ connection \in listeners
  \/ Changed \in Elements(toViewer[connection])

\* A connected screen shows the repository as it is, reads it, or is going to be told.
Told ==
  /\ mounted /\ connection # 0 =>
       \/ missed \/ Due \/ read = Sent
       \/ read.at = "served" /\ read.got = repo
       \/ read = NotRead /\ shown = repo
  /\ ~mounted \/ connection = 0 => missed \/ (shown = 0 /\ read = NotRead)

\* Inductive together with TypeOK.
Following == Apart /\ Numbered /\ Screen /\ Wanted /\ Watched /\ Told

-----------------------------------------------------------------------------
(* Queues *)

Queues == [Lines -> Seq(Frames)]
Pushed(queue, l, f) == [queue EXCEPT ![l] = Append(@, f)]
Popped(queue, l) == [queue EXCEPT ![l] = Tail(@)]
Cleared(queue, l) == [queue EXCEPT ![l] = <<>>]

LEMMA PushFacts ==
  ASSUME NEW queue \in Queues, NEW l \in Lines, NEW f \in Frames
  PROVE  /\ Pushed(queue, l, f) \in Queues /\ Pushed(queue, l, f)[l] # <<>> /\ LastOf(Pushed(queue, l, f)[l]) = f
         /\ Elements(Pushed(queue, l, f)[l]) = Elements(queue[l]) \cup {f}
         /\ \A k \in Lines \ {l} : Pushed(queue, l, f)[k] = queue[k]
<1> DEFINE q == queue[l]
<1>1. q \in Seq(Frames)
  BY DEF Queues
<1>2. Pushed(queue, l, f)[l] = Append(q, f) /\ \A k \in Lines \ {l} : Pushed(queue, l, f)[k] = queue[k]
  BY DEF Queues, Pushed
<1> HIDE DEF q
<1>3. /\ Append(q, f) \in Seq(Frames) /\ Append(q, f) # <<>> /\ LastOf(Append(q, f)) = f
      /\ Elements(Append(q, f)) = Elements(q) \cup {f}
  BY <1>1, AppendElements
<1>4. Pushed(queue, l, f) \in Queues
  BY <1>1, <1>3 DEF Queues, q, Pushed, Popped
<1> QED
  BY <1>2, <1>3, <1>4 DEF q

LEMMA PopFacts ==
  ASSUME NEW queue \in Queues, NEW l \in Lines, queue[l] # <<>>
  PROVE  /\ Popped(queue, l) \in Queues /\ Head(queue[l]) \in Frames /\ Head(queue[l]) \in Elements(queue[l])
         /\ Elements(Popped(queue, l)[l]) \subseteq Elements(queue[l])
         /\ Elements(queue[l]) \subseteq Elements(Popped(queue, l)[l]) \cup {Head(queue[l])}
         /\ LastOf(queue[l]) = IF Popped(queue, l)[l] = <<>> THEN Head(queue[l]) ELSE LastOf(Popped(queue, l)[l])
         /\ \A k \in Lines \ {l} : Popped(queue, l)[k] = queue[k]
<1> DEFINE q == queue[l]
<1>1. q \in Seq(Frames) /\ q # <<>>
  BY DEF Queues
<1>2. Popped(queue, l)[l] = Tail(q) /\ \A k \in Lines \ {l} : Popped(queue, l)[k] = queue[k]
  BY DEF Queues, Popped
<1> HIDE DEF q
<1>3. /\ Tail(q) \in Seq(Frames) /\ Head(q) \in Frames
      /\ Head(q) \in Elements(q) /\ Elements(Tail(q)) \subseteq Elements(q)
      /\ Elements(q) \subseteq Elements(Tail(q)) \cup {Head(q)}
      /\ LastOf(q) = IF Tail(q) = <<>> THEN Head(q) ELSE LastOf(Tail(q))
  BY <1>1, TailElements
<1>4. Popped(queue, l) \in Queues
  BY <1>1, <1>3 DEF Queues, q, Pushed, Popped
<1> QED
  BY <1>2, <1>3, <1>4 DEF q

LEMMA ClearFacts ==
  ASSUME NEW queue \in Queues, NEW l \in Lines
  PROVE  /\ Cleared(queue, l) \in Queues /\ Cleared(queue, l)[l] = <<>> /\ Elements(Cleared(queue, l)[l]) = {}
         /\ \A k \in Lines \ {l} : Cleared(queue, l)[k] = queue[k]
<1>1. <<>> \in Seq(Frames)
  BY EmptySeq
<1> QED
  BY <1>1, EmptyElements DEF Queues, Cleared

LEMMA FrameTyped ==
  ASSUME NEW type \in {"subscribe", "unsubscribe", "subscribed", "changed"}, NEW e \in 0 .. MaxEffects
  PROVE  /\ Frame(type, e) \in Frames /\ Frame(type, e).type = type /\ Frame(type, e).of = e
  BY DEF Frame, Frames

LEMMA LineFacts ==
  ASSUME TypeOK
  PROVE  /\ toDaemon \in Queues /\ toViewer \in Queues
         /\ peers \subseteq Lines /\ listeners \subseteq Lines /\ 0 \notin Lines
         /\ connection # 0 => connection \in Lines
         /\ stream # 0 => stream \in Lines
         /\ lines \in Nat /\ (lines < MaxLines => lines + 1 \in Lines /\ lines + 1 \notin peers)
  BY GitStatusBounds DEF TypeOK, Queues, Lines

-----------------------------------------------------------------------------
(* The parts of the actions *)

ReadSet == {NotRead, Sent} \cup [at : {"served"}, got : Versions]

LEMMA ReadFacts ==
  /\ NotRead \in ReadSet /\ Sent \in ReadSet /\ Sent # NotRead
  /\ NotRead.at = "none" /\ Sent.at = "sent"
<1>1. NotRead \in ReadSet /\ Sent \in ReadSet
  BY DEF NotRead, Sent, ReadSet
<1>2. NotRead.at = "none" /\ Sent.at = "sent"
  BY DEF NotRead, Sent
<1> QED
  BY <1>1, <1>2

\* A read that is made sees every change so far; one that is shared may not.
LEMMA FetchFacts ==
  ASSUME TypeOK, Fetch
  PROVE  /\ read' \in ReadSet /\ missed' \in BOOLEAN
         /\ \/ read = NotRead /\ read' = Sent /\ missed' = FALSE
            \/ read # NotRead /\ read' = read /\ missed' = missed
<1>1. read \in ReadSet /\ missed \in BOOLEAN
  BY DEF TypeOK, ReadSet
<1> QED
  BY <1>1, ReadFacts DEF Fetch

LEMMA InvalidateFacts ==
  ASSUME TypeOK, Invalidate
  PROVE  /\ read' \in ReadSet /\ missed' \in BOOLEAN /\ invalid' \in BOOLEAN
         /\ read' = Sent \/ (read' = read /\ read # NotRead /\ (read.at = "served" => missed'))
<1>1. read \in ReadSet /\ missed \in BOOLEAN
  BY DEF TypeOK, ReadSet
<1>2. CASE shown = 0 /\ read # NotRead
  BY <1>1, <1>2 DEF Invalidate
<1>3. CASE ~(shown = 0 /\ read # NotRead)
  BY <1>3, ReadFacts DEF Invalidate
<1> QED
  BY <1>2, <1>3

\* The phone's effect subscribes: its callback is the latest, and so is its word.
LEMMA EnableFacts ==
  ASSUME TypeOK, NEW c \in Lines, Enable(c)
  PROVE  /\ effects' \in 1 .. MaxEffects /\ effect' = effects' /\ callback' = effects'
         /\ held' = FALSE
         /\ toDaemon' \in Queues /\ toDaemon'[c] # <<>>
         /\ LastOf(toDaemon'[c]).type = "subscribe"
         /\ Frame("subscribe", callback') \in Elements(toDaemon'[c])
         /\ \A f \in Elements(toDaemon'[c]) : f \in Elements(toDaemon[c]) \/ f.of # 0
         /\ \A k \in Lines \ {c} : toDaemon'[k] = toDaemon[k]
         /\ read' \in ReadSet /\ missed' \in BOOLEAN
         /\ \/ read = NotRead /\ read' = Sent /\ missed' = FALSE
            \/ read # NotRead /\ read' = read /\ missed' = missed
            \/ shown # 0 /\ read' = read /\ missed' = missed
<1> DEFINE f == Frame("subscribe", effects + 1)
<1>1. /\ effects' = effects + 1 /\ effects' \in 1 .. MaxEffects
      /\ effect' = effects' /\ callback' = effects' /\ held' = FALSE
      /\ toDaemon' = Pushed(toDaemon, c, f)
      /\ Fetch \/ (shown # 0 /\ UNCHANGED <<read, missed>>)
  BY GitStatusBounds DEF Enable, Pushed, TypeOK
<1>2. f \in Frames /\ f.type = "subscribe" /\ f.of = effects' /\ f = Frame("subscribe", callback')
  BY <1>1, FrameTyped
<1>3. toDaemon \in Queues /\ read \in ReadSet /\ missed \in BOOLEAN
  BY DEF TypeOK, Queues, ReadSet
<1> HIDE DEF f
<1>4. /\ toDaemon' \in Queues /\ toDaemon'[c] # <<>> /\ LastOf(toDaemon'[c]) = f
      /\ Elements(toDaemon'[c]) = Elements(toDaemon[c]) \cup {f}
      /\ \A k \in Lines \ {c} : toDaemon'[k] = toDaemon[k]
  BY <1>1, <1>2, <1>3, PushFacts
<1>5. /\ read' \in ReadSet /\ missed' \in BOOLEAN
      /\ \/ read = NotRead /\ read' = Sent /\ missed' = FALSE
         \/ read # NotRead /\ read' = read /\ missed' = missed
         \/ shown # 0 /\ read' = read /\ missed' = missed
  BY <1>1, <1>3, FetchFacts
<1> QED
  BY <1>1, <1>2, <1>4, <1>5

\* Releasing an effect's callback is its line's last word; another's is left alone.
LEMMA UnsubscribeFacts ==
  ASSUME TypeOK, connection # 0, NEW e, Unsubscribe(e)
  PROVE  /\ toDaemon' \in Queues
         /\ callback # e => callback' = callback /\ toDaemon' = toDaemon
         /\ callback = e =>
              /\ callback' = 0
              /\ toDaemon'[connection] # <<>>
              /\ LastOf(toDaemon'[connection]).type = "unsubscribe"
         /\ \A f \in Elements(toDaemon'[connection]) :
              f \in Elements(toDaemon[connection]) \/ f.type = "unsubscribe"
         /\ \A k \in Lines \ {connection} : toDaemon'[k] = toDaemon[k]
<1> DEFINE f == Frame("unsubscribe", 0)
<1>0. toDaemon \in Queues /\ connection \in Lines
  BY LineFacts
<1>1. CASE callback # e
  BY <1>0, <1>1 DEF Unsubscribe
<1>2. CASE callback = e
  <2>1. callback' = 0 /\ toDaemon' = Pushed(toDaemon, connection, f)
    BY <1>2 DEF Unsubscribe, Pushed
  <2>2. f \in Frames /\ f.type = "unsubscribe"
    BY FrameTyped, GitStatusBounds
  <2> HIDE DEF f
  <2> QED BY <1>0, <1>2, <2>1, <2>2, PushFacts
<1> QED
  BY <1>1, <1>2

\* The daemon takes a frame and does what it says: what the lines want stays the same.
LEMMA HandleFacts ==
  ASSUME TypeOK, NEW l \in Lines, Handle(l)
  PROVE  /\ l \in peers /\ toDaemon' \in Queues /\ toViewer' \in Queues
         /\ Elements(toDaemon'[l]) \subseteq Elements(toDaemon[l])
         /\ \A k \in Lines \ {l} : toDaemon'[k] = toDaemon[k] /\ toViewer'[k] = toViewer[k]
         /\ \A k \in Lines : Wants(k)' <=> Wants(k)
         /\ listeners' \subseteq peers
         /\ Elements(toViewer[l]) \subseteq Elements(toViewer'[l])
         /\ l # connection => toViewer' = toViewer
         /\ \A f \in Elements(toDaemon[l]) :
              \/ f \in Elements(toDaemon'[l])
              \/ l = connection /\ f.type = "subscribe" => Frame("subscribed", f.of) \in Elements(toViewer'[l])
         /\ \A f \in Elements(toViewer'[l]) :
              \/ f \in Elements(toViewer[l])
              \/ \E g \in Elements(toDaemon[l]) : g.type = "subscribe" /\ f = Frame("subscribed", g.of)
<1> DEFINE f == Head(toDaemon[l])
<1>0. toDaemon \in Queues /\ toViewer \in Queues /\ listeners \subseteq peers
  BY LineFacts DEF TypeOK
<1>1. l \in peers /\ toDaemon[l] # <<>> /\ toDaemon' = Popped(toDaemon, l)
  BY DEF Handle, Popped
<1>2. /\ toDaemon' \in Queues /\ f \in Frames /\ f \in Elements(toDaemon[l])
      /\ Elements(toDaemon'[l]) \subseteq Elements(toDaemon[l])
      /\ Elements(toDaemon[l]) \subseteq Elements(toDaemon'[l]) \cup {f}
      /\ LastOf(toDaemon[l]) = IF toDaemon'[l] = <<>> THEN f ELSE LastOf(toDaemon'[l])
      /\ \A k \in Lines \ {l} : toDaemon'[k] = toDaemon[k]
  BY <1>0, <1>1, PopFacts
<1>3. f.type = "subscribe" =>
        /\ listeners' = listeners \cup {l}
        /\ toViewer' = IF l = connection
                       THEN Pushed(toViewer, l, Frame("subscribed", f.of))
                       ELSE toViewer
  BY DEF Handle, Register, Pushed
<1>4. f.type # "subscribe" => listeners' = listeners \ {l} /\ toViewer' = toViewer
  BY DEF Handle, Unregister
<1> HIDE DEF f
<1>5. \A k \in Lines : Wants(k)' <=> Wants(k)
  BY <1>1, <1>2, <1>3, <1>4 DEF Wants
<1>6. CASE f.type = "subscribe" /\ l = connection
  <2> DEFINE g == Frame("subscribed", f.of)
  <2>1. g \in Frames
    BY <1>2, FrameTyped DEF Frames
  <2>2. toViewer' = Pushed(toViewer, l, g)
    BY <1>3, <1>6
  <2> HIDE DEF g
  <2>3. /\ toViewer' \in Queues /\ Elements(toViewer'[l]) = Elements(toViewer[l]) \cup {g}
        /\ \A k \in Lines \ {l} : toViewer'[k] = toViewer[k]
    BY <1>0, <2>1, <2>2, PushFacts
  <2> QED BY <1>0, <1>1, <1>2, <1>3, <1>5, <1>6, <2>3 DEF g
<1>7. CASE ~(f.type = "subscribe" /\ l = connection)
  <2>1. toViewer' = toViewer /\ listeners' \subseteq peers
    BY <1>0, <1>1, <1>3, <1>4, <1>7
  <2> QED BY <1>0, <1>1, <1>2, <1>5, <1>7, <2>1
<1> QED
  BY <1>6, <1>7

\* A closed line is forgotten.
LEMMA ClosesFacts ==
  ASSUME TypeOK, NEW l \in Lines, Closes(l)
  PROVE  /\ peers' = peers \ {l} /\ listeners' = listeners \ {l}
         /\ toDaemon' \in Queues /\ toDaemon'[l] = <<>> /\ Elements(toDaemon'[l]) = {}
         /\ \A k \in Lines \ {l} : toDaemon'[k] = toDaemon[k] /\ (Wants(k)' <=> Wants(k))
         /\ UNCHANGED toViewer
<1>0. toDaemon \in Queues
  BY LineFacts
<1>1. /\ peers' = peers \ {l} /\ listeners' = listeners \ {l} /\ UNCHANGED toViewer
      /\ toDaemon' = Cleared(toDaemon, l)
  BY DEF Closes, Unregister, Cleared
<1>2. /\ toDaemon' \in Queues /\ toDaemon'[l] = <<>> /\ Elements(toDaemon'[l]) = {}
      /\ \A k \in Lines \ {l} : toDaemon'[k] = toDaemon[k]
  BY <1>0, <1>1, ClearFacts
<1>3. \A k \in Lines \ {l} : Wants(k)' <=> Wants(k)
  BY <1>1, <1>2 DEF Wants
<1> QED
  BY <1>1, <1>2, <1>3

\* Whoever listens is told, on its screen's line.
LEMMA NotifiedFacts ==
  ASSUME TypeOK, Notified
  PROVE  /\ toViewer' \in Queues
         /\ \A l \in Lines : Elements(toViewer'[l]) \subseteq Elements(toViewer[l]) \cup {Changed}
         /\ \A l \in Lines : Elements(toViewer[l]) \subseteq Elements(toViewer'[l])
         /\ \A l \in Lines : l \notin {connection, stream} => toViewer'[l] = toViewer[l]
         /\ connection # 0 /\ connection \in listeners => Changed \in Elements(toViewer'[connection])
<1>0. toViewer \in Queues /\ (connection # 0 => connection \in Lines)
  BY LineFacts
<1>1. toViewer' = [l \in Lines |->
        IF l \in listeners \cap {connection, stream} THEN Append(toViewer[l], Changed) ELSE toViewer[l]]
  BY DEF Notified
<1>2. Changed \in Frames
  BY FrameTyped, GitStatusBounds DEF Changed
<1>3. ASSUME NEW l \in Lines
      PROVE  /\ toViewer'[l] \in Seq(Frames)
             /\ Elements(toViewer'[l]) \subseteq Elements(toViewer[l]) \cup {Changed}
             /\ Elements(toViewer[l]) \subseteq Elements(toViewer'[l])
             /\ l \in listeners \cap {connection, stream} => Changed \in Elements(toViewer'[l])
             /\ l \notin {connection, stream} => toViewer'[l] = toViewer[l]
  <2> DEFINE q == toViewer[l]
  <2>1. q \in Seq(Frames)
    BY <1>0 DEF Queues
  <2>2. toViewer'[l] = IF l \in listeners \cap {connection, stream} THEN Append(q, Changed) ELSE q
    BY <1>1
  <2> HIDE DEF q
  <2>3. Append(q, Changed) \in Seq(Frames) /\ Elements(Append(q, Changed)) = Elements(q) \cup {Changed}
    BY <1>2, <2>1, AppendElements
  <2> QED BY <2>1, <2>2, <2>3 DEF q
<1>4. toViewer' \in Queues
  BY <1>1, <1>3 DEF Queues
<1> QED
  BY <1>0, <1>3, <1>4


-----------------------------------------------------------------------------
(* The typing *)

LineTyped ==
  /\ listeners \subseteq peers /\ peers \subseteq 1 .. lines /\ lines \in 0 .. MaxLines
  /\ toDaemon \in Queues /\ toViewer \in Queues
  /\ connection \in 0 .. lines /\ stream \in 0 .. lines
WatchTyped ==
  /\ treeWatcher \in BOOLEAN /\ selfHealTimer \in BOOLEAN /\ debounceTimer \in BOOLEAN
  /\ inFlight \in BOOLEAN /\ event \in BOOLEAN
ScreenTyped ==
  /\ held \in BOOLEAN /\ mounted \in BOOLEAN
  /\ effects \in 0 .. MaxEffects /\ effect \in {0, effects} /\ callback \in 0 .. effects
  /\ effect # 0 <=> mounted /\ connection # 0
QueryTyped ==
  /\ repo \in Versions /\ shown \in Versions \cup {0} /\ invalid \in BOOLEAN
  /\ read \in ReadSet /\ faults \in 0 .. MaxFaults /\ missed \in BOOLEAN

LEMMA TypedParts == TypeOK <=> LineTyped /\ WatchTyped /\ ScreenTyped /\ QueryTyped
  BY DEF TypeOK, LineTyped, WatchTyped, ScreenTyped, QueryTyped, Queues, ReadSet

LEMMA LineTypedNext ==
  ASSUME TypeOK, Next
  PROVE  LineTyped'
<1>0. LineTyped /\ toDaemon \in Queues /\ toViewer \in Queues /\ 0 \notin Lines
  BY TypedParts, LineFacts DEF LineTyped
<1>1. CASE ReadServed \/ ReadEnds \/ ReadFails
  BY <1>0, <1>1 DEF ReadServed, ReadEnds, ReadFails, lineVars, watcherVars, phoneVars, LineTyped
<1>2. CASE PhoneMounts
  <2>1. UNCHANGED <<listeners, lines, peers, toViewer, connection, stream>>
    BY <1>2 DEF PhoneMounts, watcherVars
  <2>2. toDaemon' \in Queues
    <3>1. CASE connection = 0
      BY <1>0, <1>2, <3>1 DEF PhoneMounts
    <3>2. CASE connection # 0
      BY <1>2, <3>2, EnableFacts, LineFacts DEF PhoneMounts
    <3> QED BY <3>1, <3>2
  <2> QED BY <1>0, <2>1, <2>2 DEF LineTyped
<1>3. CASE PhoneUnmounts
  <2>1. UNCHANGED <<listeners, lines, peers, toViewer, connection, stream>>
    BY <1>3 DEF PhoneUnmounts, watcherVars
  <2>2. toDaemon' \in Queues
    <3>1. CASE effect # 0 /\ held
      <4>1. Unsubscribe(effect) /\ connection # 0
        BY <1>3, <3>1 DEF PhoneUnmounts, TypeOK
      <4> QED BY <4>1, UnsubscribeFacts
    <3>2. CASE ~(effect # 0 /\ held)
      BY <1>0, <1>3, <3>2 DEF PhoneUnmounts
    <3> QED BY <3>1, <3>2
  <2> QED BY <1>0, <2>1, <2>2 DEF LineTyped
<1>4. CASE Online
  <2>1. /\ lines < MaxLines /\ lines' = lines + 1 /\ connection' = lines + 1
        /\ peers' = peers \cup {lines + 1} /\ UNCHANGED <<listeners, toViewer, stream>>
    BY <1>4 DEF Online, watcherVars
  <2>2. toDaemon' \in Queues
    BY <1>0, <1>4, <2>1, EnableFacts, LineFacts DEF Online
  <2> QED BY <1>0, <2>1, <2>2, GitStatusBounds DEF LineTyped
<1>5. CASE Offline
  <2>1. /\ UNCHANGED <<listeners, lines, peers, toDaemon, stream>> /\ connection' = 0
        /\ connection \in Lines /\ toViewer' = Cleared(toViewer, connection)
    BY <1>5, LineFacts DEF Offline, watcherVars, Cleared
  <2>2. toViewer' \in Queues
    BY <1>0, <2>1, ClearFacts
  <2> QED BY <1>0, <2>1, <2>2 DEF LineTyped
<1>6. CASE Subscribed
  <2>1. /\ UNCHANGED <<listeners, lines, peers, connection, stream>> /\ connection # 0
        /\ toViewer[connection] # <<>> /\ toViewer' = Popped(toViewer, connection)
    BY <1>6 DEF Subscribed, watcherVars, Next1, Take, Popped
  <2>2. toViewer' \in Queues
    BY <1>0, <2>1, PopFacts, LineFacts
  <2>3. toDaemon' = toDaemon \/ \E e : Unsubscribe(e)
    BY <1>6 DEF Subscribed
  <2>4. toDaemon' \in Queues
    BY <1>0, <2>1, <2>3, UnsubscribeFacts
  <2> QED BY <1>0, <2>1, <2>2, <2>4 DEF LineTyped
<1>7. CASE PhoneTold
  <2>1. /\ UNCHANGED <<listeners, lines, peers, toDaemon, connection, stream>> /\ connection # 0
        /\ toViewer[connection] # <<>> /\ toViewer' = Popped(toViewer, connection)
    BY <1>7 DEF PhoneTold, watcherVars, phoneVars, Next1, Take, Popped
  <2>2. toViewer' \in Queues
    BY <1>0, <2>1, PopFacts, LineFacts
  <2> QED BY <1>0, <2>1, <2>2 DEF LineTyped
<1>8. CASE DesktopTold
  <2>1. /\ UNCHANGED <<listeners, lines, peers, toDaemon, connection, stream>> /\ stream # 0
        /\ toViewer[stream] # <<>> /\ toViewer' = Popped(toViewer, stream)
    BY <1>8 DEF DesktopTold, watcherVars, phoneVars, Next1, Take, Popped
  <2>2. toViewer' \in Queues
    BY <1>0, <2>1, PopFacts, LineFacts
  <2> QED BY <1>0, <2>1, <2>2 DEF LineTyped
<1>9. CASE DesktopMounts
  <2>1. /\ lines < MaxLines /\ lines' = lines + 1 /\ stream' = lines + 1
        /\ peers' = peers \cup {lines + 1} /\ UNCHANGED <<listeners, toViewer, connection>>
        /\ toDaemon' = [toDaemon EXCEPT ![lines + 1] = <<Frame("subscribe", 0)>>]
    BY <1>9 DEF DesktopMounts, watcherVars, phoneVars
  <2>2. <<Frame("subscribe", 0)>> \in Seq(Frames)
    BY FrameTyped, GitStatusBounds
  <2>3. toDaemon' \in Queues
    BY <1>0, <2>1, <2>2 DEF Queues
  <2> QED BY <1>0, <2>1, <2>3, GitStatusBounds DEF LineTyped
<1>10. CASE DesktopUnmounts
  <2>1. /\ UNCHANGED <<listeners, lines, peers, toDaemon, connection>> /\ stream' = 0
        /\ stream \in Lines /\ toViewer' = Cleared(toViewer, stream)
    BY <1>10, LineFacts DEF DesktopUnmounts, watcherVars, phoneVars, Cleared
  <2>2. toViewer' \in Queues
    BY <1>0, <2>1, ClearFacts
  <2> QED BY <1>0, <2>1, <2>2 DEF LineTyped
<1>11. CASE WatchEvent \/ Debounced \/ SelfHeal \/ Change
  BY <1>0, <1>11 DEF WatchEvent, Debounced, SelfHeal, Change, lineVars, phoneVars, LineTyped
<1>12. CASE Notified
  <2>1. UNCHANGED <<listeners, lines, peers, toDaemon, connection, stream>>
    BY <1>12 DEF Notified, phoneVars
  <2>2. toViewer' \in Queues
    BY <1>0, <1>12, NotifiedFacts
  <2> QED BY <1>0, <2>1, <2>2 DEF LineTyped
<1>13. ASSUME NEW l \in Lines, Handle(l) PROVE LineTyped'
  <2>1. UNCHANGED <<lines, peers, connection, stream>>
    BY <1>13 DEF Handle, phoneVars
  <2> QED BY <1>0, <1>13, <2>1, HandleFacts DEF LineTyped
<1>14. ASSUME NEW l \in Lines, Gone(l) PROVE LineTyped'
  <2>1. UNCHANGED <<lines, connection, stream>> /\ Closes(l)
    BY <1>14 DEF Gone, Closes, phoneVars
  <2> QED BY <1>0, <2>1, ClosesFacts DEF LineTyped
<1>15. CASE PeerFails
  <2>1. UNCHANGED <<lines, connection, stream>> /\ Closes(connection) /\ connection \in Lines
    BY <1>0, <1>15, LineFacts DEF PeerFails, Closes, phoneVars
  <2> QED BY <1>0, <2>1, ClosesFacts DEF LineTyped
<1> QED
  BY <1>1, <1>2, <1>3, <1>4, <1>5, <1>6, <1>7, <1>8, <1>9, <1>10, <1>11, <1>12, <1>13, <1>14, <1>15 DEF Next

LEMMA ScreenTypedNext ==
  ASSUME TypeOK, Next
  PROVE  ScreenTyped'
<1>0. ScreenTyped /\ effects \in Nat
  BY TypedParts, GitStatusBounds DEF ScreenTyped
<1>1. CASE ReadServed \/ ReadEnds \/ ReadFails \/ DesktopMounts \/ DesktopUnmounts \/ DesktopTold \/ WatchEvent \/ Debounced \/ SelfHeal \/ Notified \/ Change \/ PhoneTold
  BY <1>0, <1>1 DEF ReadServed, ReadEnds, ReadFails, DesktopMounts, DesktopUnmounts, DesktopTold, WatchEvent, Debounced, SelfHeal, Notified, Change, PhoneTold, phoneVars, ScreenTyped
<1>2. CASE PhoneMounts
  <2>1. CASE connection = 0
    BY <1>0, <1>2, <2>1 DEF PhoneMounts, ScreenTyped
  <2>2. CASE connection # 0
    <3>1. mounted' /\ mounted' \in BOOLEAN /\ connection' = connection /\ Enable(connection)
      BY <1>2, <2>2 DEF PhoneMounts
    <3>2. /\ effects' \in 1 .. MaxEffects /\ effect' = effects' /\ callback' = effects'
          /\ held' \in BOOLEAN
      BY <2>2, <3>1, EnableFacts, LineFacts
    <3> QED BY <2>2, <3>1, <3>2 DEF ScreenTyped
  <2> QED BY <2>1, <2>2
<1>3. CASE PhoneUnmounts
  <2>1. /\ ~mounted' /\ mounted' \in BOOLEAN /\ held' \in BOOLEAN
        /\ effect' = 0 /\ UNCHANGED <<connection, effects>>
    BY <1>3 DEF PhoneUnmounts
  <2>2. callback' \in {0, callback}
    BY <1>3 DEF PhoneUnmounts, Unsubscribe
  <2> QED BY <1>0, <2>1, <2>2 DEF ScreenTyped
<1>4. CASE Online
  <2>1. connection = 0 /\ mounted' = mounted /\ connection' = lines + 1 /\ lines + 1 \in Lines /\ lines + 1 # 0
    BY <1>4, LineFacts DEF Online
  <2>2. CASE mounted
    <3>1. Enable(lines + 1)
      BY <1>4, <2>2 DEF Online
    <3>2. /\ effects' \in 1 .. MaxEffects /\ effect' = effects' /\ callback' = effects'
          /\ held' \in BOOLEAN
      BY <2>1, <3>1, EnableFacts
    <3> QED BY <1>0, <2>1, <2>2, <3>2 DEF ScreenTyped
  <2>3. CASE ~mounted
    BY <1>0, <1>4, <2>1, <2>3 DEF Online, ScreenTyped
  <2> QED BY <2>2, <2>3
<1>5. CASE Offline
  <2>1. /\ held' \in BOOLEAN /\ effect' = 0 /\ callback' = 0 /\ connection' = 0
        /\ UNCHANGED <<mounted, effects>>
    BY <1>5 DEF Offline
  <2> QED BY <1>0, <2>1 DEF ScreenTyped
<1>6. CASE Subscribed
  <2>1. UNCHANGED <<mounted, connection, effect, effects>> /\ held' \in BOOLEAN /\ callback' \in {0, callback}
    BY <1>0, <1>6 DEF Subscribed, Unsubscribe, ScreenTyped
  <2> QED BY <1>0, <2>1 DEF ScreenTyped
<1>7. ASSUME NEW l \in Lines, Handle(l) PROVE ScreenTyped'
  BY <1>0, <1>7 DEF Handle, phoneVars, ScreenTyped
<1>8. ASSUME NEW l \in Lines, Gone(l) PROVE ScreenTyped'
  BY <1>0, <1>8 DEF Gone, Closes, phoneVars, ScreenTyped
<1>9. CASE PeerFails
  BY <1>0, <1>9 DEF PeerFails, Closes, phoneVars, ScreenTyped
<1> QED
  BY <1>1, <1>2, <1>3, <1>4, <1>5, <1>6, <1>7, <1>8, <1>9 DEF Next

LEMMA WatchTypedNext ==
  ASSUME TypeOK, Next
  PROVE  WatchTyped'
<1>0. WatchTyped
  BY TypedParts
<1>1. CASE ReadServed \/ ReadEnds \/ ReadFails \/ PhoneMounts \/ PhoneUnmounts \/ Online \/ Offline \/ Subscribed \/ PhoneTold \/ DesktopMounts \/ DesktopUnmounts \/ DesktopTold
  BY <1>0, <1>1 DEF ReadServed, ReadEnds, ReadFails, PhoneMounts, PhoneUnmounts, Online, Offline, Subscribed, PhoneTold, DesktopMounts, DesktopUnmounts, DesktopTold, watcherVars, WatchTyped
<1>2. CASE WatchEvent \/ Debounced
  BY <1>0, <1>2 DEF WatchEvent, Debounced, WatchTyped
<1>3. CASE SelfHeal \/ Notified
  BY <1>0, <1>3 DEF SelfHeal, Notified, WatchTyped
<1>4. CASE Change
  BY <1>0, <1>4 DEF Change, WatchTyped
<1>5. ASSUME NEW l \in Lines, Handle(l) PROVE WatchTyped'
  <2>1. inFlight' = inFlight
    BY <1>5 DEF Handle
  <2>2. Register(l) \/ Unregister(l)
    BY <1>5 DEF Handle
  <2> QED BY <1>0, <2>1, <2>2 DEF Register, Unregister, StartWatching, StopWatching, WatchTyped
<1>6. ASSUME NEW l \in Lines, Gone(l) PROVE WatchTyped'
  BY <1>0, <1>6 DEF Gone, Closes, Unregister, StopWatching, WatchTyped
<1>7. CASE PeerFails
  BY <1>0, <1>7 DEF PeerFails, Closes, Unregister, StopWatching, WatchTyped
<1> QED
  BY <1>1, <1>2, <1>3, <1>4, <1>5, <1>6, <1>7 DEF Next

LEMMA QueryTypedNext ==
  ASSUME TypeOK, Next
  PROVE  QueryTyped'
<1>0. QueryTyped
  BY TypedParts
<1> USE GitStatusBounds
<1>1. CASE ReadServed
  <2>1. [at |-> "served", got |-> repo] \in ReadSet
    BY <1>0 DEF QueryTyped, ReadSet
  <2> QED BY <1>0, <1>1, <2>1 DEF ReadServed, QueryTyped
<1>2. CASE ReadEnds
  <2>1. read.got \in Versions \cup {0}
    <3>1. read \in ReadSet /\ read.at = "served"
      BY <1>0, <1>2 DEF QueryTyped, ReadEnds
    <3> QED BY <3>1, ReadFacts DEF ReadSet
  <2> QED BY <1>0, <1>2, <2>1, ReadFacts DEF ReadEnds, QueryTyped
<1>3. CASE ReadFails
  <2> QED BY <1>0, <1>3, ReadFacts DEF ReadFails, Fault, QueryTyped
<1>4. CASE PhoneMounts
  <2>1. UNCHANGED <<repo, shown, invalid, faults>>
    BY <1>4 DEF PhoneMounts
  <2>2. read' \in ReadSet /\ missed' \in BOOLEAN
    <3>1. CASE connection = 0
      BY <1>0, <1>4, <3>1 DEF PhoneMounts, QueryTyped
    <3>2. CASE connection # 0
      BY <1>4, <3>2, EnableFacts, LineFacts DEF PhoneMounts
    <3> QED BY <3>1, <3>2
  <2> QED BY <1>0, <2>1, <2>2 DEF QueryTyped
<1>5. CASE Online
  <2>1. UNCHANGED <<repo, shown, invalid, faults>>
    BY <1>5 DEF Online
  <2>2. read' \in ReadSet /\ missed' \in BOOLEAN
    <3>1. CASE ~mounted
      BY <1>0, <1>5, <3>1 DEF Online, QueryTyped
    <3>2. CASE mounted
      BY <1>5, <3>2, EnableFacts, LineFacts DEF Online
    <3> QED BY <3>1, <3>2
  <2> QED BY <1>0, <2>1, <2>2 DEF QueryTyped
<1>6. CASE PhoneUnmounts \/ Offline
  BY <1>0, <1>6 DEF PhoneUnmounts, Offline, queryVars, QueryTyped
<1>7. CASE Subscribed \/ DesktopMounts \/ DesktopUnmounts \/ DesktopTold \/ WatchEvent \/ Debounced \/ SelfHeal \/ Notified
  BY <1>0, <1>7 DEF Subscribed, DesktopMounts, DesktopUnmounts, DesktopTold, WatchEvent, Debounced, SelfHeal, Notified, queryVars, QueryTyped
<1>8. CASE PhoneTold
  <2>1. UNCHANGED <<repo, shown, faults>>
    BY <1>8 DEF PhoneTold
  <2>2. read' \in ReadSet /\ missed' \in BOOLEAN /\ invalid' \in BOOLEAN
    BY <1>0, <1>8, InvalidateFacts DEF PhoneTold, QueryTyped
  <2> QED BY <1>0, <2>1, <2>2 DEF QueryTyped
<1>9. CASE Change
  <2>1. /\ repo' \in Versions /\ UNCHANGED <<shown, invalid, read>>
        /\ faults' = faults \/ Fault
    BY <1>0, <1>9 DEF Change, queryVars, QueryTyped, Versions
  <2>2. missed' \in BOOLEAN
    BY <1>0, <1>9 DEF Change, QueryTyped
  <2> QED BY <1>0, <2>1, <2>2 DEF QueryTyped, Fault
<1>10. ASSUME NEW l \in Lines, Handle(l) PROVE QueryTyped'
  <2>1. UNCHANGED <<repo, shown, invalid, read>>
    BY <1>10 DEF Handle, queryVars
  <2>2. faults' = faults \/ Fault
    BY <1>10 DEF Handle, Register, StartWatching
  <2>3. missed' \in BOOLEAN
    BY <1>0, <1>10 DEF Handle, Register, Unheard, QueryTyped
  <2> QED BY <1>0, <2>1, <2>2, <2>3 DEF QueryTyped, Fault
<1>11. ASSUME NEW l \in Lines, Gone(l) PROVE QueryTyped'
  BY <1>0, <1>11 DEF Gone, Closes, queryVars, QueryTyped
<1>12. CASE PeerFails
  BY <1>0, <1>12 DEF PeerFails, Closes, Fault, queryVars, QueryTyped
<1> QED
  BY <1>1, <1>2, <1>3, <1>4, <1>5, <1>6, <1>7, <1>8, <1>9, <1>10, <1>11, <1>12 DEF Next

LEMMA TypedNext == ASSUME TypeOK, Next PROVE TypeOK'
<1>1. LineTyped' /\ WatchTyped' /\ ScreenTyped' /\ QueryTyped'
  BY LineTypedNext, WatchTypedNext, ScreenTypedNext, QueryTypedNext
<1> QED
  BY <1>1 DEF TypeOK, LineTyped, WatchTyped, ScreenTyped, QueryTyped, Queues, ReadSet


-----------------------------------------------------------------------------
(* The lines and the screens *)

LEMMA FrameFields == \A type, e : Frame(type, e).type = type /\ Frame(type, e).of = e
  BY DEF Frame

LEMMA OneLast == \A f : <<f>> # <<>> /\ LastOf(<<f>>) = f
  BY DEF LastOf

LEMMA ApartNext ==
  ASSUME TypeOK, Apart, Next
  PROVE  Apart'
<1>0. /\ connection \in 0 .. lines /\ stream \in 0 .. lines /\ lines \in Nat
      /\ toDaemon \in Queues /\ toViewer \in Queues
      /\ (connection # 0 => connection \in Lines) /\ (stream # 0 => stream \in Lines)
      /\ peers \subseteq 1 .. lines
  BY LineFacts DEF TypeOK
<1>1. CASE ReadServed \/ ReadEnds \/ ReadFails \/ WatchEvent \/ Debounced \/ SelfHeal \/ Change
  BY <1>0, <1>1 DEF ReadServed, ReadEnds, ReadFails, WatchEvent, Debounced, SelfHeal, Change, lineVars, phoneVars, Apart
<1>2. CASE PhoneMounts
  <2>1. UNCHANGED <<lines, toViewer, connection, stream>>
    BY <1>2 DEF PhoneMounts
  <2>2. connection # 0 => \A k \in Lines \ {connection} : toDaemon'[k] = toDaemon[k]
    BY <1>0, <1>2, EnableFacts DEF PhoneMounts
  <2>3. connection = 0 => toDaemon' = toDaemon
    BY <1>2 DEF PhoneMounts
  <2> QED BY <1>0, <2>1, <2>2, <2>3 DEF Apart
<1>3. CASE PhoneUnmounts
  <2>1. UNCHANGED <<lines, toViewer, connection, stream>>
    BY <1>3 DEF PhoneUnmounts
  <2>2. toDaemon' = toDaemon \/ (Unsubscribe(effect) /\ connection # 0)
    BY <1>3 DEF PhoneUnmounts, TypeOK
  <2>3. CASE toDaemon' = toDaemon
    BY <1>0, <2>1, <2>3 DEF Apart
  <2>4. CASE Unsubscribe(effect) /\ connection # 0
    BY <1>0, <2>1, <2>4, UnsubscribeFacts DEF Apart
  <2> QED BY <2>2, <2>3, <2>4
<1>4. CASE Online
  <2>1. /\ lines + 1 \in Lines /\ lines' = lines + 1 /\ connection' = lines + 1
        /\ UNCHANGED <<toViewer, stream>>
    BY <1>4, LineFacts DEF Online
  <2>2. \A k \in Lines \ {lines + 1} : toDaemon'[k] = toDaemon[k]
    BY <1>4, <2>1, EnableFacts DEF Online
  <2>3. connection' # stream'
    BY <1>0, <2>1
  <2>4. ASSUME NEW k \in Lines, k > lines' PROVE toDaemon'[k] = <<>> /\ toViewer'[k] = <<>>
    <3>1. k # lines + 1 /\ k > lines
      BY <1>0, <2>1, <2>4 DEF Lines
    <3>2. toDaemon[k] = <<>> /\ toViewer[k] = <<>>
      BY <3>1 DEF Apart
    <3> QED BY <2>1, <2>2, <3>1, <3>2
  <2> QED BY <2>3, <2>4 DEF Apart
<1>5. CASE Offline
  <2>1. UNCHANGED <<lines, toDaemon, stream>> /\ connection' = 0 /\ connection # 0
        /\ toViewer' = Cleared(toViewer, connection)
    BY <1>5 DEF Offline, Cleared
  <2> QED BY <1>0, <2>1, ClearFacts DEF Apart
<1>6. CASE Subscribed
  <2>1. UNCHANGED <<lines, connection, stream>> /\ connection # 0 /\ toViewer[connection] # <<>>
        /\ toViewer' = Popped(toViewer, connection)
    BY <1>6 DEF Subscribed, Next1, Take, Popped
  <2>2. toDaemon' = toDaemon \/ \E e : Unsubscribe(e)
    BY <1>6 DEF Subscribed
  <2>3. \A k \in Lines \ {connection} : toDaemon'[k] = toDaemon[k] /\ toViewer'[k] = toViewer[k]
    BY <1>0, <2>1, <2>2, PopFacts, UnsubscribeFacts
  <2> QED BY <1>0, <2>1, <2>3 DEF Apart
<1>7. CASE PhoneTold
  <2>1. UNCHANGED <<lines, connection, stream, toDaemon>> /\ connection # 0 /\ toViewer[connection] # <<>>
        /\ toViewer' = Popped(toViewer, connection)
    BY <1>7 DEF PhoneTold, Next1, Take, phoneVars, Popped
  <2> QED BY <1>0, <2>1, PopFacts DEF Apart
<1>8. CASE DesktopTold
  <2>1. UNCHANGED <<lines, connection, stream, toDaemon>> /\ stream # 0 /\ toViewer[stream] # <<>>
        /\ toViewer' = Popped(toViewer, stream)
    BY <1>8 DEF DesktopTold, Next1, Take, phoneVars, Popped
  <2> QED BY <1>0, <2>1, PopFacts DEF Apart
<1>9. CASE DesktopMounts
  <2>1. /\ lines + 1 \in Lines /\ lines' = lines + 1 /\ stream' = lines + 1
        /\ UNCHANGED <<toViewer, connection>>
        /\ toDaemon' = [toDaemon EXCEPT ![lines + 1] = <<Frame("subscribe", 0)>>]
    BY <1>9, LineFacts DEF DesktopMounts, phoneVars
  <2>2. \A k \in Lines \ {lines + 1} : toDaemon'[k] = toDaemon[k]
    BY <1>0, <2>1 DEF Queues
  <2>3. connection' # stream'
    BY <1>0, <2>1
  <2>4. ASSUME NEW k \in Lines, k > lines' PROVE toDaemon'[k] = <<>> /\ toViewer'[k] = <<>>
    <3>1. k # lines + 1 /\ k > lines
      BY <1>0, <2>1, <2>4 DEF Lines
    <3>2. toDaemon[k] = <<>> /\ toViewer[k] = <<>>
      BY <3>1 DEF Apart
    <3> QED BY <2>1, <2>2, <3>1, <3>2
  <2> QED BY <2>3, <2>4 DEF Apart
<1>10. CASE DesktopUnmounts
  <2>1. UNCHANGED <<lines, toDaemon, connection>> /\ stream' = 0 /\ stream # 0
        /\ toViewer' = Cleared(toViewer, stream)
    BY <1>10 DEF DesktopUnmounts, Cleared, phoneVars
  <2> QED BY <1>0, <2>1, ClearFacts DEF Apart
<1>11. CASE Notified
  <2>1. UNCHANGED <<lines, toDaemon, connection, stream>>
    BY <1>11 DEF Notified, phoneVars
  <2> QED BY <1>0, <1>11, <2>1, NotifiedFacts DEF Apart
<1>12. ASSUME NEW l \in Lines, Handle(l) PROVE Apart'
  <2>1. UNCHANGED <<lines, connection, stream>>
    BY <1>12 DEF Handle, phoneVars
  <2>2. ASSUME NEW k \in Lines, k > lines' PROVE toDaemon'[k] = <<>> /\ toViewer'[k] = <<>>
    <3>1. l \in peers /\ \A m \in Lines \ {l} : toDaemon'[m] = toDaemon[m] /\ toViewer'[m] = toViewer[m]
      BY <1>12, HandleFacts
    <3>2. k # l
      BY <1>0, <2>1, <2>2, <3>1 DEF Lines
    <3>3. toDaemon[k] = <<>> /\ toViewer[k] = <<>>
      BY <2>1, <2>2 DEF Apart
    <3> QED BY <3>1, <3>2, <3>3
  <2> QED BY <2>1, <2>2 DEF Apart
<1>13. ASSUME NEW l \in Lines, Gone(l) PROVE Apart'
  <2>1. UNCHANGED <<lines, connection, stream>> /\ Closes(l) /\ l \in peers
    BY <1>13 DEF Gone, Closes, phoneVars
  <2> QED BY <1>0, <2>1, ClosesFacts DEF Apart
<1>14. CASE PeerFails
  <2>1. UNCHANGED <<lines, connection, stream>> /\ Closes(connection) /\ connection # 0
    BY <1>0, <1>14 DEF PeerFails, Closes, phoneVars
  <2> QED BY <1>0, <2>1, ClosesFacts DEF Apart
<1> QED
  BY <1>1, <1>2, <1>3, <1>4, <1>5, <1>6, <1>7, <1>8, <1>9, <1>10, <1>11, <1>12, <1>13, <1>14 DEF Next

\* A step of the desktop's leaves the phone's line as it is.
LEMMA DesktopFacts ==
  ASSUME TypeOK, Apart, DesktopMounts \/ DesktopUnmounts \/ DesktopTold
  PROVE  /\ UNCHANGED <<connection, effect, effects, held, callback, mounted, listeners, read, shown,
                       missed, repo, event, debounceTimer, inFlight>>
         /\ connection # 0 => /\ toDaemon'[connection] = toDaemon[connection]
                              /\ toViewer'[connection] = toViewer[connection]
                              /\ connection \in peers' <=> connection \in peers
<1>0. /\ connection \in 0 .. lines /\ lines \in Nat /\ toDaemon \in Queues /\ toViewer \in Queues
      /\ (connection # 0 => connection \in Lines) /\ (stream # 0 => stream \in Lines)
      /\ connection # 0 => connection # stream
  BY LineFacts DEF TypeOK, Apart
<1>1. UNCHANGED <<connection, effect, effects, held, callback, mounted, listeners, read, shown,
                  missed, repo, event, debounceTimer, inFlight>>
  BY DEF DesktopMounts, DesktopUnmounts, DesktopTold, phoneVars, watcherVars, queryVars
<1>2. CASE DesktopMounts
  <2>1. /\ UNCHANGED toViewer /\ peers' = peers \cup {lines + 1}
        /\ toDaemon' = [toDaemon EXCEPT ![lines + 1] = <<Frame("subscribe", 0)>>]
    BY <1>2 DEF DesktopMounts
  <2> QED BY <1>0, <1>1, <2>1 DEF Queues
<1>3. CASE DesktopUnmounts
  <2>1. UNCHANGED <<toDaemon, peers>> /\ stream # 0 /\ toViewer' = Cleared(toViewer, stream)
    BY <1>3 DEF DesktopUnmounts, Cleared
  <2> QED BY <1>0, <1>1, <2>1, ClearFacts
<1>4. CASE DesktopTold
  <2>1. /\ UNCHANGED <<toDaemon, peers>> /\ stream # 0 /\ toViewer[stream] # <<>>
        /\ toViewer' = Popped(toViewer, stream)
    BY <1>4 DEF DesktopTold, Next1, Take, Popped
  <2> QED BY <1>0, <1>1, <2>1, PopFacts
<1> QED
  BY <1>2, <1>3, <1>4

LEMMA NumberedNext ==
  ASSUME TypeOK, Apart, Numbered, Next
  PROVE  Numbered'
<1>0. /\ toDaemon \in Queues /\ toViewer \in Queues /\ (connection # 0 => connection \in Lines)
      /\ connection \in 0 .. lines /\ lines \in Nat
  BY LineFacts DEF TypeOK
<1>1. CASE ReadServed \/ ReadEnds \/ ReadFails \/ WatchEvent \/ Debounced \/ SelfHeal \/ Change
  BY <1>0, <1>1 DEF ReadServed, ReadEnds, ReadFails, WatchEvent, Debounced, SelfHeal, Change, lineVars, phoneVars, Numbered
<1>2. CASE DesktopMounts \/ DesktopUnmounts \/ DesktopTold
  BY <1>2, DesktopFacts DEF Numbered
<1>3. CASE PhoneMounts
  <2>1. UNCHANGED <<toViewer, connection>>
    BY <1>3 DEF PhoneMounts
  <2>2. connection # 0 =>
          \A f \in Elements(toDaemon'[connection]) : f \in Elements(toDaemon[connection]) \/ f.of # 0
    BY <1>0, <1>3, EnableFacts DEF PhoneMounts
  <2> QED BY <2>1, <2>2 DEF Numbered
<1>4. CASE PhoneUnmounts
  <2>1. UNCHANGED <<toViewer, connection>>
    BY <1>4 DEF PhoneUnmounts
  <2>2. toDaemon' = toDaemon \/ (Unsubscribe(effect) /\ connection # 0)
    BY <1>4 DEF PhoneUnmounts, TypeOK
  <2>3. connection # 0 => \A f \in Elements(toDaemon'[connection]) :
          f \in Elements(toDaemon[connection]) \/ f.type = "unsubscribe"
    BY <2>2, UnsubscribeFacts
  <2> QED BY <2>1, <2>3 DEF Numbered
<1>5. CASE Online
  <2>1. /\ lines + 1 \in Lines /\ connection' = lines + 1 /\ UNCHANGED toViewer
        /\ Elements(toDaemon[lines + 1]) = {} /\ Elements(toViewer[lines + 1]) = {}
    BY <1>0, <1>5, LineFacts, EmptyElements DEF Online, Apart
  <2>2. \A f \in Elements(toDaemon'[lines + 1]) : f \in Elements(toDaemon[lines + 1]) \/ f.of # 0
    BY <1>5, <2>1, EnableFacts DEF Online
  <2> QED BY <2>1, <2>2 DEF Numbered
<1>6. CASE Offline
  BY <1>6 DEF Offline, Numbered
<1>7. CASE Subscribed
  <2>1. UNCHANGED connection /\ connection # 0 /\ toViewer[connection] # <<>>
        /\ toViewer' = Popped(toViewer, connection)
    BY <1>7 DEF Subscribed, Next1, Take, Popped
  <2>2. toDaemon' = toDaemon \/ \E e : Unsubscribe(e)
    BY <1>7 DEF Subscribed
  <2>3. \A f \in Elements(toDaemon'[connection]) :
          f \in Elements(toDaemon[connection]) \/ f.type = "unsubscribe"
    BY <2>1, <2>2, UnsubscribeFacts
  <2>4. Elements(toViewer'[connection]) \subseteq Elements(toViewer[connection])
    BY <1>0, <2>1, PopFacts
  <2> QED BY <2>1, <2>3, <2>4 DEF Numbered
<1>8. CASE PhoneTold
  <2>1. UNCHANGED <<connection, toDaemon>> /\ connection # 0 /\ toViewer[connection] # <<>>
        /\ toViewer' = Popped(toViewer, connection)
    BY <1>8 DEF PhoneTold, Next1, Take, phoneVars, Popped
  <2>2. Elements(toViewer'[connection]) \subseteq Elements(toViewer[connection])
    BY <1>0, <2>1, PopFacts
  <2> QED BY <2>1, <2>2 DEF Numbered
<1>9. CASE Notified
  <2>1. UNCHANGED <<toDaemon, connection>>
    BY <1>9 DEF Notified, phoneVars
  <2>2. connection # 0 => Elements(toViewer'[connection]) \subseteq Elements(toViewer[connection]) \cup {Changed}
    BY <1>0, <1>9, NotifiedFacts
  <2> QED BY <2>1, <2>2, FrameFields DEF Numbered, Changed
<1>10. ASSUME NEW l \in Lines, Handle(l) PROVE Numbered'
  <2>1. UNCHANGED connection
    BY <1>10 DEF Handle, phoneVars
  <2>2. CASE l = connection
    <3>1. Elements(toDaemon'[l]) \subseteq Elements(toDaemon[l])
      BY <1>10, HandleFacts
    <3>2. ASSUME NEW f \in Elements(toViewer'[l]), f.type = "subscribed" PROVE f.of # 0
      <4>1. \/ f \in Elements(toViewer[l])
            \/ \E g \in Elements(toDaemon[l]) : g.type = "subscribe" /\ f = Frame("subscribed", g.of)
        BY <1>10, HandleFacts
      <4> QED BY <1>0, <2>2, <3>2, <4>1, FrameFields, LineFacts DEF Numbered
    <3> QED BY <2>1, <2>2, <3>1, <3>2 DEF Numbered
  <2>3. CASE l # connection
    BY <1>0, <1>10, <2>1, <2>3, HandleFacts DEF Numbered
  <2> QED BY <2>2, <2>3
<1>11. ASSUME NEW l \in Lines, Gone(l) PROVE Numbered'
  <2>1. UNCHANGED connection /\ Closes(l) /\ l # connection
    BY <1>11 DEF Gone, Closes, phoneVars
  <2> QED BY <1>0, <2>1, ClosesFacts DEF Numbered
<1>12. CASE PeerFails
  <2>1. UNCHANGED connection /\ Closes(connection)
    BY <1>0, <1>12 DEF PeerFails, Closes, phoneVars
  <2> QED BY <1>0, <2>1, ClosesFacts DEF Numbered
<1> QED
  BY <1>1, <1>2, <1>3, <1>4, <1>5, <1>6, <1>7, <1>8, <1>9, <1>10, <1>11, <1>12 DEF Next

LEMMA ScreenNext ==
  ASSUME TypeOK, Apart, Numbered, Screen, Next
  PROVE  Screen'
<1>0. /\ toDaemon \in Queues /\ toViewer \in Queues /\ (connection # 0 => connection \in Lines)
      /\ connection \in 0 .. lines /\ lines \in Nat
      /\ (effect # 0 <=> mounted /\ connection # 0) /\ connection \in 0 .. lines
      /\ peers \subseteq Lines /\ 0 \notin Lines
  BY LineFacts DEF TypeOK
<1>1. CASE ReadServed \/ ReadEnds \/ ReadFails \/ WatchEvent \/ Debounced \/ SelfHeal \/ Change
  BY <1>0, <1>1 DEF ReadServed, ReadEnds, ReadFails, WatchEvent, Debounced, SelfHeal, Change, lineVars, phoneVars, Screen, Pending
<1>2. CASE DesktopMounts \/ DesktopUnmounts \/ DesktopTold
  <2>1. 0 \notin peers /\ 0 \notin peers'
    BY <1>0, LineTypedNext DEF LineTyped
  <2> QED BY <1>2, <2>1, DesktopFacts DEF Screen, Pending
<1>3. CASE PhoneMounts
  <2>1. UNCHANGED <<peers, connection>>
    BY <1>3 DEF PhoneMounts
  <2>2. CASE connection = 0
    BY <1>0, <1>3, <2>1, <2>2 DEF PhoneMounts, Screen, Pending
  <2>3. CASE connection # 0
    <3>1. Enable(connection) /\ connection \in Lines
      BY <1>0, <1>3, <2>3 DEF PhoneMounts
    <3>2. /\ effect' = callback' /\ ~held'
          /\ Frame("subscribe", callback') \in Elements(toDaemon'[connection])
      BY <3>1, EnableFacts
    <3> QED BY <2>1, <2>3, <3>2 DEF Screen, Pending
  <2> QED BY <2>2, <2>3
<1>4. CASE PhoneUnmounts
  <2>1. UNCHANGED <<peers, toViewer, connection>> /\ effect' = 0 /\ ~held'
    BY <1>4 DEF PhoneUnmounts
  <2>2. CASE effect # 0 /\ held
    <3>1. Unsubscribe(effect) /\ connection # 0 /\ callback = effect
      BY <1>0, <1>4, <2>2 DEF PhoneUnmounts, Screen
    <3>2. callback' = 0
      BY <3>1, UnsubscribeFacts
    <3> QED BY <2>1, <3>2 DEF Screen
  <2>3. CASE ~(effect # 0 /\ held)
    <3>1. UNCHANGED <<callback, toDaemon>> /\ ~held
      BY <1>4, <2>3 DEF PhoneUnmounts, Screen
    <3> QED BY <2>1, <3>1 DEF Screen, Pending
  <2> QED BY <2>2, <2>3
<1>5. CASE Online
  <2>1. lines + 1 \in Lines /\ connection' = lines + 1 /\ connection = 0
    BY <1>5, LineFacts DEF Online
  <2>2. CASE mounted
    <3>1. Enable(lines + 1)
      BY <1>5, <2>2 DEF Online
    <3>2. /\ effect' = callback' /\ ~held'
          /\ Frame("subscribe", callback') \in Elements(toDaemon'[lines + 1])
      BY <2>1, <3>1, EnableFacts
    <3> QED BY <1>0, <2>1, <3>2 DEF Screen, Pending
  <2>3. CASE ~mounted
    BY <1>0, <1>5, <2>1, <2>3 DEF Online, Screen
  <2> QED BY <2>2, <2>3
<1>6. CASE Offline
  BY <1>6 DEF Offline, Screen
<1>7. CASE Subscribed
  <2> DEFINE e == Head(toViewer[connection]).of
  <2>1. /\ UNCHANGED <<peers, connection, effect>> /\ connection # 0 /\ toViewer[connection] # <<>>
        /\ toViewer' = Popped(toViewer, connection) /\ Head(toViewer[connection]).type = "subscribed"
        /\ \/ e = effect /\ held' = TRUE /\ UNCHANGED <<callback, toDaemon>>
           \/ e # effect /\ Unsubscribe(e) /\ UNCHANGED held
    BY <1>7 DEF Subscribed, Next1, Take, Popped
  <2>2. /\ Head(toViewer[connection]) \in Elements(toViewer[connection])
        /\ Elements(toViewer[connection]) \subseteq Elements(toViewer'[connection]) \cup {Head(toViewer[connection])}
    BY <1>0, <2>1, PopFacts
  <2>3. e # 0
    BY <2>1, <2>2 DEF Numbered
  <2>4. Frame("subscribed", callback) \in Elements(toViewer[connection]) /\ callback # e
        => Frame("subscribed", callback) \in Elements(toViewer'[connection])
    BY <2>2, FrameFields
  <2> HIDE DEF e
  <2>5. CASE e = effect
    BY <2>1, <2>3, <2>5 DEF Screen
  <2>6. CASE e # effect /\ callback = e
    <3>1. callback' = 0
      BY <2>1, <2>6, UnsubscribeFacts
    <3> QED BY <2>1, <2>6, <3>1 DEF Screen
  <2>7. CASE e # effect /\ callback # e
    <3>1. UNCHANGED <<callback, toDaemon, held>>
      BY <2>1, <2>7, UnsubscribeFacts
    <3> QED BY <2>1, <2>4, <2>7, <3>1 DEF Screen, Pending
  <2> QED BY <2>5, <2>6, <2>7
<1>8. CASE PhoneTold
  <2>1. UNCHANGED <<peers, connection, toDaemon, effect, callback, held>> /\ connection # 0
        /\ toViewer[connection] # <<>> /\ Head(toViewer[connection]).type = "changed"
        /\ toViewer' = Popped(toViewer, connection)
    BY <1>8 DEF PhoneTold, Next1, Take, phoneVars, Popped
  <2>2. Elements(toViewer[connection]) \subseteq Elements(toViewer'[connection]) \cup {Head(toViewer[connection])}
    BY <1>0, <2>1, PopFacts
  <2>3. Frame("subscribed", callback) \in Elements(toViewer[connection])
        => Frame("subscribed", callback) \in Elements(toViewer'[connection])
    BY <2>1, <2>2, FrameFields
  <2> QED BY <2>1, <2>3 DEF Screen, Pending
<1>9. CASE Notified
  <2>1. UNCHANGED <<peers, toDaemon, connection, effect, callback, held>>
    BY <1>9 DEF Notified, phoneVars
  <2>2. connection # 0 => Elements(toViewer[connection]) \subseteq Elements(toViewer'[connection])
    BY <1>0, <1>9, NotifiedFacts
  <2> QED BY <1>0, <2>1, <2>2 DEF Screen, Pending
<1>10. ASSUME NEW l \in Lines, Handle(l) PROVE Screen'
  <2>1. UNCHANGED <<peers, connection, effect, callback, held>>
    BY <1>10 DEF Handle, phoneVars
  <2>2. CASE l = connection
    <3>1. Elements(toViewer[l]) \subseteq Elements(toViewer'[l])
      BY <1>10, HandleFacts
    <3>2. \A f \in Elements(toDaemon[l]) : f.type = "subscribe" =>
            f \in Elements(toDaemon'[l]) \/ Frame("subscribed", f.of) \in Elements(toViewer'[l])
      BY <1>10, <2>2, HandleFacts
    <3>3. Pending => Pending'
      BY <2>1, <2>2, <3>1, <3>2, FrameFields DEF Pending
    <3> QED BY <2>1, <3>3 DEF Screen
  <2>3. CASE l # connection
    <3>1. connection # 0 => /\ toDaemon'[connection] = toDaemon[connection]
                            /\ toViewer'[connection] = toViewer[connection]
      BY <1>0, <1>10, <2>3, HandleFacts
    <3> QED BY <1>0, <2>1, <3>1 DEF Screen, Pending
  <2> QED BY <2>2, <2>3
<1>11. ASSUME NEW l \in Lines, Gone(l) PROVE Screen'
  <2>1. UNCHANGED <<connection, effect, callback, held>> /\ Closes(l) /\ l # connection
    BY <1>11 DEF Gone, Closes, phoneVars
  <2> QED BY <1>0, <2>1, ClosesFacts DEF Screen, Pending
<1>12. CASE PeerFails
  <2>1. UNCHANGED <<connection, effect, callback, held>> /\ Closes(connection) /\ connection \in Lines
    BY <1>0, <1>12 DEF PeerFails, Closes, phoneVars
  <2> QED BY <1>0, <2>1, ClosesFacts DEF Screen
<1> QED
  BY <1>1, <1>2, <1>3, <1>4, <1>5, <1>6, <1>7, <1>8, <1>9, <1>10, <1>11, <1>12 DEF Next

LEMMA WantedNext ==
  ASSUME TypeOK, Apart, Screen, Wanted, Next
  PROVE  Wanted'
<1>0. /\ (connection # 0 => connection \in Lines /\ connection # stream)
      /\ (stream # 0 => stream \in Lines) /\ stream \in 0 .. lines
      /\ connection \in 0 .. lines /\ lines \in Nat
      /\ (effect # 0 <=> mounted /\ connection # 0)
      /\ peers \subseteq Lines /\ 0 \notin Lines /\ listeners \subseteq peers
  BY LineFacts DEF TypeOK, Apart
<1>1. CASE ReadServed \/ ReadEnds \/ ReadFails \/ WatchEvent \/ Debounced \/ SelfHeal \/ Change \/ Notified
  BY <1>0, <1>1 DEF ReadServed, ReadEnds, ReadFails, WatchEvent, Debounced, SelfHeal, Change, Notified, watcherVars, lineVars, phoneVars, Wanted, Wants
<1>2. CASE PhoneMounts
  <2>1. UNCHANGED <<listeners, peers, connection, stream>>
    BY <1>2 DEF PhoneMounts, watcherVars
  <2>2. CASE connection = 0
    BY <1>0, <1>2, <2>1, <2>2 DEF PhoneMounts, Wanted, Wants
  <2>3. CASE connection # 0
    <3>1. Enable(connection) /\ connection \in Lines
      BY <1>0, <1>2, <2>3 DEF PhoneMounts
    <3>2. /\ callback' \in 1 .. MaxEffects /\ toDaemon'[connection] # <<>>
          /\ LastOf(toDaemon'[connection]).type = "subscribe"
          /\ \A k \in Lines \ {connection} : toDaemon'[k] = toDaemon[k]
      BY <3>1, EnableFacts
    <3>3. Wants(connection)' /\ callback' # 0
      BY <2>1, <3>2 DEF Wants
    <3>4. \A k \in Lines \ {connection} : Wants(k)' <=> Wants(k)
      BY <2>1, <3>2 DEF Wants
    <3> QED BY <1>0, <2>1, <2>3, <3>3, <3>4 DEF Wanted
  <2> QED BY <2>2, <2>3
<1>3. CASE PhoneUnmounts
  <2>1. UNCHANGED <<listeners, peers, connection, stream>>
    BY <1>3 DEF PhoneUnmounts, watcherVars
  <2>2. CASE effect # 0 /\ held
    <3>1. Unsubscribe(effect) /\ connection # 0 /\ connection \in Lines /\ callback = effect
      BY <1>0, <1>3, <2>2 DEF PhoneUnmounts, Screen
    <3>2. ~Wants(connection)' /\ callback' = 0 /\ \A k \in Lines \ {connection} : Wants(k)' <=> Wants(k)
      BY <2>1, <3>1, UnsubscribeFacts DEF Wants
    <3> QED BY <1>0, <2>1, <3>2 DEF Wanted
  <2>3. CASE ~(effect # 0 /\ held)
    <3>1. UNCHANGED <<callback, toDaemon>>
      BY <1>3, <2>3 DEF PhoneUnmounts
    <3> QED BY <2>1, <3>1 DEF Wanted, Wants
  <2> QED BY <2>2, <2>3
<1>4. CASE Online
  <2>1. /\ lines + 1 \in Lines /\ lines + 1 \notin listeners /\ connection = 0
        /\ connection' = lines + 1 /\ peers' = peers \cup {lines + 1} /\ UNCHANGED <<listeners, stream>>
    BY <1>0, <1>4, LineFacts DEF Online, watcherVars
  <2>2. lines + 1 # stream /\ toDaemon[lines + 1] = <<>>
    BY <1>0, <2>1 DEF Apart
  <2>3. CASE mounted
    <3>1. Enable(lines + 1)
      BY <1>4, <2>3 DEF Online
    <3>2. /\ callback' \in 1 .. MaxEffects /\ toDaemon'[lines + 1] # <<>>
          /\ LastOf(toDaemon'[lines + 1]).type = "subscribe"
          /\ \A k \in Lines \ {lines + 1} : toDaemon'[k] = toDaemon[k]
      BY <2>1, <3>1, EnableFacts
    <3>3. Wants(connection)' /\ callback' # 0
      BY <2>1, <3>2 DEF Wants
    <3>4. \A k \in Lines \ {lines + 1} : Wants(k)' <=> Wants(k)
      BY <2>1, <3>2 DEF Wants
    <3>5. stream # 0 => (Wants(stream)' <=> Wants(stream))
      BY <1>0, <2>1, <2>2, <3>4
    <3> QED BY <1>0, <2>1, <2>2, <3>3, <3>5 DEF Wanted
  <2>4. CASE ~mounted
    <3>1. UNCHANGED <<callback, toDaemon>> /\ callback = 0
      BY <1>4, <2>1, <2>4 DEF Online, Screen
    <3> QED BY <1>0, <2>1, <2>2, <3>1 DEF Wanted, Wants
  <2> QED BY <2>3, <2>4
<1>5. CASE Offline
  BY <1>0, <1>5 DEF Offline, watcherVars, Wanted, Wants
<1>6. CASE Subscribed
  <2> DEFINE e == Head(toViewer[connection]).of
  <2>1. /\ UNCHANGED <<listeners, peers, connection, stream>> /\ connection # 0
        /\ UNCHANGED <<callback, toDaemon>> \/ Unsubscribe(e)
    BY <1>6 DEF Subscribed, Next1, watcherVars
  <2> HIDE DEF e
  <2>2. CASE UNCHANGED <<callback, toDaemon>>
    BY <2>1, <2>2 DEF Wanted, Wants
  <2>3. CASE Unsubscribe(e) /\ callback = e
    <3>1. ~Wants(connection)' /\ callback' = 0 /\ \A k \in Lines \ {connection} : Wants(k)' <=> Wants(k)
      BY <2>1, <2>3, UnsubscribeFacts DEF Wants
    <3> QED BY <1>0, <2>1, <3>1 DEF Wanted
  <2>4. CASE Unsubscribe(e) /\ callback # e
    BY <2>1, <2>4, UnsubscribeFacts DEF Wanted, Wants
  <2> QED BY <2>1, <2>2, <2>3, <2>4
<1>7. CASE PhoneTold
  BY <1>7 DEF PhoneTold, watcherVars, phoneVars, Wanted, Wants
<1>8. CASE DesktopMounts
  <2>1. /\ lines + 1 \in Lines /\ stream' = lines + 1 /\ peers' = peers \cup {lines + 1}
        /\ toDaemon' = [toDaemon EXCEPT ![lines + 1] = <<Frame("subscribe", 0)>>]
        /\ UNCHANGED <<listeners, connection, callback>>
    BY <1>8, LineFacts DEF DesktopMounts, watcherVars, phoneVars
  <2>2. toDaemon'[lines + 1] = <<Frame("subscribe", 0)>>
    BY <2>1, LineFacts DEF Queues
  <2>3. Wants(stream)'
    BY <2>1, <2>2, OneLast, FrameFields DEF Wants
  <2>4. connection # 0 => /\ toDaemon'[connection] = toDaemon[connection]
                          /\ connection \in peers' <=> connection \in peers
    BY <1>8, DesktopFacts
  <2>5. connection # 0 => (Wants(connection)' <=> Wants(connection))
    BY <2>1, <2>4 DEF Wants
  <2>6. connection = 0 => connection \notin peers'
    BY <1>0, <2>1
  <2> QED BY <2>1, <2>3, <2>4, <2>5, <2>6 DEF Wanted
<1>9. CASE DesktopUnmounts \/ DesktopTold
  BY <1>9 DEF DesktopUnmounts, DesktopTold, watcherVars, phoneVars, Wanted, Wants
<1>10. ASSUME NEW l \in Lines, Handle(l) PROVE Wanted'
  <2>1. UNCHANGED <<peers, connection, stream, callback>>
    BY <1>10 DEF Handle, phoneVars
  <2>2. \A k \in Lines : Wants(k)' <=> Wants(k)
    BY <1>10, HandleFacts
  <2> QED BY <1>0, <2>1, <2>2 DEF Wanted
<1>11. ASSUME NEW l \in Lines, Gone(l) PROVE Wanted'
  <2>1. UNCHANGED <<connection, stream, callback>> /\ Closes(l) /\ l # connection /\ l # stream
    BY <1>11 DEF Gone, Closes, phoneVars
  <2>2. peers' = peers \ {l} /\ \A k \in Lines \ {l} : Wants(k)' <=> Wants(k)
    BY <2>1, ClosesFacts
  <2> QED BY <1>0, <2>1, <2>2 DEF Wanted
<1>12. CASE PeerFails
  <2>1. UNCHANGED <<connection, stream, callback>> /\ Closes(connection) /\ connection \in Lines
    BY <1>0, <1>12 DEF PeerFails, Closes, phoneVars
  <2>2. peers' = peers \ {connection} /\ \A k \in Lines \ {connection} : Wants(k)' <=> Wants(k)
    BY <2>1, ClosesFacts
  <2> QED BY <1>0, <2>1, <2>2 DEF Wanted
<1> QED
  BY <1>1, <1>2, <1>3, <1>4, <1>5, <1>6, <1>7, <1>8, <1>9, <1>10, <1>11, <1>12 DEF Next

\* The watch stops with its last listener.
LEMMA UnregisterWatched ==
  ASSUME Watched, NEW l, Unregister(l)
  PROVE  Watched'
<1>1. CASE listeners \ {l} = {}
  BY <1>1 DEF Unregister, StopWatching, Watched
<1>2. CASE listeners \ {l} # {}
  BY <1>2 DEF Unregister, Watched
<1> QED
  BY <1>1, <1>2

LEMMA WatchedNext ==
  ASSUME TypeOK, Watched, Next
  PROVE  Watched'
<1>1. CASE ReadServed \/ ReadEnds \/ ReadFails \/ PhoneMounts \/ PhoneUnmounts \/ Online \/ Offline \/ Subscribed \/ PhoneTold \/ DesktopMounts \/ DesktopUnmounts \/ DesktopTold
  BY <1>1 DEF ReadServed, ReadEnds, ReadFails, PhoneMounts, PhoneUnmounts, Online, Offline, Subscribed, PhoneTold, DesktopMounts, DesktopUnmounts, DesktopTold, watcherVars, Watched
<1>2. CASE WatchEvent
  BY <1>2 DEF WatchEvent, Watched
<1>3. CASE Debounced
  BY <1>3 DEF Debounced, Watched
<1>4. CASE SelfHeal \/ Notified
  BY <1>4 DEF SelfHeal, Notified, Watched
<1>5. CASE Change
  BY <1>5 DEF Change, Watched
<1>6. ASSUME NEW l \in Lines, Handle(l) PROVE Watched'
  <2>1. CASE Register(l)
    <3>1. listeners' = listeners \cup {l}
      BY <2>1 DEF Register
    <3>2. CASE listeners \ {l} = {}
      BY <2>1, <3>1, <3>2 DEF Register, StartWatching, Watched
    <3>3. CASE listeners \ {l} # {}
      BY <2>1, <3>1, <3>3 DEF Register, Watched
    <3> QED BY <3>2, <3>3
  <2>2. CASE Unregister(l)
    BY <2>2, UnregisterWatched
  <2> QED BY <1>6, <2>1, <2>2 DEF Handle
<1>7. ASSUME NEW l \in Lines, Gone(l) PROVE Watched'
  BY <1>7, UnregisterWatched DEF Gone, Closes
<1>8. CASE PeerFails
  BY <1>8, UnregisterWatched DEF PeerFails, Closes
<1> QED
  BY <1>1, <1>2, <1>3, <1>4, <1>5, <1>6, <1>7, <1>8 DEF Next

\* What a step keeps of the reasons for which the phone is told is enough.
LEMMA ToldKept ==
  ASSUME Told, UNCHANGED <<mounted, connection, read, shown, repo>>,
         missed => missed', connection # 0 /\ Due => Due' \/ missed'
  PROVE  Told'
<1>1. CASE mounted /\ connection # 0
  <2>1. CASE missed \/ Due
    BY <1>1, <2>1 DEF Told
  <2>2. CASE ~(missed \/ Due)
    BY <1>1, <2>2 DEF Told
  <2> QED BY <2>1, <2>2
<1>2. CASE ~mounted \/ connection = 0
  BY <1>2 DEF Told
<1> QED
  BY <1>1, <1>2

\* Another line's listener going leaves the watch to the phone's.
LEMMA UnregisterDue ==
  ASSUME NEW l, l # connection, Unregister(l), UNCHANGED <<connection, inFlight, toViewer>>
  PROVE  Due => Due'
<1>1. CASE connection \in listeners
  <2>1. listeners \ {l} # {} /\ listeners' = listeners \ {l}
    BY <1>1 DEF Unregister
  <2>2. UNCHANGED <<event, debounceTimer>>
    BY <2>1 DEF Unregister
  <2> QED BY <1>1, <2>1, <2>2 DEF Due
<1>2. CASE connection \notin listeners
  BY <1>2 DEF Due
<1> QED
  BY <1>1, <1>2

LEMMA ToldNext ==
  ASSUME TypeOK, Apart, Screen, Told, Next
  PROVE  Told'
<1>0. /\ toViewer \in Queues /\ (connection # 0 => connection \in Lines)
      /\ (effect # 0 <=> mounted /\ connection # 0) /\ effect \in 0 .. effects /\ effects \in Nat
      /\ missed \in BOOLEAN /\ read \in ReadSet
  BY LineFacts DEF TypeOK, ReadSet
<1>1. CASE ReadServed
  <2>1. /\ read = Sent /\ read'.at = "served" /\ read'.got = repo'
        /\ UNCHANGED <<mounted, connection, missed>>
    BY <1>1 DEF ReadServed, phoneVars
  <2> QED BY <2>1, ReadFacts DEF Told
<1>2. CASE ReadEnds
  <2>1. /\ read.at = "served" /\ shown' = read.got /\ read' = NotRead
        /\ UNCHANGED <<mounted, connection, missed, repo, listeners, event, debounceTimer, inFlight, toViewer>>
    BY <1>2 DEF ReadEnds, phoneVars, watcherVars, lineVars
  <2>2. Due' <=> Due
    BY <2>1 DEF Due
  <2> QED BY <2>1, <2>2, ReadFacts DEF Told
<1>3. CASE ReadFails
  BY <1>3 DEF ReadFails, Told
<1>4. CASE PhoneMounts
  <2>1. UNCHANGED <<connection, shown>> /\ ~mounted
    BY <1>4 DEF PhoneMounts
  <2>2. CASE connection = 0
    BY <1>4, <2>1, <2>2 DEF PhoneMounts, Told
  <2>3. CASE connection # 0
    <3>1. Enable(connection) /\ connection \in Lines
      BY <1>0, <1>4, <2>3 DEF PhoneMounts
    <3>2. \/ read = NotRead /\ read' = Sent /\ missed' = FALSE
          \/ read # NotRead /\ read' = read /\ missed' = missed
          \/ shown # 0 /\ read' = read /\ missed' = missed
      BY <3>1, EnableFacts
    <3>3. mounted' /\ connection' # 0
      BY <1>4, <2>1, <2>3 DEF PhoneMounts
    <3>4. read' = Sent \/ missed'
      <4>1. missed \/ (read = NotRead /\ shown = 0)
        BY <2>1 DEF Told
      <4> QED BY <3>2, <4>1
    <3> QED BY <3>3, <3>4 DEF Told
  <2> QED BY <2>2, <2>3
<1>5. CASE PhoneUnmounts \/ Offline
  BY <1>5 DEF PhoneUnmounts, Offline, Told
<1>6. CASE Online
  <2>1. lines + 1 \in Lines /\ connection = 0 /\ UNCHANGED <<mounted, shown>>
    BY <1>6, LineFacts DEF Online
  <2>2. CASE ~mounted
    BY <1>6, <2>1, <2>2 DEF Online, Told
  <2>3. CASE mounted
    <3>1. Enable(lines + 1)
      BY <1>6, <2>3 DEF Online
    <3>2. \/ read = NotRead /\ read' = Sent /\ missed' = FALSE
          \/ read # NotRead /\ read' = read /\ missed' = missed
          \/ shown # 0 /\ read' = read /\ missed' = missed
      BY <2>1, <3>1, EnableFacts
    <3>3. mounted' /\ connection' # 0
      BY <1>6, <2>1, <2>3, LineFacts DEF Online
    <3>4. read' = Sent \/ missed'
      <4>1. missed \/ (read = NotRead /\ shown = 0)
        BY <2>1 DEF Told
      <4> QED BY <3>2, <4>1
    <3> QED BY <3>3, <3>4 DEF Told
  <2> QED BY <2>2, <2>3
<1>7. CASE Subscribed
  <2>1. /\ UNCHANGED <<mounted, connection, read, shown, repo, missed>> /\ connection # 0
        /\ UNCHANGED <<listeners, event, debounceTimer, inFlight>> /\ toViewer[connection] # <<>>
        /\ Head(toViewer[connection]).type = "subscribed" /\ toViewer' = Popped(toViewer, connection)
    BY <1>7 DEF Subscribed, Next1, Take, Popped, queryVars, watcherVars
  <2>2. Elements(toViewer[connection]) \subseteq Elements(toViewer'[connection]) \cup {Head(toViewer[connection])}
    BY <1>0, <2>1, PopFacts
  <2>3. Changed \in Elements(toViewer[connection]) => Changed \in Elements(toViewer'[connection])
    BY <2>1, <2>2, FrameFields DEF Changed
  <2>4. Due => Due'
    BY <2>1, <2>3 DEF Due
  <2> QED BY <2>1, <2>4, ToldKept
<1>8. CASE PhoneTold
  <2>1. UNCHANGED <<mounted, connection, shown, repo>> /\ connection # 0
    BY <1>8 DEF PhoneTold, Next1, phoneVars
  <2>2. CASE mounted
    <3>1. Invalidate
      BY <1>0, <1>8, <2>1, <2>2 DEF PhoneTold, Screen
    <3>2. read' = Sent \/ (read' = read /\ read # NotRead /\ (read.at = "served" => missed'))
      BY <3>1, InvalidateFacts
    <3>3. read' = Sent \/ missed'
      BY <1>0, <3>2 DEF ReadSet
    <3> QED BY <2>1, <2>2, <3>3 DEF Told
  <2>3. CASE ~mounted
    <3>1. UNCHANGED <<read, missed>>
      BY <1>0, <1>8, <2>3 DEF PhoneTold
    <3> QED BY <2>1, <2>3, <3>1 DEF Told
  <2> QED BY <2>2, <2>3
<1>9. CASE DesktopMounts \/ DesktopUnmounts \/ DesktopTold
  <2>1. UNCHANGED <<mounted, connection, read, shown, repo, missed, listeners, event, debounceTimer, inFlight>>
    BY <1>9, DesktopFacts
  <2>2. connection # 0 => toViewer'[connection] = toViewer[connection]
    BY <1>9, DesktopFacts
  <2>3. connection # 0 /\ Due => Due'
    BY <2>1, <2>2 DEF Due
  <2> QED BY <2>1, <2>3, ToldKept
<1>10. CASE WatchEvent \/ Debounced \/ SelfHeal
  <2>1. UNCHANGED <<mounted, connection, read, shown, repo, missed, listeners, toViewer>>
    BY <1>10 DEF WatchEvent, Debounced, SelfHeal, phoneVars, queryVars, lineVars
  <2>2. event \/ debounceTimer \/ inFlight => event' \/ debounceTimer' \/ inFlight'
    BY <1>10 DEF WatchEvent, Debounced, SelfHeal
  <2>3. Due => Due'
    BY <2>1, <2>2 DEF Due
  <2> QED BY <2>1, <2>3, ToldKept
<1>11. CASE Notified
  <2>1. UNCHANGED <<mounted, connection, read, shown, repo, missed, listeners, event, debounceTimer>>
    BY <1>11 DEF Notified, phoneVars, queryVars
  <2>2. connection # 0 => Elements(toViewer[connection]) \subseteq Elements(toViewer'[connection])
    BY <1>0, <1>11, NotifiedFacts
  <2>3. connection # 0 /\ connection \in listeners => Changed \in Elements(toViewer'[connection])
    BY <1>11, NotifiedFacts
  <2>4. connection # 0 /\ Due => Due'
    BY <2>1, <2>2, <2>3 DEF Due
  <2> QED BY <2>1, <2>4, ToldKept
<1>12. CASE Change
  <2>1. /\ UNCHANGED <<mounted, connection, read, shown, listeners, toViewer>>
        /\ missed => missed'
        /\ missed' \/ (event' /\ connection \in listeners)
    BY <1>12 DEF Change, phoneVars, queryVars, lineVars
  <2>2. missed' \/ Due'
    BY <2>1 DEF Due
  <2> QED BY <2>1, <2>2 DEF Told
<1>13. ASSUME NEW l \in Lines, Handle(l) PROVE Told'
  <2>1. UNCHANGED <<mounted, connection, read, shown, repo, inFlight>>
    BY <1>13 DEF Handle, phoneVars, queryVars
  <2>2. connection # 0 => Elements(toViewer[connection]) \subseteq Elements(toViewer'[connection])
    BY <1>0, <1>13, HandleFacts
  <2>3. CASE Register(l)
    <3>1. listeners' = listeners \cup {l}
      BY <2>3 DEF Register
    <3>2. CASE listeners \ {l} = {}
      <4>1. missed' = (missed \/ (l = connection /\ (event \/ debounceTimer)))
        BY <2>3, <3>2 DEF Register
      <4>2. connection # 0 /\ Due => Due' \/ missed'
        BY <2>1, <2>2, <3>1, <3>2, <4>1 DEF Due
      <4> QED BY <2>1, <4>1, <4>2, ToldKept
    <3>3. CASE listeners \ {l} # {}
      <4>1. UNCHANGED <<event, debounceTimer, missed>>
        BY <2>3, <3>3 DEF Register
      <4>2. connection # 0 /\ Due => Due'
        BY <2>1, <2>2, <3>1, <4>1 DEF Due
      <4> QED BY <2>1, <4>1, <4>2, ToldKept
    <3> QED BY <3>2, <3>3
  <2>4. CASE Unregister(l) /\ Unheard(l) /\ UNCHANGED toViewer
    <3>1. missed' = (missed \/ (l = connection /\ (event \/ debounceTimer \/ inFlight)))
      BY <2>4 DEF Unheard
    <3>2. CASE l = connection
      <4>1. Due => Due' \/ missed'
        BY <2>1, <2>4, <3>1, <3>2 DEF Due
      <4> QED BY <2>1, <3>1, <4>1, ToldKept
    <3>3. CASE l # connection
      <4>1. Due => Due'
        BY <2>1, <2>4, <3>3, UnregisterDue
      <4> QED BY <2>1, <3>1, <4>1, ToldKept
    <3> QED BY <3>2, <3>3
  <2> QED BY <1>13, <2>3, <2>4 DEF Handle
<1>14. ASSUME NEW l \in Lines, Gone(l) PROVE Told'
  <2>1. /\ UNCHANGED <<mounted, connection, read, shown, repo, inFlight, toViewer, missed>>
        /\ Unregister(l) /\ l # connection
    BY <1>14 DEF Gone, Closes, phoneVars, queryVars
  <2>2. Due => Due'
    BY <2>1, UnregisterDue
  <2> QED BY <2>1, <2>2, ToldKept
<1>15. CASE PeerFails
  BY <1>15 DEF PeerFails, Told
<1> QED
  BY <1>1, <1>2, <1>3, <1>4, <1>5, <1>6, <1>7, <1>8, <1>9, <1>10, <1>11, <1>12, <1>13, <1>14, <1>15 DEF Next

-----------------------------------------------------------------------------
(* The theorems *)

LEMMA FollowingInit == ASSUME Init PROVE TypeOK /\ Following
<1>1. /\ toDaemon \in Queues /\ toViewer \in Queues
      /\ \A l \in Lines : toDaemon[l] = <<>> /\ toViewer[l] = <<>>
  BY EmptySeq DEF Init, Queues
<1>2. TypeOK
  <2>1. LineTyped
    BY <1>1, GitStatusBounds DEF Init, LineTyped
  <2>2. WatchTyped
    BY DEF Init, WatchTyped
  <2>3. ScreenTyped
    <3>1. held \in BOOLEAN /\ mounted \in BOOLEAN /\ ~mounted
      BY DEF Init
    <3>2. effects \in 0 .. MaxEffects /\ effect \in {0, effects} /\ callback \in 0 .. effects /\ effect = 0
      BY GitStatusBounds DEF Init
    <3> QED BY <3>1, <3>2 DEF ScreenTyped
  <2>4. QueryTyped
    <3>1. repo \in Versions /\ shown \in Versions \cup {0} /\ faults \in 0 .. MaxFaults
      BY GitStatusBounds DEF Init, Versions
    <3>2. invalid \in BOOLEAN /\ missed \in BOOLEAN /\ read \in ReadSet
      BY ReadFacts DEF Init
    <3> QED BY <3>1, <3>2 DEF QueryTyped
  <2> QED BY <2>1, <2>2, <2>3, <2>4, TypedParts
<1>3. Apart /\ Numbered /\ Screen /\ Wanted
  BY <1>1 DEF Init, Apart, Numbered, Screen, Wanted
<1>4. Watched
  BY DEF Init, Watched
<1>5. Told
  BY DEF Init, Told
<1> QED
  BY <1>2, <1>3, <1>4, <1>5 DEF Following

LEMMA FollowingNext ==
  ASSUME TypeOK /\ Following, [Next]_vars
  PROVE  (TypeOK /\ Following)'
<1>1. CASE Next
  <2>1. Apart /\ Numbered /\ Screen /\ Wanted /\ Watched /\ Told
    BY DEF Following
  <2>2. TypeOK' /\ Apart' /\ Numbered' /\ Screen' /\ Wanted' /\ Watched' /\ Told'
    BY <1>1, <2>1, TypedNext, ApartNext, NumberedNext, ScreenNext, WantedNext, WatchedNext, ToldNext
  <2> QED BY <2>2 DEF Following
<1>2. CASE UNCHANGED vars
  <2>1. UNCHANGED <<repo, listeners, treeWatcher, selfHealTimer, debounceTimer, inFlight, event,
                    lines, peers, toDaemon, toViewer, mounted, connection, effect, effects, held,
                    callback, stream, shown, invalid, read, faults, missed>>
    BY <1>2 DEF vars, watcherVars, lineVars, phoneVars, queryVars
  <2>2. TypeOK'
    BY <2>1 DEF TypeOK
  <2>3. Apart' /\ Numbered'
    BY <2>1 DEF Following, Apart, Numbered
  <2>4. Screen' /\ Wanted'
    BY <2>1 DEF Following, Screen, Pending, Wanted, Wants
  <2>5. Watched'
    BY <2>1 DEF Following, Watched
  <2>6. Due' <=> Due
    BY <2>1 DEF Due
  <2>7. Told'
    BY <2>1, <2>6 DEF Following, Told
  <2> QED BY <2>2, <2>3, <2>4, <2>5, <2>7 DEF Following
<1> QED
  BY <1>1, <1>2

\* The daemon's listeners, the phone's callback and answers, the watch and its timers, and
\* the screen's read follow each other through every order of mounts, answers, pushes and
\* closes (git-watch.ts, daemon-client.ts subscribeGitStatus, use-git-status.ts).
THEOREM FollowingKept == Spec => [](TypeOK /\ Following)
<1>1. Init => TypeOK /\ Following
  BY FollowingInit
<1>2. TypeOK /\ Following /\ [Next]_vars => (TypeOK /\ Following)'
  BY FollowingNext
<1> QED
  BY <1>1, <1>2, PTL DEF Spec

\* Every variable of the watch, the lines and the screens keeps its type.
THEOREM GitStatusTyped == Spec => []TypeOK
<1>1. TypeOK /\ Following => TypeOK
  OBVIOUS
<1> QED
  BY <1>1, FollowingKept, PTL

LEMMA FollowingWatch ==
  ASSUME TypeOK, Following
  PROVE  WatchAgrees
<1>1. Watched
  BY DEF Following
<1>2. ASSUME Quiet, peers = {connection, stream} \ {0}
      PROVE  listeners = {l \in {stream, IF effect # 0 THEN connection ELSE 0} : l # 0}
  <2>1. /\ listeners \subseteq {connection, stream} \ {0}
        /\ connection # 0 => connection \in Lines /\ connection \in peers
        /\ stream # 0 => stream \in Lines
        /\ (effect # 0 => connection # 0)
    BY <1>2, LineFacts DEF TypeOK
  <2>2. \A l \in Lines : toDaemon[l] = <<>> /\ toViewer[l] = <<>> /\ (Wants(l) <=> l \in listeners)
    BY <1>2 DEF Quiet, Wants
  <2>3. stream # 0 => stream \in listeners
    BY <2>1, <2>2 DEF Following, Wanted
  <2>4. connection # 0 => (connection \in listeners <=> callback # 0)
    BY <2>1, <2>2 DEF Following, Wanted
  <2>5. connection # 0 => ~Pending
    BY <2>1, <2>2, EmptyElements DEF Pending
  <2>6. connection # 0 => (callback # 0 <=> effect # 0)
    BY <2>1, <2>5 DEF Following, Screen
  <2>7. connection # 0 => connection # stream
    BY DEF Following, Apart
  <2> QED BY <2>1, <2>3, <2>4, <2>6, <2>7
<1> QED
  BY <1>1, <1>2 DEF Watched, WatchAgrees

LEMMA FollowingFresh ==
  ASSUME TypeOK, Following
  PROVE  Fresh
<1> SUFFICES ASSUME Quiet, mounted, read = NotRead, connection \in listeners PROVE shown = repo \/ missed
  BY DEF Fresh
<1>1. connection \in Lines /\ connection # 0
  BY LineFacts
<1>2. ~Due
  BY <1>1, EmptyElements DEF Due, Quiet
<1> QED
  BY <1>1, <1>2, ReadFacts DEF Following, Told

\* A folder is watched exactly while a screen shows it, and once nothing is under way the
\* phone shows the repository as it is, or has missed the change in a way the self-heal
\* is there for (git-watch.ts, subscribeGitStatus, useGitStatus).
THEOREM ServedHolds == Spec => []Served
<1>1. TypeOK /\ Following => Served
  BY FollowingWatch, FollowingFresh DEF Served
<1> QED
  BY <1>1, FollowingKept, PTL

=============================================================================
