---------------------------- MODULE PeersProofs ----------------------------
(***************************************************************************)
(* Theorems about Peers, for any phones, connections and bounds: its       *)
(* typing, and that its door is kept: no command is handled before a       *)
(* compatible hello, a phone that was let in stays known, and whatever     *)
(* ends a slot releases what it held.                                      *)
(***************************************************************************)
EXTENDS Peers, QueueLemmas, TLAPS

-----------------------------------------------------------------------------
(* The inductive invariant *)

\* One queue of frames of S for each connection.
Queues(S) == [Conns -> Seq(S)]

\* What waits in a write chain.
Chained == ToPhone \cup {CloseAfter}

\* The Mac keeps phone p: in its file, or in its list after a failed write of it.
Keeps(p) == p \in file \cup unsaved

\* A connection is handled once it is dialled, and a slot once it is accepted.
Dialled ==
  \A c \in Conns :
    /\ link[c] = "none" <=> incoming[c] = "none"
    /\ link[c] # "none" => who[c] \in Phones
    /\ c \in peers \cup verified => incoming[c] = "over"

\* Only a compatible phone's hello is on its way, passes the gate and lets commands be handled.
Compatible ==
  \A c \in Conns :
    c \in verified \cup handled \/ "hello" \in Elements(toDaemon[c]) =>
      link[c] # "none" /\ who[c] \notin Outdated

\* Whoever is accepted, or is told so, is kept by the Mac.
Accepted ==
  \A c \in Conns :
    \/ incoming[c] = "acceptBi" \/ c \in peers
    \/ "server_info" \in Elements(writeChain[c]) \/ "server_info" \in Elements(toPhone[c])
    \/ phone[c] = "ready"
    => link[c] # "none" /\ Keeps(who[c])

\* The list and the file differ only by what could not be written.
Listed == file \subseteq known /\ \A p \in known : Keeps(p)

\* Inductive together with TypeOK.
Door == Dialled /\ Compatible /\ Accepted /\ Listed /\ Gated

-----------------------------------------------------------------------------
(* Queues and closes *)

\* A close reaches dialled connections only, and keeps the others as they are.
LEMMA CloseLinksFacts ==
  ASSUME TypeOK, NEW STATE S, CloseLinks(S)
  PROVE  /\ link' \in [Conns -> {"none", "open", "silent", "closed"}]
         /\ \A c \in Conns : (link'[c] = "none") <=> (link[c] = "none")
         /\ \A c \in Conns : c \in S /\ link[c] # "none" => link'[c] = "closed"
         /\ \A c \in Conns : c \notin S => link'[c] = link[c]
         /\ \A c \in Conns : link[c] = "closed" => link'[c] = "closed"
  BY DEF TypeOK, CloseLinks

LEMMA PushFrames ==
  ASSUME NEW S, NEW queue \in Queues(S), NEW c \in Conns, NEW frame \in S
  PROVE  /\ Push(queue, c, frame) \in Queues(S)
         /\ Elements(Push(queue, c, frame)[c]) = Elements(queue[c]) \cup {frame}
         /\ \A d \in Conns \ {c} : Push(queue, c, frame)[d] = queue[d]
<1>1. Append(queue[c], frame) \in Seq(S)
  BY AppendElements DEF Queues
<1>2. /\ Push(queue, c, frame) \in Queues(S)
      /\ Push(queue, c, frame)[c] = Append(queue[c], frame)
      /\ \A d \in Conns \ {c} : Push(queue, c, frame)[d] = queue[d]
  BY <1>1 DEF Push, Queues
<1> DEFINE q == queue[c]
<1>3. q \in Seq(S)
  BY DEF Queues
<1>4. Elements(Append(q, frame)) = Elements(q) \cup {frame}
  <2> HIDE DEF q
  <2> QED BY <1>3, AppendElements
<1> QED
  BY <1>2, <1>4, Zenon

LEMMA PopFrames ==
  ASSUME NEW S, NEW queue \in Queues(S), NEW c \in Conns, queue[c] # <<>>
  PROVE  /\ Pop(queue, c) \in Queues(S)
         /\ Head(queue[c]) \in S /\ Head(queue[c]) \in Elements(queue[c])
         /\ \A d \in Conns : Elements(Pop(queue, c)[d]) \subseteq Elements(queue[d])
<1>1. /\ Tail(queue[c]) \in Seq(S) /\ Head(queue[c]) \in S
      /\ Head(queue[c]) \in Elements(queue[c])
      /\ Elements(Tail(queue[c])) \subseteq Elements(queue[c])
  BY TailElements DEF Queues
<1> QED
  BY <1>1 DEF Pop, Queues

LEMMA ForgetFacts ==
  ASSUME TypeOK, NEW S, Forget(S)
  PROVE  /\ writeChain' \in Queues(Chained)
         /\ \A d \in Conns : Elements(writeChain'[d]) \subseteq Elements(writeChain[d])
         /\ peers' = peers \ S
         /\ helloTimer' = helloTimer \ (S \cap peers)
         /\ listeners' = listeners \ (S \cap peers)
<1>1. writeChain \in Queues(Chained) /\ <<>> \in Seq(Chained)
  BY EmptySeq DEF TypeOK, Chained, Queues
<1> QED
  BY <1>1, EmptyElements DEF Forget, Queues

LEMMA SendFacts ==
  ASSUME TypeOK, NEW c \in Conns, NEW frame \in ToPhone, Send(c, frame)
  PROVE  /\ writeChain' \in Queues(Chained)
         /\ Elements(writeChain'[c]) \subseteq Elements(writeChain[c]) \cup {frame}
         /\ \A d \in Conns \ {c} : writeChain'[d] = writeChain[d]
         /\ c \notin peers => writeChain' = writeChain
<1>1. writeChain \in Queues(Chained) /\ frame \in Chained
  BY DEF TypeOK, Chained, Queues
<1>2. CASE c \in peers
  <2>1. writeChain' = Push(writeChain, c, frame)
    BY <1>2 DEF Send, Push
  <2> QED
    BY <1>1, <1>2, <2>1, PushFrames
<1>3. CASE c \notin peers
  BY <1>1, <1>3 DEF Send
<1> QED
  BY <1>2, <1>3

LEMMA ReadFacts ==
  ASSUME TypeOK, NEW c \in Conns, Read(c)
  PROVE  /\ c \in peers
         /\ toDaemon' \in Queues(ToDaemon)
         /\ \A d \in Conns : Elements(toDaemon'[d]) \subseteq Elements(toDaemon[d])
         /\ writeChain' \in Queues(Chained)
         /\ \A d \in Conns \ {c} : writeChain'[d] = writeChain[d]
         /\ verified \subseteq verified'
         /\ \A d \in verified' \ verified : d = c /\ "hello" \in Elements(toDaemon[c])
         /\ helloTimer' = helloTimer \ (verified' \ verified)
         /\ working' \subseteq working \cup {c} /\ listeners' \subseteq listeners \cup {c}
         /\ \A d \in handled' \ handled : d = c /\ c \in verified
<1> DEFINE frame == Head(toDaemon[c])
<1>1. c \in Conns /\ writeChain \in Queues(Chained) /\ toDaemon \in Queues(ToDaemon)
  BY DEF TypeOK, Chained, Queues
<1>2. /\ c \in peers /\ toDaemon[c] # <<>> /\ Frame(c, frame)
      /\ toDaemon' = Pop(toDaemon, c)
  BY DEF Read
<1>3. /\ frame \in ToDaemon /\ frame \in Elements(toDaemon[c])
      /\ toDaemon' \in Queues(ToDaemon)
      /\ \A d \in Conns : Elements(toDaemon'[d]) \subseteq Elements(toDaemon[d])
  BY <1>1, <1>2, PopFrames
<1> HIDE DEF frame
<1>4. CASE frame = "hello" /\ c \notin verified
  <2>1. Send(c, "server_info") /\ "server_info" \in ToPhone
    BY <1>2, <1>4 DEF Frame, ToPhone
  <2>2. /\ writeChain' \in Queues(Chained)
        /\ \A d \in Conns \ {c} : writeChain'[d] = writeChain[d]
    BY <1>1, <2>1, SendFacts
  <2> QED
    BY <1>2, <1>3, <1>4, <2>2 DEF Frame
<1>5. CASE frame \in {"oldHello", "command"} /\ c \notin verified
  <2>1. writeChain[c] \o <<"error", CloseAfter>> \in Seq(Chained)
    BY <1>1, ConcatTyped DEF Chained, ToPhone, Queues
  <2>2. /\ writeChain' = [writeChain EXCEPT ![c] = @ \o <<"error", CloseAfter>>]
        /\ UNCHANGED <<verified, helloTimer, working, listeners, handled>>
    BY <1>2, <1>5 DEF Frame
  <2>3. /\ writeChain' \in Queues(Chained)
        /\ \A d \in Conns \ {c} : writeChain'[d] = writeChain[d]
    BY <1>1, <2>1, <2>2 DEF Queues
  <2> QED
    BY <1>2, <1>3, <2>2, <2>3
<1>6. CASE frame = "command" /\ c \in verified
  BY <1>1, <1>2, <1>3, <1>6 DEF Frame
<1>7. CASE frame = "garbage" \/ (frame \in {"hello", "oldHello"} /\ c \in verified)
  BY <1>1, <1>2, <1>3, <1>7 DEF Frame
<1> QED
  BY <1>3, <1>4, <1>5, <1>6, <1>7 DEF ToDaemon

\* What the actions that may close slots have in common: who leaves is hung up on,
\* and takes its timer and its subscriptions along.
HangsUp ==
  /\ link' \in [Conns -> {"none", "open", "silent", "closed"}]
  /\ \A d \in Conns : link'[d] = "none" <=> link[d] = "none"
  /\ \A d \in Conns : link[d] = "closed" => link'[d] = "closed"
  /\ writeChain' \in Queues(Chained)
  /\ \A d \in Conns : Elements(writeChain'[d]) \subseteq Elements(writeChain[d])
  /\ peers' \subseteq peers /\ helloTimer' \subseteq helloTimer /\ listeners' \subseteq listeners
  /\ \A d \in peers \ peers' :
       /\ link[d] # "none" => link'[d] = "closed"
       /\ d \notin helloTimer' \cup listeners'

LEMMA ForgetHangsUp ==
  ASSUME TypeOK, NEW S, NEW T, Forget(S), CloseLinks(T), S \cap peers \subseteq T
  PROVE  HangsUp
<1>1. peers \subseteq Conns
  BY DEF TypeOK
<1>2. /\ link' \in [Conns -> {"none", "open", "silent", "closed"}]
      /\ \A d \in Conns : link'[d] = "none" <=> link[d] = "none"
      /\ \A d \in Conns : link[d] = "closed" => link'[d] = "closed"
      /\ \A d \in Conns \cap T : link[d] # "none" => link'[d] = "closed"
  BY CloseLinksFacts
<1>3. /\ writeChain' \in Queues(Chained)
      /\ \A d \in Conns : Elements(writeChain'[d]) \subseteq Elements(writeChain[d])
      /\ peers' = peers \ S
      /\ helloTimer' = helloTimer \ (S \cap peers) /\ listeners' = listeners \ (S \cap peers)
  BY ForgetFacts
<1> QED
  BY <1>1, <1>2, <1>3 DEF HangsUp

LEMMA WriteFacts ==
  ASSUME TypeOK, NEW c \in Conns, NEW fails \in BOOLEAN, Write(c, fails)
  PROVE  /\ HangsUp
         /\ toPhone' \in Queues(ToPhone)
         /\ \A d \in Conns : Elements(toPhone'[d]) \subseteq Elements(toPhone[d]) \cup Elements(writeChain[d])
<1> DEFINE next == Head(writeChain[c])
<1>1. /\ writeChain \in Queues(Chained) /\ writeChain[c] # <<>> /\ toPhone \in Queues(ToPhone)
  BY DEF TypeOK, Write, Chained, Queues
<1>2. /\ next \in Chained /\ next \in Elements(writeChain[c])
      /\ Pop(writeChain, c) \in Queues(Chained)
      /\ \A d \in Conns : Elements(Pop(writeChain, c)[d]) \subseteq Elements(writeChain[d])
  BY <1>1, PopFrames
<1> HIDE DEF next
<1>3. /\ toPhone' \in Queues(ToPhone)
      /\ \A d \in Conns : Elements(toPhone'[d]) \subseteq Elements(toPhone[d]) \cup Elements(writeChain[d])
  <2>1. CASE toPhone' = toPhone
    BY <1>1, <2>1
  <2>2. CASE toPhone' = Push(toPhone, c, next) /\ next # CloseAfter
    <3>1. next \in ToPhone
      BY <1>2, <2>2 DEF Chained
    <3>2. /\ Push(toPhone, c, next) \in Queues(ToPhone)
          /\ Elements(Push(toPhone, c, next)[c]) = Elements(toPhone[c]) \cup {next}
          /\ \A d \in Conns \ {c} : Push(toPhone, c, next)[d] = toPhone[d]
      BY <1>1, <3>1, PushFrames
    <3>3. Elements(toPhone'[c]) \subseteq Elements(toPhone[c]) \cup Elements(writeChain[c])
      BY <1>2, <2>2, <3>2
    <3> QED
      BY <2>2, <3>2, <3>3
  <2> QED
    BY <2>1, <2>2 DEF Write, next
<1>4. CASE ClosePeers({c})
  <2>1. HangsUp
    BY <1>4, ForgetHangsUp DEF ClosePeers
  <2> QED
    BY <1>3, <2>1
<1>5. CASE writeChain' = Pop(writeChain, c) /\ UNCHANGED <<peers, helloTimer, listeners, link>>
  <2>1. HangsUp
    BY <1>2, <1>5 DEF HangsUp, TypeOK
  <2> QED
    BY <1>3, <2>1
<1> QED
  BY <1>4, <1>5 DEF Write, next

LEMMA CloseFacts ==
  ASSUME TypeOK
  PROVE  /\ \A c \in Conns : Closed(c) \/ HelloTimeout(c) => HangsUp
         /\ Stop => HangsUp
<1>1. ASSUME NEW c \in Conns, Closed(c) PROVE HangsUp
  BY <1>1, ForgetHangsUp DEF Closed, ClosePeers
<1>2. ASSUME NEW c \in Conns, HelloTimeout(c) PROVE HangsUp
  <2>1. CASE c \in peers
    BY <1>2, <2>1, ForgetHangsUp DEF HelloTimeout
  <2>2. CASE c \notin peers
    <3>1. /\ link' \in [Conns -> {"none", "open", "silent", "closed"}]
          /\ \A d \in Conns : link'[d] = "none" <=> link[d] = "none"
          /\ \A d \in Conns : link[d] = "closed" => link'[d] = "closed"
      BY <1>2, <2>2, CloseLinksFacts DEF HelloTimeout
    <3>2. /\ writeChain' \in Queues(Chained) /\ writeChain' = writeChain /\ peers' = peers
          /\ helloTimer' \subseteq helloTimer /\ listeners' = listeners
      BY <1>2, <2>2 DEF HelloTimeout, TypeOK, Queues, Chained
    <3> QED
      BY <3>1, <3>2 DEF HangsUp
  <2> QED
    BY <2>1, <2>2
<1>3. ASSUME Stop PROVE HangsUp
  BY <1>3, ForgetHangsUp DEF Stop
<1> QED
  BY <1>1, <1>2, <1>3

-----------------------------------------------------------------------------
(* Typing *)

\* The types, the queues' by the name of what they hold.
Typed ==
  /\ server \in {"binding", "bound", "stopped", "closed", "off"} /\ pairing \in BOOLEAN
  /\ known \subseteq Phones /\ file \subseteq Phones
  /\ link \in [Conns -> {"none", "open", "silent", "closed"}]
  /\ who \in [Conns -> Phones \cup {NoPhone}]
  /\ incoming \in [Conns -> {"none", "connect", "connectTunnel", "acceptBi", "tunnel", "over"}]
  /\ peers \cup verified \cup helloTimer \cup working \cup listeners \subseteq Conns
  /\ writeChain \in Queues(Chained) /\ toPhone \in Queues(ToPhone) /\ toDaemon \in Queues(ToDaemon)
  /\ phone \in [Conns -> {"none", "dial", "hello", "ready", "tunnel", "refused", "failed"}]
  /\ frames \in 0 .. MaxFrames /\ windows \in 0 .. MaxWindows /\ faults \in 0 .. MaxFaults
  /\ handled \cup strays \subseteq Conns /\ greeted \cup unsaved \subseteq Phones

LEMMA TypedQueues == /\ TypeOK <=> Typed
                     /\ TypeOK' <=> Typed'
BY DEF TypeOK, Typed, Queues, Chained

LEMMA EmptiedFrames ==
  ASSUME NEW S, NEW queue \in Queues(S), NEW c \in Conns
  PROVE  [queue EXCEPT ![c] = <<>>] \in Queues(S) /\ [d \in Conns |-> <<>>] \in Queues(S)
<1>1. <<>> \in Seq(S)
  BY EmptySeq
<1> QED
  BY <1>1 DEF Queues

LEMMA NextTyped ==
  ASSUME TypeOK, Dialled, Accepted, Next
  PROVE  TypeOK'
<1> SUFFICES Typed'
  BY TypedQueues
<1>0. Typed
  BY TypedQueues
<1> USE PeersAssumption
<1>1. ASSUME NEW p \in Phones, NEW as \in {"dial", "tunnel"}, Dial(p, as) PROVE Typed'
  <2>1. PICK c \in Conns :
          /\ link' = [link EXCEPT ![c] = "open"] /\ who' = [who EXCEPT ![c] = p]
          /\ incoming' =
               [incoming EXCEPT ![c] = IF as = "dial" THEN "connect" ELSE "connectTunnel"]
          /\ phone' = [phone EXCEPT ![c] = as]
    BY <1>1 DEF Dial
  <2> QED
    BY <1>0, <1>1, <2>1 DEF Typed, Dial, slotVars, macVars, boundVars, historyVars
<1>2. ASSUME NEW c \in Conns, NEW frame \in {"command", "garbage"}, Strange(c, frame) PROVE Typed'
  <2>1. toDaemon' \in Queues(ToDaemon)
    BY <1>0, <1>2, PushFrames DEF Typed, ToDaemon, Strange
  <2> QED
    BY <1>0, <1>2, <2>1 DEF Typed, Strange, slotVars, macVars, historyVars
<1>3. ASSUME NEW c \in Conns, SayHello(c) PROVE Typed'
  <2>1. toDaemon' \in Queues(ToDaemon)
    BY <1>0, <1>3, PushFrames DEF Typed, ToDaemon, SayHello
  <2> QED
    BY <1>0, <1>3, <2>1 DEF Typed, SayHello, slotVars, macVars, boundVars, historyVars
<1>4. ASSUME NEW c \in Conns, PhoneHears(c) PROVE Typed'
  <2>1. toPhone' \in Queues(ToPhone)
    BY <1>0, <1>4, PopFrames DEF Typed, PhoneHears
  <2>2. link' \in [Conns -> {"none", "open", "silent", "closed"}]
    BY <1>4, CloseLinksFacts DEF PhoneHears
  <2>3. /\ phone' \in [Conns -> {"none", "dial", "hello", "ready", "tunnel", "refused", "failed"}]
        /\ UNCHANGED who
    BY <1>0, <1>4 DEF Typed, PhoneHears
  <2>4. greeted' \subseteq Phones
    <3>1. CASE greeted' = greeted
      BY <1>0, <3>1 DEF Typed
    <3>2. CASE phone[c] = "ready" \/ Head(toPhone[c]) = "server_info"
      <4>1. toPhone[c] # <<>> /\ toPhone \in Queues(ToPhone)
        BY <1>0, <1>4 DEF PhoneHears, Typed
      <4>2. phone[c] = "ready" \/ "server_info" \in Elements(toPhone[c])
        BY <3>2, <4>1, PopFrames
      <4>3. who[c] \in Phones
        BY <4>2 DEF Accepted, Dialled
      <4>4. greeted' \subseteq greeted \cup {who[c]}
        BY <1>4 DEF PhoneHears
      <4> QED BY <1>0, <4>3, <4>4 DEF Typed
    <3> QED
      BY <1>4, <3>1, <3>2 DEF PhoneHears
  <2> QED
    BY <1>0, <1>4, <2>1, <2>2, <2>3, <2>4 DEF Typed, PhoneHears, slotVars, macVars, boundVars
<1>5. ASSUME NEW c \in Conns, Deadline(c) PROVE Typed'
  <2>1. toPhone' \in Queues(ToPhone)
    BY <1>0, <1>5, EmptiedFrames DEF Typed, Deadline
  <2>2. link' \in [Conns -> {"none", "open", "silent", "closed"}]
    BY <1>5, CloseLinksFacts DEF Deadline
  <2> QED
    BY <1>0, <1>5, <2>1, <2>2 DEF Typed, Deadline, slotVars, macVars, boundVars, historyVars
<1>6. ASSUME NEW c \in Conns, PhoneCloses(c) PROVE Typed'
  <2>1. toPhone' \in Queues(ToPhone)
    BY <1>0, <1>6, EmptiedFrames DEF Typed, PhoneCloses
  <2>2. link' \in [Conns -> {"none", "open", "silent", "closed"}]
    BY <1>6, CloseLinksFacts DEF PhoneCloses
  <2> QED
    BY <1>0, <1>6, <2>1, <2>2 DEF Typed, PhoneCloses, slotVars, macVars, boundVars, historyVars
<1>7. ASSUME NEW c \in Conns, SendCommand(c) PROVE Typed'
  <2>1. toDaemon' \in Queues(ToDaemon)
    BY <1>0, <1>7, PushFrames DEF Typed, ToDaemon, SendCommand
  <2> QED
    BY <1>0, <1>7, <2>1 DEF Typed, SendCommand, slotVars, macVars, historyVars
<1>8. ASSUME NEW c \in Conns, PhoneGone(c) PROVE Typed'
  <2>1. toPhone' \in Queues(ToPhone)
    BY <1>0, <1>8, EmptiedFrames DEF Typed, PhoneGone
  <2> QED
    BY <1>0, <1>8, <2>1 DEF Typed, PhoneGone, Fault, slotVars, macVars, historyVars
<1>9. ASSUME NEW c \in Conns, IdleTimeout(c) PROVE Typed'
  <2>1. link' \in [Conns -> {"none", "open", "silent", "closed"}]
    BY <1>9, CloseLinksFacts DEF IdleTimeout
  <2> QED
    BY <1>0, <1>9, <2>1 DEF Typed, IdleTimeout, slotVars, macVars, boundVars, historyVars
<1>10. ASSUME NEW c \in Conns, ConnectFails(c) PROVE Typed'
  BY <1>0, <1>10 DEF Typed, ConnectFails, slotVars, macVars, wireVars, boundVars, historyVars
<1>11. ASSUME NEW c \in Conns, Rejected(c) PROVE Typed'
  <2>1. link' \in [Conns -> {"none", "open", "silent", "closed"}]
    BY <1>11, CloseLinksFacts DEF Rejected
  <2> QED
    BY <1>0, <1>11, <2>1 DEF Typed, Rejected, slotVars, macVars, boundVars, historyVars
<1>12. ASSUME NEW c \in Conns, Admitted(c) PROVE Typed'
  <2>1. who[c] \in Phones
    BY <1>12 DEF Admitted, Connecting, Dialled
  <2>2. link' \in [Conns -> {"none", "open", "silent", "closed"}]
    BY <1>0, <1>12, CloseLinksFacts DEF Typed, Admitted
  <2>3. known' \subseteq Phones /\ file' \subseteq Phones /\ unsaved' \subseteq Phones /\ helloTimer' \subseteq Conns
    BY <1>0, <1>12, <2>1 DEF Typed, Admitted
  <2>4. incoming' \in [Conns -> {"none", "connect", "connectTunnel", "acceptBi", "tunnel", "over"}]
    BY <1>0, <1>12 DEF Typed, Admitted
  <2> QED
    BY <1>0, <1>12, <2>1, <2>2, <2>3, <2>4 DEF Typed, Admitted, boundVars
<1>13. ASSUME NEW c \in Conns, NotSaved(c) PROVE Typed'
  <2>1. who[c] \in Phones
    BY <1>13 DEF NotSaved, Connecting, Dialled
  <2> QED
    BY <1>0, <1>13, <2>1 DEF Typed, NotSaved, Fault, slotVars, wireVars
<1>14. ASSUME NEW c \in Conns, StreamOpened(c) PROVE Typed'
  BY <1>0, <1>14 DEF Typed, StreamOpened, macVars, wireVars, boundVars, historyVars
<1>15. ASSUME NEW c \in Conns, StreamFailed(c) PROVE Typed'
  BY <1>0, <1>15 DEF Typed, StreamFailed, macVars, wireVars, boundVars, historyVars
<1>16. ASSUME NEW c \in Conns, HelloTimeout(c) PROVE Typed'
  <2>1. HangsUp
    BY <1>16, CloseFacts
  <2> QED
    BY <1>0, <1>16, <2>1 DEF Typed, HangsUp, HelloTimeout, macVars, boundVars, historyVars
<1>17. ASSUME NEW c \in Conns, Read(c) PROVE Typed'
  <2>1. /\ toDaemon' \in Queues(ToDaemon) /\ writeChain' \in Queues(Chained)
        /\ {c} \cup verified' \cup helloTimer' \cup working' \cup listeners' \cup handled' \subseteq Conns
    BY <1>0, <1>17, ReadFacts DEF Typed
  <2> QED
    BY <1>0, <1>17, <2>1 DEF Typed, Read, macVars, boundVars
<1>18. ASSUME NEW c \in Conns, Answer(c) PROVE Typed'
  <2>1. writeChain' \in Queues(Chained)
    BY <1>18, SendFacts DEF Answer, ToPhone
  <2> QED
    BY <1>0, <1>18, <2>1 DEF Typed, Answer, macVars, wireVars, boundVars, historyVars
<1>19. ASSUME NEW c \in Conns, Closed(c) PROVE Typed'
  <2>1. HangsUp
    BY <1>19, CloseFacts
  <2> QED
    BY <1>0, <1>19, <2>1 DEF Typed, HangsUp, Closed, macVars, boundVars, historyVars
<1>20. ASSUME NEW c \in Conns, NEW fails \in BOOLEAN, Write(c, fails) PROVE Typed'
  <2>1. HangsUp /\ toPhone' \in Queues(ToPhone)
    BY <1>20, WriteFacts
  <2>2. /\ UNCHANGED <<verified, working, macVars, incoming, who, toDaemon, phone, frames,
                        windows, historyVars>>
        /\ faults' \in 0 .. MaxFaults
    BY <1>0, <1>20 DEF Write, Fault, Typed
  <2> QED
    BY <1>0, <2>1, <2>2 DEF HangsUp, Typed, macVars, historyVars
<1>21. ASSUME PairWindow PROVE Typed'
  BY <1>0, <1>21 DEF Typed, PairWindow, slotVars, wireVars, historyVars
<1>22. ASSUME PairWindowClosed PROVE Typed'
  BY <1>0, <1>22 DEF Typed, PairWindowClosed, slotVars, wireVars, boundVars, historyVars
<1>23. ASSUME Bound PROVE Typed'
  BY <1>0, <1>23 DEF Typed, Bound, slotVars, wireVars, boundVars, historyVars
<1>24. ASSUME Stop PROVE Typed'
  <2>1. HangsUp
    BY <1>24, CloseFacts
  <2> QED
    BY <1>0, <1>24, <2>1 DEF Typed, HangsUp, Stop, Fault, historyVars
<1>25. ASSUME EndpointClosed PROVE Typed'
  <2>1. link' \in [Conns -> {"none", "open", "silent", "closed"}]
    BY <1>25, CloseLinksFacts DEF EndpointClosed
  <2> QED
    BY <1>0, <1>25, <2>1 DEF Typed, EndpointClosed, slotVars, boundVars, historyVars
<1>26. ASSUME Exit PROVE Typed'
  <2>1. link' \in [Conns -> {"none", "open", "silent", "closed"}]
    BY <1>26, CloseLinksFacts DEF Exit
  <2>2. writeChain' \in Queues(Chained)
    BY <1>26, EmptySeq DEF Exit, Queues
  <2>3. incoming' \in [Conns -> {"none", "connect", "connectTunnel", "acceptBi", "tunnel", "over"}]
    BY <1>26 DEF Exit
  <2> QED
    BY <1>0, <1>26, <2>1, <2>2, <2>3 DEF Typed, Exit, boundVars, historyVars
<1>27. ASSUME Start PROVE Typed'
  BY <1>0, <1>27 DEF Typed, Start, slotVars, wireVars, boundVars, historyVars
<1> QED
  BY <1>1, <1>2, <1>3, <1>4, <1>5, <1>6, <1>7, <1>8, <1>9, <1>10, <1>11, <1>12, <1>13,
     <1>14, <1>15, <1>16, <1>17, <1>18, <1>19, <1>20, <1>21, <1>22, <1>23, <1>24, <1>25, <1>26, <1>27
     DEF Next, PhoneStep, DaemonStep, MacStep

-----------------------------------------------------------------------------
(* The door *)

LEMMA DialledKept ==
  ASSUME TypeOK, Door, Next
  PROVE  Dialled'
<1> USE DEF Door
<1>1. ASSUME NEW p \in Phones, NEW as \in {"dial", "tunnel"}, Dial(p, as) PROVE Dialled'
  <2>1. PICK c \in Conns :
          /\ link[c] = "none" /\ link' = [link EXCEPT ![c] = "open"]
          /\ who' = [who EXCEPT ![c] = p]
          /\ incoming' =
               [incoming EXCEPT ![c] = IF as = "dial" THEN "connect" ELSE "connectTunnel"]
          /\ phone' = [phone EXCEPT ![c] = as]
    BY <1>1 DEF Dial
  <2> QED
    BY <1>1, <2>1 DEF TypeOK, Dialled, Dial, slotVars
<1>2. ASSUME NEW c \in Conns, NEW frame \in {"command", "garbage"}, Strange(c, frame) PROVE Dialled'
  BY <1>2 DEF Dialled, Strange, TypeOK, slotVars
<1>3. ASSUME NEW c \in Conns, SayHello(c) PROVE Dialled'
  BY <1>3 DEF Dialled, SayHello, TypeOK, slotVars
<1>4. ASSUME NEW c \in Conns, PhoneHears(c) PROVE Dialled'
  BY <1>4, CloseLinksFacts DEF Dialled, PhoneHears, TypeOK, slotVars
<1>5. ASSUME NEW c \in Conns, Deadline(c) PROVE Dialled'
  BY <1>5, CloseLinksFacts DEF Dialled, Deadline, TypeOK, slotVars
<1>6. ASSUME NEW c \in Conns, PhoneCloses(c) PROVE Dialled'
  BY <1>6, CloseLinksFacts DEF Dialled, PhoneCloses, TypeOK, slotVars
<1>7. ASSUME NEW c \in Conns, SendCommand(c) PROVE Dialled'
  BY <1>7 DEF Dialled, SendCommand, TypeOK, slotVars
<1>8. ASSUME NEW c \in Conns, PhoneGone(c) PROVE Dialled'
  BY <1>8 DEF Dialled, PhoneGone, TypeOK, slotVars
<1>9. ASSUME NEW c \in Conns, IdleTimeout(c) PROVE Dialled'
  BY <1>9, CloseLinksFacts DEF Dialled, IdleTimeout, TypeOK, slotVars
<1>10. ASSUME NEW c \in Conns, ConnectFails(c) PROVE Dialled'
  BY <1>10 DEF Dialled, ConnectFails, TypeOK, slotVars, wireVars
<1>11. ASSUME NEW c \in Conns, Rejected(c) PROVE Dialled'
  BY <1>11, CloseLinksFacts DEF Dialled, TypeOK, Rejected, Connecting, slotVars, wireVars
<1>12. ASSUME NEW c \in Conns, Admitted(c) PROVE Dialled'
  BY <1>12, CloseLinksFacts DEF Dialled, TypeOK, Admitted, Connecting, slotVars, wireVars
<1>13. ASSUME NEW c \in Conns, NotSaved(c) PROVE Dialled'
  BY <1>13, CloseLinksFacts DEF Dialled, TypeOK, NotSaved, Connecting, slotVars, wireVars
<1>14. ASSUME NEW c \in Conns, StreamOpened(c) PROVE Dialled'
  BY <1>14 DEF Dialled, StreamOpened, TypeOK, wireVars
<1>15. ASSUME NEW c \in Conns, StreamFailed(c) PROVE Dialled'
  BY <1>15 DEF Dialled, StreamFailed, TypeOK, wireVars
<1>16. ASSUME NEW c \in Conns, HelloTimeout(c) PROVE Dialled'
  <2>1. HangsUp
    BY <1>16, CloseFacts
  <2>2. UNCHANGED <<verified, known, file, incoming, who, toDaemon, phone, historyVars>>
    BY <1>16 DEF HelloTimeout, macVars, boundVars
  <2>3. /\ peers' \subseteq peers
        /\ \A d \in Conns : link'[d] = "none" <=> link[d] = "none"
    BY <2>1 DEF HangsUp
  <2> QED
    BY <2>2, <2>3 DEF Dialled, historyVars
<1>17. ASSUME NEW c \in Conns, Read(c) PROVE Dialled'
  BY <1>17, ReadFacts DEF TypeOK, Dialled, Read, macVars
<1>18. ASSUME NEW c \in Conns, Answer(c) PROVE Dialled'
  BY <1>18 DEF Dialled, Answer, TypeOK, wireVars
<1>19. ASSUME NEW c \in Conns, Closed(c) PROVE Dialled'
  <2>1. HangsUp
    BY <1>19, CloseFacts
  <2>2. UNCHANGED <<verified, known, file, incoming, who, toDaemon, phone, historyVars>>
    BY <1>19 DEF Closed, macVars, boundVars
  <2>3. /\ peers' \subseteq peers
        /\ \A d \in Conns : link'[d] = "none" <=> link[d] = "none"
    BY <2>1 DEF HangsUp
  <2> QED
    BY <2>2, <2>3 DEF Dialled, historyVars
<1>20. ASSUME NEW c \in Conns, NEW fails \in BOOLEAN, Write(c, fails) PROVE Dialled'
  <2>1. HangsUp
    BY <1>20, WriteFacts
  <2>2. UNCHANGED <<verified, known, file, incoming, who, toDaemon, phone, historyVars>>
    BY <1>20 DEF Write, macVars, boundVars
  <2>3. /\ peers' \subseteq peers
        /\ \A d \in Conns : link'[d] = "none" <=> link[d] = "none"
    BY <2>1 DEF HangsUp
  <2> QED
    BY <2>2, <2>3 DEF Dialled, historyVars
<1>21. ASSUME PairWindow PROVE Dialled'
  BY <1>21 DEF Dialled, PairWindow, TypeOK, slotVars, wireVars
<1>22. ASSUME PairWindowClosed PROVE Dialled'
  BY <1>22 DEF Dialled, PairWindowClosed, TypeOK, slotVars, wireVars
<1>23. ASSUME Bound PROVE Dialled'
  BY <1>23 DEF Dialled, Bound, TypeOK, slotVars, wireVars
<1>24. ASSUME Stop PROVE Dialled'
  <2>1. HangsUp
    BY <1>24, CloseFacts
  <2>2. UNCHANGED <<verified, known, file, incoming, who, toDaemon, phone, historyVars>>
    BY <1>24 DEF Stop, macVars, boundVars
  <2>3. /\ peers' \subseteq peers
        /\ \A d \in Conns : link'[d] = "none" <=> link[d] = "none"
    BY <2>1 DEF HangsUp
  <2> QED
    BY <2>2, <2>3 DEF Dialled, historyVars
<1>25. ASSUME EndpointClosed PROVE Dialled'
  BY <1>25, CloseLinksFacts DEF Dialled, EndpointClosed, TypeOK, slotVars
<1>26. ASSUME Exit PROVE Dialled'
  BY <1>26, CloseLinksFacts DEF Dialled, Exit, TypeOK
<1>27. ASSUME Start PROVE Dialled'
  BY <1>27 DEF Dialled, Start, TypeOK, slotVars, wireVars
<1> QED
  BY <1>1, <1>2, <1>3, <1>4, <1>5, <1>6, <1>7, <1>8, <1>9, <1>10, <1>11, <1>12, <1>13, <1>14, 
     <1>15, <1>16, <1>17, <1>18, <1>19, <1>20, <1>21, <1>22, <1>23, <1>24, <1>25, <1>26, <1>27 DEF Next, PhoneStep, DaemonStep, MacStep

LEMMA CompatibleKept ==
  ASSUME TypeOK, Door, Next
  PROVE  Compatible'
<1> USE DEF Door
<1>1. ASSUME NEW p \in Phones, NEW as \in {"dial", "tunnel"}, Dial(p, as) PROVE Compatible'
  <2>1. PICK c \in Conns :
          /\ link[c] = "none" /\ link' = [link EXCEPT ![c] = "open"]
          /\ who' = [who EXCEPT ![c] = p]
          /\ incoming' =
               [incoming EXCEPT ![c] = IF as = "dial" THEN "connect" ELSE "connectTunnel"]
          /\ phone' = [phone EXCEPT ![c] = as]
    BY <1>1 DEF Dial
  <2> QED
    BY <1>1, <2>1 DEF TypeOK, Compatible, Dial, slotVars, historyVars
<1>2. ASSUME NEW c \in Conns, NEW frame \in {"command", "garbage"}, Strange(c, frame) PROVE Compatible'
  <2> DEFINE said == frame
  <2>1. /\ toDaemon \in Queues(ToDaemon) /\ said \in ToDaemon
        /\ toDaemon' = Push(toDaemon, c, said) /\ link[c] = "open"
    BY <1>2 DEF TypeOK, Queues, ToDaemon, Strange
  <2>2. said = "hello" => who[c] \notin Outdated
    BY <1>2
  <2> HIDE DEF said
  <2>3. /\ Elements(toDaemon'[c]) = Elements(toDaemon[c]) \cup {said}
        /\ \A d \in Conns \ {c} : toDaemon'[d] = toDaemon[d]
    BY <2>1, PushFrames
  <2> QED
    BY <1>2, <2>1, <2>2, <2>3 DEF Compatible, Strange, slotVars, historyVars
<1>3. ASSUME NEW c \in Conns, SayHello(c) PROVE Compatible'
  <2> DEFINE said == IF who[c] \in Outdated THEN "oldHello" ELSE "hello"
  <2>1. /\ toDaemon \in Queues(ToDaemon) /\ said \in ToDaemon
        /\ toDaemon' = Push(toDaemon, c, said) /\ link[c] = "open"
    BY <1>3 DEF TypeOK, Queues, ToDaemon, SayHello
  <2>2. said = "hello" => who[c] \notin Outdated
    BY <1>3
  <2> HIDE DEF said
  <2>3. /\ Elements(toDaemon'[c]) = Elements(toDaemon[c]) \cup {said}
        /\ \A d \in Conns \ {c} : toDaemon'[d] = toDaemon[d]
    BY <2>1, PushFrames
  <2> QED
    BY <1>3, <2>1, <2>2, <2>3 DEF Compatible, SayHello, slotVars, historyVars
<1>4. ASSUME NEW c \in Conns, PhoneHears(c) PROVE Compatible'
  BY <1>4, CloseLinksFacts DEF Compatible, PhoneHears, TypeOK, slotVars
<1>5. ASSUME NEW c \in Conns, Deadline(c) PROVE Compatible'
  BY <1>5, CloseLinksFacts DEF Compatible, Deadline, TypeOK, slotVars, historyVars
<1>6. ASSUME NEW c \in Conns, PhoneCloses(c) PROVE Compatible'
  BY <1>6, CloseLinksFacts DEF Compatible, PhoneCloses, TypeOK, slotVars, historyVars
<1>7. ASSUME NEW c \in Conns, SendCommand(c) PROVE Compatible'
  <2> DEFINE said == "command"
  <2>1. /\ toDaemon \in Queues(ToDaemon) /\ said \in ToDaemon
        /\ toDaemon' = Push(toDaemon, c, said) /\ link[c] = "open"
    BY <1>7 DEF TypeOK, Queues, ToDaemon, SendCommand
  <2>2. said = "hello" => who[c] \notin Outdated
    BY <1>7
  <2> HIDE DEF said
  <2>3. /\ Elements(toDaemon'[c]) = Elements(toDaemon[c]) \cup {said}
        /\ \A d \in Conns \ {c} : toDaemon'[d] = toDaemon[d]
    BY <2>1, PushFrames
  <2> QED
    BY <1>7, <2>1, <2>2, <2>3 DEF Compatible, SendCommand, slotVars, historyVars
<1>8. ASSUME NEW c \in Conns, PhoneGone(c) PROVE Compatible'
  BY <1>8 DEF Compatible, PhoneGone, TypeOK, slotVars, historyVars
<1>9. ASSUME NEW c \in Conns, IdleTimeout(c) PROVE Compatible'
  BY <1>9, CloseLinksFacts DEF Compatible, IdleTimeout, TypeOK, slotVars, historyVars
<1>10. ASSUME NEW c \in Conns, ConnectFails(c) PROVE Compatible'
  BY <1>10 DEF Compatible, ConnectFails, TypeOK, slotVars, wireVars, historyVars
<1>11. ASSUME NEW c \in Conns, Rejected(c) PROVE Compatible'
  BY <1>11, CloseLinksFacts DEF Compatible, Rejected, TypeOK, slotVars, historyVars
<1>12. ASSUME NEW c \in Conns, Admitted(c) PROVE Compatible'
  BY <1>12, CloseLinksFacts DEF Compatible, Admitted, TypeOK
<1>13. ASSUME NEW c \in Conns, NotSaved(c) PROVE Compatible'
  BY <1>13 DEF Compatible, NotSaved, TypeOK, slotVars, wireVars
<1>14. ASSUME NEW c \in Conns, StreamOpened(c) PROVE Compatible'
  BY <1>14 DEF Compatible, StreamOpened, TypeOK, wireVars, historyVars
<1>15. ASSUME NEW c \in Conns, StreamFailed(c) PROVE Compatible'
  BY <1>15 DEF Compatible, StreamFailed, TypeOK, wireVars, historyVars
<1>16. ASSUME NEW c \in Conns, HelloTimeout(c) PROVE Compatible'
  <2>1. HangsUp
    BY <1>16, CloseFacts
  <2>2. UNCHANGED <<verified, known, file, incoming, who, toDaemon, phone, historyVars>>
    BY <1>16 DEF HelloTimeout, macVars, boundVars
  <2>3. /\ peers' \subseteq peers
        /\ \A d \in Conns : link'[d] = "none" <=> link[d] = "none"
    BY <2>1 DEF HangsUp
  <2> QED
    BY <2>2, <2>3 DEF Compatible, historyVars
<1>17. ASSUME NEW c \in Conns, Read(c) PROVE Compatible'
  BY <1>17, ReadFacts DEF TypeOK, Compatible, Read
<1>18. ASSUME NEW c \in Conns, Answer(c) PROVE Compatible'
  BY <1>18 DEF Compatible, Answer, TypeOK, wireVars, historyVars
<1>19. ASSUME NEW c \in Conns, Closed(c) PROVE Compatible'
  <2>1. HangsUp
    BY <1>19, CloseFacts
  <2>2. UNCHANGED <<verified, known, file, incoming, who, toDaemon, phone, historyVars>>
    BY <1>19 DEF Closed, macVars, boundVars
  <2>3. /\ peers' \subseteq peers
        /\ \A d \in Conns : link'[d] = "none" <=> link[d] = "none"
    BY <2>1 DEF HangsUp
  <2> QED
    BY <2>2, <2>3 DEF Compatible, historyVars
<1>20. ASSUME NEW c \in Conns, NEW fails \in BOOLEAN, Write(c, fails) PROVE Compatible'
  <2>1. HangsUp
    BY <1>20, WriteFacts
  <2>2. UNCHANGED <<verified, known, file, incoming, who, toDaemon, phone, historyVars>>
    BY <1>20 DEF Write, macVars, boundVars
  <2>3. /\ peers' \subseteq peers
        /\ \A d \in Conns : link'[d] = "none" <=> link[d] = "none"
    BY <2>1 DEF HangsUp
  <2> QED
    BY <2>2, <2>3 DEF Compatible, historyVars
<1>21. ASSUME PairWindow PROVE Compatible'
  BY <1>21 DEF Compatible, PairWindow, TypeOK, slotVars, wireVars, historyVars
<1>22. ASSUME PairWindowClosed PROVE Compatible'
  BY <1>22 DEF Compatible, PairWindowClosed, TypeOK, slotVars, wireVars, historyVars
<1>23. ASSUME Bound PROVE Compatible'
  BY <1>23 DEF Compatible, Bound, TypeOK, slotVars, wireVars, historyVars
<1>24. ASSUME Stop PROVE Compatible'
  <2>1. HangsUp
    BY <1>24, CloseFacts
  <2>2. UNCHANGED <<verified, known, file, incoming, who, toDaemon, phone, historyVars>>
    BY <1>24 DEF Stop, macVars, boundVars
  <2>3. /\ peers' \subseteq peers
        /\ \A d \in Conns : link'[d] = "none" <=> link[d] = "none"
    BY <2>1 DEF HangsUp
  <2> QED
    BY <2>2, <2>3 DEF Compatible, historyVars
<1>25. ASSUME EndpointClosed PROVE Compatible'
  BY <1>25, CloseLinksFacts DEF Compatible, EndpointClosed, TypeOK, slotVars, historyVars
<1>26. ASSUME Exit PROVE Compatible'
  BY <1>26, CloseLinksFacts DEF Compatible, Exit, TypeOK, historyVars
<1>27. ASSUME Start PROVE Compatible'
  BY <1>27 DEF Compatible, Start, TypeOK, slotVars, wireVars, historyVars
<1> QED
  BY <1>1, <1>2, <1>3, <1>4, <1>5, <1>6, <1>7, <1>8, <1>9, <1>10, <1>11, <1>12, <1>13, <1>14, 
     <1>15, <1>16, <1>17, <1>18, <1>19, <1>20, <1>21, <1>22, <1>23, <1>24, <1>25, <1>26, <1>27 DEF Next, PhoneStep, DaemonStep, MacStep

LEMMA AcceptedKept ==
  ASSUME TypeOK, Door, Next
  PROVE  Accepted'
<1> USE DEF Door
<1>1. ASSUME NEW p \in Phones, NEW as \in {"dial", "tunnel"}, Dial(p, as) PROVE Accepted'
  <2>1. PICK c \in Conns :
          /\ link[c] = "none" /\ link' = [link EXCEPT ![c] = "open"]
          /\ who' = [who EXCEPT ![c] = p]
          /\ incoming' =
               [incoming EXCEPT ![c] = IF as = "dial" THEN "connect" ELSE "connectTunnel"]
          /\ phone' = [phone EXCEPT ![c] = as]
    BY <1>1 DEF Dial
  <2>2. UNCHANGED <<peers, writeChain, toPhone, file, unsaved>>
    BY <1>1 DEF Dial, slotVars, macVars, historyVars
  <2>3. /\ incoming'[c] # "acceptBi" /\ phone'[c] # "ready"
        /\ \A d \in Conns \ {c} : /\ link'[d] = link[d] /\ who'[d] = who[d]
                               /\ incoming'[d] = incoming[d] /\ phone'[d] = phone[d]
    BY <2>1 DEF TypeOK
  <2> QED
    BY <2>1, <2>2, <2>3 DEF Accepted, Keeps
<1>2. ASSUME NEW c \in Conns, NEW frame \in {"command", "garbage"}, Strange(c, frame) PROVE Accepted'
  BY <1>2 DEF Accepted, Strange, Keeps, TypeOK, slotVars, macVars, historyVars
<1>3. ASSUME NEW c \in Conns, SayHello(c) PROVE Accepted'
  BY <1>3 DEF Accepted, SayHello, Keeps, TypeOK, slotVars, macVars, historyVars
<1>4. ASSUME NEW c \in Conns, PhoneHears(c) PROVE Accepted'
  <2>1. /\ toPhone \in Queues(ToPhone) /\ toPhone[c] # <<>> /\ toPhone' = Pop(toPhone, c)
        /\ UNCHANGED <<file, unsaved, incoming, who, peers, writeChain>>
    BY <1>4 DEF PhoneHears, TypeOK, Queues, slotVars, macVars
  <2>2. /\ Head(toPhone[c]) \in Elements(toPhone[c])
        /\ \A d \in Conns : Elements(toPhone'[d]) \subseteq Elements(toPhone[d])
    BY <2>1, PopFrames
  <2>3. /\ \A d \in Conns \ {c} : phone'[d] = phone[d]
        /\ phone'[c] = "ready" => phone[c] = "ready" \/ Head(toPhone[c]) = "server_info"
    BY <1>4 DEF PhoneHears, TypeOK
  <2>4. \A d \in Conns : link'[d] = "none" <=> link[d] = "none"
    BY <1>4, CloseLinksFacts DEF PhoneHears
  <2> QED
    BY <2>1, <2>2, <2>3, <2>4 DEF Accepted, Keeps
<1>5. ASSUME NEW c \in Conns, Deadline(c) PROVE Accepted'
  <2>1. /\ phone' = [phone EXCEPT ![c] = "failed"] /\ toPhone' = [toPhone EXCEPT ![c] = <<>>]
        /\ UNCHANGED <<file, unsaved, incoming, who, peers, writeChain>>
    BY <1>5 DEF Deadline, slotVars, macVars, historyVars
  <2>2. /\ \A d \in Conns : link'[d] = "none" <=> link[d] = "none"
    BY <1>5, CloseLinksFacts DEF Deadline, TypeOK
  <2> QED
    BY <2>1, <2>2, EmptyElements DEF TypeOK, Accepted, Keeps
<1>6. ASSUME NEW c \in Conns, PhoneCloses(c) PROVE Accepted'
  <2>1. /\ phone' = [phone EXCEPT ![c] = "failed"] /\ toPhone' = [toPhone EXCEPT ![c] = <<>>]
        /\ UNCHANGED <<file, unsaved, incoming, who, peers, writeChain>>
    BY <1>6 DEF PhoneCloses, slotVars, macVars, historyVars
  <2>2. /\ \A d \in Conns : link'[d] = "none" <=> link[d] = "none"
    BY <1>6, CloseLinksFacts DEF PhoneCloses, TypeOK
  <2> QED
    BY <2>1, <2>2, EmptyElements DEF TypeOK, Accepted, Keeps
<1>7. ASSUME NEW c \in Conns, SendCommand(c) PROVE Accepted'
  BY <1>7 DEF Accepted, SendCommand, Keeps, TypeOK, slotVars, macVars, historyVars
<1>8. ASSUME NEW c \in Conns, PhoneGone(c) PROVE Accepted'
  <2>1. /\ phone' = [phone EXCEPT ![c] = "failed"] /\ toPhone' = [toPhone EXCEPT ![c] = <<>>]
        /\ UNCHANGED <<file, unsaved, incoming, who, peers, writeChain>>
    BY <1>8 DEF PhoneGone, slotVars, macVars, historyVars
  <2>2. /\ \A d \in Conns : link'[d] = "none" <=> link[d] = "none"
    BY <1>8 DEF PhoneGone, TypeOK
  <2> QED
    BY <2>1, <2>2, EmptyElements DEF TypeOK, Accepted, Keeps
<1>9. ASSUME NEW c \in Conns, IdleTimeout(c) PROVE Accepted'
  BY <1>9, CloseLinksFacts DEF Accepted, IdleTimeout, Keeps, TypeOK, slotVars, macVars, historyVars
<1>10. ASSUME NEW c \in Conns, ConnectFails(c) PROVE Accepted'
  BY <1>10 DEF Accepted, ConnectFails, Keeps, TypeOK, slotVars, macVars, wireVars, historyVars
<1>11. ASSUME NEW c \in Conns, Rejected(c) PROVE Accepted'
  BY <1>11, CloseLinksFacts DEF Accepted, Rejected, Keeps, TypeOK, slotVars, macVars, historyVars
<1>12. ASSUME NEW c \in Conns, Admitted(c) PROVE Accepted'
  <2>1. /\ \A d \in Conns : link'[d] = "none" <=> link[d] = "none"
        /\ link[c] # "none"
    BY <1>12, CloseLinksFacts DEF Admitted, Connecting, Dialled
  <2>2. /\ \A p : Keeps(p) => Keeps(p)'
        /\ Keeps(who[c])'
    BY <1>12 DEF Admitted, Keeps, Listed
  <2>3. /\ UNCHANGED <<who, peers, writeChain, toPhone, phone>>
        /\ \A d \in Conns \ {c} : incoming'[d] = incoming[d]
    BY <1>12 DEF Admitted, TypeOK
  <2> QED
    BY <2>1, <2>2, <2>3 DEF Accepted
<1>13. ASSUME NEW c \in Conns, NotSaved(c) PROVE Accepted'
  BY <1>13 DEF Accepted, NotSaved, Keeps, TypeOK, slotVars, wireVars
<1>14. ASSUME NEW c \in Conns, StreamOpened(c) PROVE Accepted'
  BY <1>14 DEF Accepted, StreamOpened, Keeps, TypeOK, macVars, wireVars, historyVars
<1>15. ASSUME NEW c \in Conns, StreamFailed(c) PROVE Accepted'
  BY <1>15 DEF Accepted, StreamFailed, Keeps, TypeOK, macVars, wireVars, historyVars
<1>16. ASSUME NEW c \in Conns, HelloTimeout(c) PROVE Accepted'
  <2>1. HangsUp
    BY <1>16, CloseFacts
  <2>2. UNCHANGED <<file, unsaved, incoming, who, toPhone, phone>>
    BY <1>16 DEF HelloTimeout, macVars, historyVars
  <2> QED
    BY <2>1, <2>2 DEF HangsUp, Accepted, Keeps
<1>17. ASSUME NEW c \in Conns, Read(c) PROVE Accepted'
  <2>1. /\ c \in peers /\ \A d \in Conns \ {c} : writeChain'[d] = writeChain[d]
    BY <1>17, ReadFacts
  <2>2. UNCHANGED <<file, unsaved, incoming, who, link, peers, toPhone, phone>>
    BY <1>17 DEF Read, macVars
  <2> QED
    BY <2>1, <2>2 DEF Accepted, Keeps
<1>18. ASSUME NEW c \in Conns, Answer(c) PROVE Accepted'
  <2>1. /\ Elements(writeChain'[c]) \subseteq Elements(writeChain[c]) \cup {"answer"}
        /\ \A d \in Conns \ {c} : writeChain'[d] = writeChain[d]
    BY <1>18, SendFacts DEF Answer, ToPhone
  <2>2. UNCHANGED <<file, unsaved, incoming, who, link, peers, toPhone, phone>>
    BY <1>18 DEF Answer, macVars, wireVars, historyVars
  <2> QED
    BY <2>1, <2>2 DEF Accepted, Keeps
<1>19. ASSUME NEW c \in Conns, Closed(c) PROVE Accepted'
  <2>1. HangsUp
    BY <1>19, CloseFacts
  <2>2. UNCHANGED <<file, unsaved, incoming, who, toPhone, phone>>
    BY <1>19 DEF Closed, macVars, historyVars
  <2> QED
    BY <2>1, <2>2 DEF HangsUp, Accepted, Keeps
<1>20. ASSUME NEW c \in Conns, NEW fails \in BOOLEAN, Write(c, fails) PROVE Accepted'
  <2>1. /\ HangsUp
        /\ \A d \in Conns : Elements(toPhone'[d]) \subseteq Elements(toPhone[d]) \cup Elements(writeChain[d])
    BY <1>20, WriteFacts
  <2>2. UNCHANGED <<file, unsaved, incoming, who, phone>>
    BY <1>20 DEF Write, macVars, historyVars
  <2> QED
    BY <2>1, <2>2 DEF HangsUp, Accepted, Keeps
<1>21. ASSUME PairWindow PROVE Accepted'
  BY <1>21 DEF Accepted, PairWindow, Keeps, TypeOK, slotVars, wireVars, historyVars
<1>22. ASSUME PairWindowClosed PROVE Accepted'
  BY <1>22 DEF Accepted, PairWindowClosed, Keeps, TypeOK, slotVars, wireVars, historyVars
<1>23. ASSUME Bound PROVE Accepted'
  BY <1>23 DEF Accepted, Bound, Keeps, TypeOK, slotVars, wireVars, historyVars
<1>24. ASSUME Stop PROVE Accepted'
  <2>1. HangsUp
    BY <1>24, CloseFacts
  <2>2. UNCHANGED <<file, unsaved, incoming, who, toPhone, phone>>
    BY <1>24 DEF Stop, macVars, historyVars
  <2> QED
    BY <2>1, <2>2 DEF HangsUp, Accepted, Keeps
<1>25. ASSUME EndpointClosed PROVE Accepted'
  BY <1>25, CloseLinksFacts DEF Accepted, EndpointClosed, Keeps, TypeOK, slotVars, historyVars
<1>26. ASSUME Exit PROVE Accepted'
  <2>1. \A d \in Conns : link'[d] = "none" <=> link[d] = "none"
    BY <1>26, CloseLinksFacts DEF Exit
  <2> QED
    BY <1>26, <2>1, EmptyElements DEF Exit, Accepted, Keeps, historyVars
<1>27. ASSUME Start PROVE Accepted'
  BY <1>27 DEF Accepted, Start, Keeps, TypeOK, slotVars, wireVars, historyVars
<1> QED
  BY <1>1, <1>2, <1>3, <1>4, <1>5, <1>6, <1>7, <1>8, <1>9, <1>10, <1>11, <1>12, <1>13, <1>14, 
     <1>15, <1>16, <1>17, <1>18, <1>19, <1>20, <1>21, <1>22, <1>23, <1>24, <1>25, <1>26, <1>27 DEF Next, PhoneStep, DaemonStep, MacStep

LEMMA ListedKept ==
  ASSUME TypeOK, Door, Next
  PROVE  Listed'
<1> USE DEF Door
<1>1. ASSUME NEW p \in Phones, NEW as \in {"dial", "tunnel"}, Dial(p, as) PROVE Listed'
  BY <1>1 DEF Listed, Dial, Keeps, macVars, historyVars
<1>2. ASSUME NEW c \in Conns, NEW frame \in {"command", "garbage"}, Strange(c, frame) PROVE Listed'
  BY <1>2 DEF Listed, Strange, Keeps, macVars, historyVars
<1>3. ASSUME NEW c \in Conns, SayHello(c) PROVE Listed'
  BY <1>3 DEF Listed, SayHello, Keeps, macVars, historyVars
<1>4. ASSUME NEW c \in Conns, PhoneHears(c) PROVE Listed'
  BY <1>4 DEF Listed, PhoneHears, Keeps, macVars
<1>5. ASSUME NEW c \in Conns, Deadline(c) PROVE Listed'
  BY <1>5 DEF Listed, Deadline, Keeps, macVars, historyVars
<1>6. ASSUME NEW c \in Conns, PhoneCloses(c) PROVE Listed'
  BY <1>6 DEF Listed, PhoneCloses, Keeps, macVars, historyVars
<1>7. ASSUME NEW c \in Conns, SendCommand(c) PROVE Listed'
  BY <1>7 DEF Listed, SendCommand, Keeps, macVars, historyVars
<1>8. ASSUME NEW c \in Conns, PhoneGone(c) PROVE Listed'
  BY <1>8 DEF Listed, PhoneGone, Keeps, macVars, historyVars
<1>9. ASSUME NEW c \in Conns, IdleTimeout(c) PROVE Listed'
  BY <1>9 DEF Listed, IdleTimeout, Keeps, macVars, historyVars
<1>10. ASSUME NEW c \in Conns, ConnectFails(c) PROVE Listed'
  BY <1>10 DEF Listed, ConnectFails, Keeps, macVars, historyVars
<1>11. ASSUME NEW c \in Conns, Rejected(c) PROVE Listed'
  BY <1>11 DEF Listed, Rejected, Keeps, macVars, historyVars
<1>12. ASSUME NEW c \in Conns, Admitted(c) PROVE Listed'
  BY <1>12 DEF Listed, Admitted, Keeps
<1>13. ASSUME NEW c \in Conns, NotSaved(c) PROVE Listed'
  BY <1>13 DEF Listed, NotSaved, Keeps
<1>14. ASSUME NEW c \in Conns, StreamOpened(c) PROVE Listed'
  BY <1>14 DEF Listed, StreamOpened, Keeps, macVars, historyVars
<1>15. ASSUME NEW c \in Conns, StreamFailed(c) PROVE Listed'
  BY <1>15 DEF Listed, StreamFailed, Keeps, macVars, historyVars
<1>16. ASSUME NEW c \in Conns, HelloTimeout(c) PROVE Listed'
  BY <1>16 DEF Listed, HelloTimeout, Keeps, macVars, historyVars
<1>17. ASSUME NEW c \in Conns, Read(c) PROVE Listed'
  BY <1>17 DEF Listed, Read, Keeps, macVars
<1>18. ASSUME NEW c \in Conns, Answer(c) PROVE Listed'
  BY <1>18 DEF Listed, Answer, Keeps, macVars, historyVars
<1>19. ASSUME NEW c \in Conns, Closed(c) PROVE Listed'
  BY <1>19 DEF Listed, Closed, Keeps, macVars, historyVars
<1>20. ASSUME NEW c \in Conns, NEW fails \in BOOLEAN, Write(c, fails) PROVE Listed'
  BY <1>20 DEF Listed, Keeps, Write, macVars, historyVars
<1>21. ASSUME PairWindow PROVE Listed'
  BY <1>21 DEF Listed, PairWindow, Keeps, historyVars
<1>22. ASSUME PairWindowClosed PROVE Listed'
  BY <1>22 DEF Listed, PairWindowClosed, Keeps, historyVars
<1>23. ASSUME Bound PROVE Listed'
  BY <1>23 DEF Listed, Bound, Keeps, historyVars
<1>24. ASSUME Stop PROVE Listed'
  BY <1>24 DEF Listed, Stop, Keeps, historyVars
<1>25. ASSUME EndpointClosed PROVE Listed'
  BY <1>25 DEF Listed, EndpointClosed, Keeps, historyVars
<1>26. ASSUME Exit PROVE Listed'
  BY <1>26 DEF Listed, Exit, Keeps, historyVars
<1>27. ASSUME Start PROVE Listed'
  BY <1>27 DEF Listed, Start, Keeps, historyVars
<1> QED
  BY <1>1, <1>2, <1>3, <1>4, <1>5, <1>6, <1>7, <1>8, <1>9, <1>10, <1>11, <1>12, <1>13, <1>14, 
     <1>15, <1>16, <1>17, <1>18, <1>19, <1>20, <1>21, <1>22, <1>23, <1>24, <1>25, <1>26, <1>27 DEF Next, PhoneStep, DaemonStep, MacStep

LEMMA AdmissionKept ==
  ASSUME TypeOK, Door, Next
  PROVE  Admission'
<1> USE DEF Door
<1>1. ASSUME NEW p \in Phones, NEW as \in {"dial", "tunnel"}, Dial(p, as) PROVE Admission'
  <2>1. PICK c \in Conns :
          /\ link[c] = "none" /\ link' = [link EXCEPT ![c] = "open"]
          /\ who' = [who EXCEPT ![c] = p]
          /\ incoming' =
               [incoming EXCEPT ![c] = IF as = "dial" THEN "connect" ELSE "connectTunnel"]
          /\ phone' = [phone EXCEPT ![c] = as]
    BY <1>1 DEF Dial
  <2> QED
    BY <1>1, <2>1 DEF TypeOK, Compatible, Gated, Admission, Dial, macVars, historyVars
<1>2. ASSUME NEW c \in Conns, NEW frame \in {"command", "garbage"}, Strange(c, frame) PROVE Admission'
  BY <1>2 DEF Admission, Strange, Gated, Compatible, TypeOK, macVars, historyVars
<1>3. ASSUME NEW c \in Conns, SayHello(c) PROVE Admission'
  BY <1>3 DEF Admission, SayHello, Gated, Compatible, TypeOK, macVars, historyVars
<1>4. ASSUME NEW c \in Conns, PhoneHears(c) PROVE Admission'
  <2>1. /\ toPhone \in Queues(ToPhone) /\ toPhone[c] # <<>>
        /\ UNCHANGED <<file, unsaved, who, handled>>
    BY <1>4 DEF PhoneHears, TypeOK, Queues, macVars
  <2>2. Head(toPhone[c]) \in Elements(toPhone[c])
    BY <2>1, PopFrames
  <2>3. \A p \in greeted' \ greeted :
          p = who[c] /\ (phone[c] = "ready" \/ Head(toPhone[c]) = "server_info")
    BY <1>4 DEF PhoneHears, TypeOK
  <2> QED
    BY <2>1, <2>2, <2>3 DEF Gated, Admission, Accepted, Keeps
<1>5. ASSUME NEW c \in Conns, Deadline(c) PROVE Admission'
  BY <1>5 DEF Admission, Deadline, Gated, Compatible, TypeOK, macVars, historyVars
<1>6. ASSUME NEW c \in Conns, PhoneCloses(c) PROVE Admission'
  BY <1>6 DEF Admission, PhoneCloses, Gated, Compatible, TypeOK, macVars, historyVars
<1>7. ASSUME NEW c \in Conns, SendCommand(c) PROVE Admission'
  BY <1>7 DEF Admission, SendCommand, Gated, Compatible, TypeOK, macVars, historyVars
<1>8. ASSUME NEW c \in Conns, PhoneGone(c) PROVE Admission'
  BY <1>8 DEF Admission, PhoneGone, Gated, Compatible, TypeOK, macVars, historyVars
<1>9. ASSUME NEW c \in Conns, IdleTimeout(c) PROVE Admission'
  BY <1>9 DEF Admission, IdleTimeout, Gated, Compatible, TypeOK, macVars, historyVars
<1>10. ASSUME NEW c \in Conns, ConnectFails(c) PROVE Admission'
  BY <1>10 DEF Admission, ConnectFails, Gated, Compatible, TypeOK, macVars, wireVars, historyVars
<1>11. ASSUME NEW c \in Conns, Rejected(c) PROVE Admission'
  BY <1>11 DEF Admission, Rejected, Gated, Compatible, TypeOK, macVars, historyVars
<1>12. ASSUME NEW c \in Conns, Admitted(c) PROVE Admission'
  <2>1. \A p : p \in file \cup unsaved => p \in file' \cup unsaved'
    BY <1>12 DEF Admitted, Listed
  <2>2. UNCHANGED <<who, handled, greeted>>
    BY <1>12 DEF Admitted
  <2> QED
    BY <2>1, <2>2 DEF Gated, Admission
<1>13. ASSUME NEW c \in Conns, NotSaved(c) PROVE Admission'
  BY <1>13 DEF Admission, NotSaved, Gated, Compatible, TypeOK, wireVars
<1>14. ASSUME NEW c \in Conns, StreamOpened(c) PROVE Admission'
  BY <1>14 DEF Admission, StreamOpened, Gated, Compatible, TypeOK, macVars, wireVars, historyVars
<1>15. ASSUME NEW c \in Conns, StreamFailed(c) PROVE Admission'
  BY <1>15 DEF Admission, StreamFailed, Gated, Compatible, TypeOK, macVars, wireVars, historyVars
<1>16. ASSUME NEW c \in Conns, HelloTimeout(c) PROVE Admission'
  BY <1>16 DEF Admission, HelloTimeout, Gated, Compatible, TypeOK, macVars, historyVars
<1>17. ASSUME NEW c \in Conns, Read(c) PROVE Admission'
  <2>1. /\ \A d \in handled' \ handled : d = c /\ c \in verified
        /\ UNCHANGED <<who, greeted, file, unsaved>>
    BY <1>17, ReadFacts DEF Read, macVars
  <2> QED
    BY <2>1 DEF Gated, Admission, Compatible
<1>18. ASSUME NEW c \in Conns, Answer(c) PROVE Admission'
  BY <1>18 DEF Admission, Answer, Gated, Compatible, TypeOK, macVars, wireVars, historyVars
<1>19. ASSUME NEW c \in Conns, Closed(c) PROVE Admission'
  BY <1>19 DEF Admission, Closed, Gated, Compatible, TypeOK, macVars, historyVars
<1>20. ASSUME NEW c \in Conns, NEW fails \in BOOLEAN, Write(c, fails) PROVE Admission'
  BY <1>20 DEF Admission, Write, Gated, Compatible, TypeOK, macVars, historyVars
<1>21. ASSUME PairWindow PROVE Admission'
  BY <1>21 DEF Admission, PairWindow, Gated, Compatible, TypeOK, wireVars, historyVars
<1>22. ASSUME PairWindowClosed PROVE Admission'
  BY <1>22 DEF Admission, PairWindowClosed, Gated, Compatible, TypeOK, wireVars, historyVars
<1>23. ASSUME Bound PROVE Admission'
  BY <1>23 DEF Admission, Bound, Gated, Compatible, TypeOK, wireVars, historyVars
<1>24. ASSUME Stop PROVE Admission'
  BY <1>24 DEF Admission, Stop, Gated, Compatible, TypeOK, historyVars
<1>25. ASSUME EndpointClosed PROVE Admission'
  BY <1>25 DEF Admission, EndpointClosed, Gated, Compatible, TypeOK, historyVars
<1>26. ASSUME Exit PROVE Admission'
  BY <1>26 DEF Admission, Exit, Gated, Compatible, TypeOK, historyVars
<1>27. ASSUME Start PROVE Admission'
  BY <1>27 DEF Admission, Start, Gated, Compatible, TypeOK, wireVars, historyVars
<1> QED
  BY <1>1, <1>2, <1>3, <1>4, <1>5, <1>6, <1>7, <1>8, <1>9, <1>10, <1>11, <1>12, <1>13, <1>14, 
     <1>15, <1>16, <1>17, <1>18, <1>19, <1>20, <1>21, <1>22, <1>23, <1>24, <1>25, <1>26, <1>27 DEF Next, PhoneStep, DaemonStep, MacStep

LEMMA ReleasedKept ==
  ASSUME TypeOK, Door, Next
  PROVE  Released'
<1> USE DEF Door
<1>1. ASSUME NEW p \in Phones, NEW as \in {"dial", "tunnel"}, Dial(p, as) PROVE Released'
  <2>1. PICK c \in Conns :
          /\ link[c] = "none" /\ link' = [link EXCEPT ![c] = "open"]
          /\ who' = [who EXCEPT ![c] = p]
          /\ incoming' =
               [incoming EXCEPT ![c] = IF as = "dial" THEN "connect" ELSE "connectTunnel"]
          /\ phone' = [phone EXCEPT ![c] = as]
    BY <1>1 DEF Dial
  <2> QED
    BY <1>1, <2>1 DEF TypeOK, Dialled, Gated, Released, Dial, slotVars, historyVars
<1>2. ASSUME NEW c \in Conns, NEW frame \in {"command", "garbage"}, Strange(c, frame) PROVE Released'
  BY <1>2 DEF Released, Strange, Gated, Dialled, Connecting, TypeOK, slotVars, historyVars
<1>3. ASSUME NEW c \in Conns, SayHello(c) PROVE Released'
  BY <1>3 DEF Released, SayHello, Gated, Dialled, Connecting, TypeOK, slotVars, historyVars
<1>4. ASSUME NEW c \in Conns, PhoneHears(c) PROVE Released'
  BY <1>4, CloseLinksFacts DEF Released, PhoneHears, Gated, Dialled, Connecting, TypeOK, slotVars
<1>5. ASSUME NEW c \in Conns, Deadline(c) PROVE Released'
  BY <1>5, CloseLinksFacts DEF Released, Deadline, Gated, Dialled, Connecting, TypeOK, slotVars, historyVars
<1>6. ASSUME NEW c \in Conns, PhoneCloses(c) PROVE Released'
  BY <1>6, CloseLinksFacts DEF Released, PhoneCloses, Gated, Dialled, Connecting, TypeOK, slotVars, historyVars
<1>7. ASSUME NEW c \in Conns, SendCommand(c) PROVE Released'
  BY <1>7 DEF Released, SendCommand, Gated, Dialled, Connecting, TypeOK, slotVars, historyVars
<1>8. ASSUME NEW c \in Conns, PhoneGone(c) PROVE Released'
  BY <1>8 DEF Released, PhoneGone, Gated, Dialled, Connecting, TypeOK, slotVars, historyVars
<1>9. ASSUME NEW c \in Conns, IdleTimeout(c) PROVE Released'
  BY <1>9, CloseLinksFacts DEF Released, IdleTimeout, Gated, Dialled, Connecting, TypeOK, slotVars, historyVars
<1>10. ASSUME NEW c \in Conns, ConnectFails(c) PROVE Released'
  BY <1>10 DEF Released, ConnectFails, Gated, Dialled, Connecting, TypeOK, slotVars, wireVars, historyVars
<1>11. ASSUME NEW c \in Conns, Rejected(c) PROVE Released'
  <2>1. /\ \A d \in Conns : link[d] = "closed" => link'[d] = "closed"
        /\ link[c] # "none" /\ c \notin peers \cup verified /\ c \notin helloTimer
    BY <1>11, CloseLinksFacts DEF Rejected, Connecting, Dialled, Gated, Released
  <2>2. /\ UNCHANGED <<peers, verified, listeners, strays>>
        /\ \A d \in Conns \ {c} : incoming'[d] = incoming[d]
        /\ helloTimer' \subseteq helloTimer \cup {b \in {c} : incoming'[b] = "acceptBi"}
        /\ incoming'[c] = "over" => link'[c] = "closed"
    BY <1>11, <2>1, CloseLinksFacts DEF Rejected, Connecting, TypeOK, slotVars, historyVars
  <2> QED
    BY <2>1, <2>2 DEF Gated, Released
<1>12. ASSUME NEW c \in Conns, Admitted(c) PROVE Released'
  <2>1. /\ \A d \in Conns : link[d] = "closed" => link'[d] = "closed"
        /\ link[c] # "none" /\ c \notin peers \cup verified /\ c \notin helloTimer
    BY <1>12, CloseLinksFacts DEF Admitted, Connecting, Dialled, Gated, Released
  <2>2. /\ UNCHANGED <<peers, verified, listeners, strays>>
        /\ \A d \in Conns \ {c} : incoming'[d] = incoming[d]
        /\ helloTimer' \subseteq helloTimer \cup {b \in {c} : incoming'[b] = "acceptBi"}
        /\ incoming'[c] = "over" => link'[c] = "closed"
    BY <1>12, <2>1, CloseLinksFacts DEF Admitted, Connecting, TypeOK, slotVars, historyVars
  <2> QED
    BY <2>1, <2>2 DEF Gated, Released
<1>13. ASSUME NEW c \in Conns, NotSaved(c) PROVE Released'
  BY <1>13 DEF Released, NotSaved, Gated, Dialled, Connecting, TypeOK, slotVars, wireVars
<1>14. ASSUME NEW c \in Conns, StreamOpened(c) PROVE Released'
  BY <1>14 DEF Released, StreamOpened, Gated, Dialled, Connecting, TypeOK, wireVars, historyVars
<1>15. ASSUME NEW c \in Conns, StreamFailed(c) PROVE Released'
  BY <1>15 DEF Released, StreamFailed, Gated, Dialled, Connecting, TypeOK, wireVars, historyVars
<1>16. ASSUME NEW c \in Conns, HelloTimeout(c) PROVE Released'
  <2>1. HangsUp
    BY <1>16, CloseFacts
  <2>2. UNCHANGED <<verified, incoming, strays>>
    BY <1>16 DEF HelloTimeout, historyVars
  <2> QED
    BY <2>1, <2>2 DEF HangsUp, TypeOK, Dialled, Gated, Released
<1>17. ASSUME NEW c \in Conns, Read(c) PROVE Released'
  <2>1. /\ c \in peers /\ verified \subseteq verified' /\ \A d \in verified' \ verified : d = c
        /\ helloTimer' = helloTimer \ (verified' \ verified)
        /\ listeners' \subseteq listeners \cup {c}
    BY <1>17, ReadFacts
  <2>2. UNCHANGED <<peers, incoming, link, strays>>
    BY <1>17 DEF Read
  <2> QED
    BY <2>1, <2>2 DEF Dialled, Gated, Released
<1>18. ASSUME NEW c \in Conns, Answer(c) PROVE Released'
  BY <1>18 DEF Released, Answer, Gated, Dialled, Connecting, TypeOK, wireVars, historyVars
<1>19. ASSUME NEW c \in Conns, Closed(c) PROVE Released'
  <2>1. HangsUp
    BY <1>19, CloseFacts
  <2>2. UNCHANGED <<verified, incoming, strays>>
    BY <1>19 DEF Closed, historyVars
  <2> QED
    BY <2>1, <2>2 DEF HangsUp, TypeOK, Dialled, Gated, Released
<1>20. ASSUME NEW c \in Conns, NEW fails \in BOOLEAN, Write(c, fails) PROVE Released'
  <2>1. HangsUp
    BY <1>20, WriteFacts
  <2>2. UNCHANGED <<verified, incoming, strays>>
    BY <1>20 DEF Write, historyVars
  <2> QED
    BY <2>1, <2>2 DEF HangsUp, TypeOK, Dialled, Gated, Released
<1>21. ASSUME PairWindow PROVE Released'
  BY <1>21 DEF Released, PairWindow, Gated, Dialled, Connecting, TypeOK, slotVars, wireVars, historyVars
<1>22. ASSUME PairWindowClosed PROVE Released'
  BY <1>22 DEF Released, PairWindowClosed, Gated, Dialled, Connecting, TypeOK, slotVars, wireVars, historyVars
<1>23. ASSUME Bound PROVE Released'
  BY <1>23 DEF Released, Bound, Gated, Dialled, Connecting, TypeOK, slotVars, wireVars, historyVars
<1>24. ASSUME Stop PROVE Released'
  <2>1. HangsUp
    BY <1>24, CloseFacts
  <2>2. UNCHANGED <<verified, incoming, strays>>
    BY <1>24 DEF Stop, historyVars
  <2> QED
    BY <2>1, <2>2 DEF HangsUp, TypeOK, Dialled, Gated, Released
<1>25. ASSUME EndpointClosed PROVE Released'
  BY <1>25, CloseLinksFacts DEF Released, EndpointClosed, Gated, Dialled, Connecting, TypeOK, slotVars, historyVars
<1>26. ASSUME Exit PROVE Released'
  BY <1>26, CloseLinksFacts DEF Released, Exit, Gated, Dialled, Connecting, TypeOK, historyVars
<1>27. ASSUME Start PROVE Released'
  BY <1>27 DEF Released, Start, Gated, Dialled, Connecting, TypeOK, slotVars, wireVars, historyVars
<1> QED
  BY <1>1, <1>2, <1>3, <1>4, <1>5, <1>6, <1>7, <1>8, <1>9, <1>10, <1>11, <1>12, <1>13, <1>14, 
     <1>15, <1>16, <1>17, <1>18, <1>19, <1>20, <1>21, <1>22, <1>23, <1>24, <1>25, <1>26, <1>27 DEF Next, PhoneStep, DaemonStep, MacStep

-----------------------------------------------------------------------------
(* The theorems *)

LEMMA InitDoor == Init => TypeOK /\ Door
<1> SUFFICES ASSUME Init PROVE TypeOK /\ Door
  OBVIOUS
<1>1. TypeOK
  <2>1. 0 \in 0 .. MaxFrames /\ 0 \in 0 .. MaxWindows /\ 0 \in 0 .. MaxFaults
    BY PeersAssumption
  <2>2. /\ writeChain \in Queues(Chained) /\ toPhone \in Queues(ToPhone)
        /\ toDaemon \in Queues(ToDaemon)
    BY EmptySeq DEF Init, Queues
  <2> QED
    BY <2>1, <2>2, PeersAssumption DEF Init, TypeOK, NoPhone, Queues, Chained
<1>2. Door
  BY EmptyElements DEF Init, Door, Dialled, Compatible, Accepted, Listed, Keeps, Gated, Admission,
     Released
<1> QED
  BY <1>1, <1>2

LEMMA NextDoor == TypeOK /\ Door /\ [Next]_vars => TypeOK' /\ Door'
<1> SUFFICES ASSUME TypeOK, Door, [Next]_vars PROVE TypeOK' /\ Door'
  OBVIOUS
<1>1. CASE Next
  <2>1. TypeOK'
    BY <1>1, NextTyped DEF Door
  <2>2. Gated'
    BY <1>1, AdmissionKept, ReleasedKept DEF Gated
  <2> QED
    BY <1>1, <2>1, <2>2, DialledKept, CompatibleKept, AcceptedKept, ListedKept DEF Door
<1>2. CASE UNCHANGED vars
  BY <1>2 DEF TypeOK, Door, Dialled, Compatible, Accepted, Listed, Keeps, Gated, Admission,
     Released, vars, slotVars, macVars, wireVars, boundVars, historyVars
<1> QED
  BY <1>1, <1>2

\* The whole inductive invariant.
THEOREM DoorKept == Spec => [](TypeOK /\ Door)
<1>1. Init => TypeOK /\ Door
  BY InitDoor
<1>2. TypeOK /\ Door /\ [Next]_vars => TypeOK' /\ Door'
  BY NextDoor
<1> QED
  BY <1>1, <1>2, PTL DEF Spec

\* Every variable of the daemon's door keeps its type.
THEOREM PeersTyped == Spec => []TypeOK
<1>1. TypeOK /\ Door => TypeOK
  OBVIOUS
<1> QED
  BY <1>1, DoorKept, PTL

\* Nothing is handled before a compatible hello, a phone that was let in stays known
\* unless its admission could not be written, and what leaves takes its slot, its
\* timer and its subscriptions along (onFrame, KnownClients, closePeer).
THEOREM GatedHolds == Spec => []Gated
<1>1. TypeOK /\ Door => Gated
  BY DEF Door
<1> QED
  BY <1>1, DoorKept, PTL

=============================================================================
