--------------------------- MODULE PromptsProofs ---------------------------
(***************************************************************************)
(* Theorems about Prompts, for any bounds: the service takes a client's    *)
(* prompts in the order they were submitted; a prompt on its way out is on *)
(* screen; and once quiet, the screen and the service agree.               *)
(***************************************************************************)
EXTENDS Prompts, QueueLemmas, FiniteSetTheorems, TLAPS

-----------------------------------------------------------------------------
(* The inductive invariant *)

Requests == [kind : {"prompt", "command", "revert", "unrevert"}, id : Nat,
             undo : BOOLEAN, phase : {"queued", "taken"}]

OrderTyped ==
  /\ sending \in Seq(Requests) /\ taken \in Seq(Nat) /\ next \in Nat \ {0}
  /\ mine \subseteq Nat /\ late \subseteq Nat /\ gaveUp \subseteq Nat

\* Every id in use was minted; a request still on its way has been given up.
Minted ==
  /\ \A id \in mine \cup late : id < next
  /\ \A i \in DOMAIN taken : taken[i] < next
  /\ \A k \in DOMAIN sending : sending[k].kind = "prompt" => sending[k].id # 0 /\ sending[k].id < next
  /\ late \subseteq gaveUp

\* Of the chain only the head is under way, and its prompts are in the order submitted.
Chained ==
  /\ \A k \in DOMAIN sending : k > 1 => sending[k].phase = "queued"
  /\ \A k, m \in DOMAIN sending :
       k < m /\ sending[k].kind = "prompt" /\ sending[m].kind = "prompt" =>
         sending[k].id < sending[m].id

\* What the service has taken was submitted before what waits in the chain.
Before ==
  \A i \in DOMAIN taken, k \in DOMAIN sending :
    taken[i] \in mine \ gaveUp /\ sending[k].kind = "prompt" /\ sending[k].phase = "queued" =>
      taken[i] < sending[k].id

InOrder == OrderTyped /\ Minted /\ Chained /\ Before /\ SubmissionOrder

-----------------------------------------------------------------------------
(* The chain of sends *)

\* The head's request reaches the service; the rest of the chain stays as it is.
LEMMA HeadTaken ==
  ASSUME NEW q \in Seq(Requests), q # <<>>, NEW r, r = [q EXCEPT ![1].phase = "taken"]
  PROVE  /\ r \in Seq(Requests) /\ DOMAIN r = DOMAIN q /\ 1 \in DOMAIN q /\ Head(q) = q[1]
         /\ r[1].kind = q[1].kind /\ r[1].id = q[1].id /\ r[1].phase = "taken"
         /\ \A k \in DOMAIN q : k # 1 => r[k] = q[k]
<1>1. Len(q) \in Nat /\ q \in [1 .. Len(q) -> Requests] /\ 1 \in 1 .. Len(q) /\ Head(q) = q[1]
  BY HeadTailProperties, LenProperties, EmptySeq
<1>2. q[1] \in Requests
  BY <1>1
<1>3. [q[1] EXCEPT !.phase = "taken"] \in Requests
  BY <1>2 DEF Requests
<1>4. /\ r = [q EXCEPT ![1] = [q[1] EXCEPT !.phase = "taken"]]
      /\ r \in [1 .. Len(q) -> Requests]
  BY <1>1, <1>3
<1>5. r \in Seq(Requests)
  BY <1>1, <1>3, <1>4, ExceptSeq
<1>6. r[1] = [q[1] EXCEPT !.phase = "taken"] /\ \A k \in DOMAIN q : k # 1 => r[k] = q[k]
  BY <1>1, <1>4
<1>7. r[1].kind = q[1].kind /\ r[1].id = q[1].id /\ r[1].phase = "taken"
  BY <1>2, <1>6 DEF Requests
<1> QED
  BY <1>1, <1>4, <1>5, <1>6, <1>7

\* One more send waits at the end of the chain: a prompt with the next id, or another request.
LEMMA SendAdded ==
  ASSUME InOrder, NEW s \in Requests, s.phase = "queued", sending' = Append(sending, s),
         UNCHANGED <<taken, late, gaveUp>>,
         \/ s.kind # "prompt" /\ UNCHANGED <<next, mine>>
         \/ s.kind = "prompt" /\ s.id = next /\ next' = next + 1 /\ mine' = mine \cup {next}
  PROVE  InOrder'
<1>0. OrderTyped /\ Minted /\ Chained /\ Before /\ SubmissionOrder
  BY DEF InOrder
<1> DEFINE n == Len(sending)
<1>1. /\ n \in Nat /\ DOMAIN sending = 1 .. n /\ DOMAIN sending' = 1 .. n + 1
      /\ sending' \in Seq(Requests)
      /\ \A k \in 1 .. n : sending'[k] = sending[k] /\ sending[k] \in Requests
      /\ sending'[n + 1] = s
  BY <1>0, AppendProperties, LenProperties DEF OrderTyped
<1>2. s.id \in Nat /\ \A k \in 1 .. n : sending[k].id \in Nat
  BY <1>1 DEF Requests
<1>3. DOMAIN taken = 1 .. Len(taken) /\ \A i \in DOMAIN taken : taken[i] \in Nat
  BY <1>0, LenProperties DEF OrderTyped
<1> HIDE DEF n
<1>4. next' \in Nat \ {0} /\ next <= next' /\ mine' \subseteq mine \cup {next} /\ mine' \subseteq Nat
  <2>1. next \in Nat \ {0} /\ mine \subseteq Nat
    BY <1>0 DEF OrderTyped
  <2>2. next' \in Nat \ {0} /\ next <= next'
    BY <2>1
  <2>3. mine' \subseteq mine \cup {next}
    OBVIOUS
  <2> QED BY <2>1, <2>2, <2>3
<1>5. OrderTyped'
  BY <1>0, <1>1, <1>4 DEF OrderTyped
<1>6. Minted'
  BY <1>0, <1>1, <1>2, <1>3, <1>4 DEF Minted, OrderTyped
<1>7. Chained'
  BY <1>0, <1>1, <1>2 DEF Chained, Minted
<1>8. Before'
  <2> SUFFICES ASSUME NEW i \in DOMAIN taken, NEW k \in 1 .. n + 1, taken[i] \in mine' \ gaveUp,
                      sending'[k].kind = "prompt", sending'[k].phase = "queued"
               PROVE  taken[i] < sending'[k].id
    BY <1>1 DEF Before
  <2>1. taken[i] < next /\ taken[i] \in mine
    BY <1>0, <1>3, <1>4 DEF Minted, OrderTyped
  <2>2. CASE k \in 1 .. n
    BY <1>0, <1>1, <2>1, <2>2 DEF Before
  <2>3. CASE k = n + 1
    BY <1>1, <2>1, <2>3
  <2> QED BY <1>1, <2>2, <2>3
<1>9. SubmissionOrder'
  BY <1>0, <1>3, <1>4 DEF SubmissionOrder, Minted, OrderTyped
<1> QED
  BY <1>5, <1>6, <1>7, <1>8, <1>9 DEF InOrder

\* The head of the chain leaves, answered or given up.
LEMMA SendDropped ==
  ASSUME InOrder, sending # <<>>, sending' = Tail(sending), UNCHANGED <<taken, next, mine>>,
         gaveUp \subseteq gaveUp', gaveUp' \subseteq Nat, late' \subseteq gaveUp',
         \A id \in late' : id < next
  PROVE  InOrder'
<1>0. OrderTyped /\ Minted /\ Chained /\ Before /\ SubmissionOrder
  BY DEF InOrder
<1> DEFINE n == Len(sending) - 1
<1>1. /\ n \in Nat /\ DOMAIN sending = 1 .. n + 1 /\ DOMAIN sending' = 1 .. n
      /\ sending' \in Seq(Requests)
      /\ \A k \in 1 .. n : sending'[k] = sending[k + 1]
  BY <1>0, HeadTailProperties, LenProperties, EmptySeq DEF OrderTyped
<1> HIDE DEF n
<1>2. \A k \in 1 .. n : k + 1 \in DOMAIN sending
  BY <1>1
<1>3. OrderTyped'
  BY <1>0, <1>1 DEF OrderTyped
<1>4. Minted'
  <2>1. \A k \in DOMAIN sending' :
          sending'[k].kind = "prompt" => sending'[k].id # 0 /\ sending'[k].id < next
    BY <1>0, <1>1, <1>2 DEF Minted
  <2> QED BY <1>0, <2>1 DEF Minted
<1>5. Chained'
  <2>1. \A k \in 1 .. n : sending'[k].phase = "queued"
    BY <1>0, <1>1, <1>2 DEF Chained
  <2>2. \A k, m \in 1 .. n : k < m => k + 1 < m + 1
    BY <1>1
  <2> QED BY <1>0, <1>1, <1>2, <2>1, <2>2 DEF Chained
<1>6. Before'
  <2> SUFFICES ASSUME NEW i \in DOMAIN taken, NEW k \in 1 .. n, taken[i] \in mine \ gaveUp',
                      sending'[k].kind = "prompt", sending'[k].phase = "queued"
               PROVE  taken[i] < sending'[k].id
    BY <1>1 DEF Before
  <2>1. sending'[k] = sending[k + 1] /\ k + 1 \in DOMAIN sending /\ taken[i] \in mine \ gaveUp
    BY <1>1, <1>2
  <2> QED BY <1>0, <2>1 DEF Before
<1>7. SubmissionOrder'
  BY <1>0 DEF SubmissionOrder
<1> QED
  BY <1>3, <1>4, <1>5, <1>6, <1>7 DEF InOrder

\* The head of the chain reaches the service and is no input.
LEMMA SendTaken ==
  ASSUME InOrder, sending # <<>>, sending' = [sending EXCEPT ![1].phase = "taken"],
         UNCHANGED <<taken, next, mine, late, gaveUp>>
  PROVE  InOrder'
<1>0. OrderTyped /\ Minted /\ Chained /\ Before /\ SubmissionOrder
  BY DEF InOrder
<1>1. /\ sending' \in Seq(Requests) /\ DOMAIN sending' = DOMAIN sending
      /\ \A k \in DOMAIN sending : /\ sending'[k].kind = sending[k].kind
                                   /\ sending'[k].id = sending[k].id
                                   /\ sending'[k].phase = IF k = 1 THEN "taken" ELSE sending[k].phase
  <2>1. sending \in Seq(Requests)
    BY <1>0 DEF OrderTyped
  <2>2. /\ sending' \in Seq(Requests) /\ DOMAIN sending' = DOMAIN sending
        /\ sending'[1].kind = sending[1].kind /\ sending'[1].id = sending[1].id
        /\ sending'[1].phase = "taken"
        /\ \A k \in DOMAIN sending : k # 1 => sending'[k] = sending[k]
    BY <2>1, HeadTaken
  <2> QED BY <2>2
<1>2. OrderTyped' /\ Minted'
  BY <1>0, <1>1 DEF OrderTyped, Minted
<1>3. Chained'
  <2>1. \A k \in DOMAIN sending : k > 1 => k # 1
    BY <1>0, LenProperties DEF OrderTyped
  <2> QED BY <1>0, <1>1, <2>1 DEF Chained
<1>4. Before'
  BY <1>0, <1>1 DEF Before
<1>5. SubmissionOrder'
  BY <1>0 DEF SubmissionOrder
<1> QED
  BY <1>2, <1>3, <1>4, <1>5 DEF InOrder

\* The service takes one more input; no prompt of this client that waits is older.
LEMMA InputTaken ==
  ASSUME InOrder, NEW id \in Nat, taken' = Append(taken, id), id < next', next' \in Nat \ {0},
         next <= next', UNCHANGED <<mine, gaveUp>>, late' \subseteq late,
         sending' \in Seq(Requests), DOMAIN sending' = DOMAIN sending,
         \A k \in DOMAIN sending : /\ sending'[k].kind = sending[k].kind
                                   /\ sending'[k].id = sending[k].id
                                   /\ \/ sending'[k].phase = sending[k].phase
                                      \/ k = 1 /\ sending'[k].phase = "taken",
         id \in mine \ gaveUp =>
           /\ \A i \in DOMAIN taken : taken[i] \in mine \ gaveUp => taken[i] < id
           /\ \A k \in DOMAIN sending :
                sending'[k].kind = "prompt" /\ sending'[k].phase = "queued" => id < sending[k].id
  PROVE  InOrder'
<1>0. OrderTyped /\ Minted /\ Chained /\ Before /\ SubmissionOrder
  BY DEF InOrder
<1> DEFINE n == Len(taken)
<1>1. /\ n \in Nat /\ DOMAIN taken = 1 .. n /\ DOMAIN taken' = 1 .. n + 1 /\ taken' \in Seq(Nat)
      /\ \A i \in 1 .. n : taken'[i] = taken[i] /\ taken[i] \in Nat
      /\ taken'[n + 1] = id
  BY <1>0, AppendProperties, LenProperties DEF OrderTyped
<1> HIDE DEF n
<1>2. OrderTyped'
  BY <1>0, <1>1 DEF OrderTyped
<1>3. Minted'
  <2>1. \A x \in mine \cup late : x \in Nat /\ x < next
    BY <1>0 DEF Minted, OrderTyped
  <2>2. \A k \in DOMAIN sending : sending[k] \in Requests
    BY <1>0, LenProperties DEF OrderTyped
  <2>3. \A k \in DOMAIN sending : sending[k].id \in Nat
    BY <2>2 DEF Requests
  <2>4. next \in Nat /\ \A x \in mine' \cup late' : x < next'
    BY <1>0, <2>1 DEF OrderTyped
  <2>5. \A i \in DOMAIN taken' : taken'[i] < next'
    BY <1>0, <1>1, <2>4 DEF Minted
  <2>6. \A k \in DOMAIN sending' : sending'[k].kind = "prompt" => sending'[k].id # 0 /\ sending'[k].id < next'
    BY <1>0, <2>3, <2>4 DEF Minted
  <2>7. late' \subseteq gaveUp'
    BY <1>0 DEF Minted
  <2> QED BY <2>4, <2>5, <2>6, <2>7 DEF Minted
<1>4. Chained'
  <2>1. \A k \in DOMAIN sending : k > 1 => k # 1
    BY <1>0, LenProperties DEF OrderTyped
  <2> QED BY <1>0, <2>1 DEF Chained
<1>5. Before'
  <2> SUFFICES ASSUME NEW i \in 1 .. n + 1, NEW k \in DOMAIN sending, taken'[i] \in mine \ gaveUp,
                      sending'[k].kind = "prompt", sending'[k].phase = "queued"
               PROVE  taken'[i] < sending'[k].id
    BY <1>1 DEF Before
  <2>1. CASE i \in 1 .. n
    BY <1>0, <1>1, <2>1 DEF Before
  <2>2. CASE i = n + 1
    BY <1>1, <2>2
  <2> QED BY <1>1, <2>1, <2>2
<1>6. SubmissionOrder'
  <2> SUFFICES ASSUME NEW i \in 1 .. n + 1, NEW j \in 1 .. n + 1, i < j,
                      {taken'[i], taken'[j]} \subseteq mine \ gaveUp
               PROVE  taken'[i] < taken'[j]
    BY <1>1 DEF SubmissionOrder
  <2>1. i \in 1 .. n
    BY <1>1
  <2>2. CASE j \in 1 .. n
    <3>1. taken'[i] = taken[i] /\ taken'[j] = taken[j] /\ i \in DOMAIN taken /\ j \in DOMAIN taken
      BY <1>1, <2>1, <2>2
    <3> QED BY <1>0, <3>1 DEF SubmissionOrder
  <2>3. CASE j = n + 1
    <3>1. taken'[i] = taken[i] /\ taken'[j] = id /\ i \in DOMAIN taken
      BY <1>1, <2>1, <2>3
    <3> QED BY <3>1
  <2>4. j \in 1 .. n \/ j = n + 1
    BY <1>1
  <2> QED BY <2>2, <2>3, <2>4
<1> QED
  BY <1>2, <1>3, <1>4, <1>5, <1>6 DEF InOrder

-----------------------------------------------------------------------------
(* The steps *)

orderVars == <<sending, taken, late, mine, gaveUp, next>>

LEMMA OrderKept ==
  ASSUME InOrder, UNCHANGED orderVars
  PROVE  InOrder'
BY DEF orderVars, InOrder, OrderTyped, Minted, Chained, Before, SubmissionOrder

\* The user of this client, and of the others.
LEMMA UserOrder ==
  ASSUME InOrder, User
  PROVE  InOrder'
<1>0. OrderTyped /\ Minted /\ next \in Nat
  BY DEF InOrder, OrderTyped
<1>1. CASE Prompt
  <2>1. Send("prompt", next, revert # 0) \in Requests
    BY <1>0 DEF Send, Requests
  <2>2. /\ Send("prompt", next, revert # 0).kind = "prompt"
        /\ Send("prompt", next, revert # 0).id = next
        /\ Send("prompt", next, revert # 0).phase = "queued"
    BY DEF Send
  <2> QED BY <1>1, <2>1, <2>2, SendAdded DEF Prompt, serviceVars
<1>2. ASSUME NEW kind \in {"command", "revert", "unrevert"}, NEW id \in Nat, NEW undo \in BOOLEAN,
             sending' = Append(sending, Send(kind, id, undo)),
             UNCHANGED <<taken, late, gaveUp, next, mine>>
      PROVE  InOrder'
  <2>1. /\ Send(kind, id, undo) \in Requests /\ Send(kind, id, undo).phase = "queued"
        /\ Send(kind, id, undo).kind # "prompt"
    BY DEF Send, Requests
  <2> QED BY <1>2, <2>1, SendAdded
<1>3. CASE Command
  BY <1>2, <1>3 DEF Command, serviceVars
<1>4. ASSUME NEW id \in Ids, Revert(id) PROVE InOrder'
  <2>1. id \in Nat /\ "revert" \in {"command", "revert", "unrevert"} /\ FALSE \in BOOLEAN
    BY PromptsBounds DEF Ids
  <2> QED BY <1>2, <1>4, <2>1 DEF Revert, serviceVars
<1>5. CASE Unrevert
  BY <1>2, <1>5 DEF Unrevert, serviceVars
<1>6. CASE OtherPrompt
  <2>1. /\ taken' = Append(taken, next) /\ next' = next + 1
        /\ UNCHANGED <<sending, mine, late, gaveUp>>
    BY <1>6 DEF OtherPrompt, Admit, clientVars
  <2>2. next \notin mine /\ next < next' /\ next <= next' /\ next' \in Nat \ {0} /\ sending \in Seq(Requests)
    BY <1>0, <2>1 DEF Minted, OrderTyped
  <2> QED BY <1>0, <2>1, <2>2, InputTaken
<1>7. ASSUME NEW id \in Ids, OtherRevert(id) \/ OtherCancel(id) PROVE InOrder'
  BY <1>7, OrderKept DEF OtherRevert, OtherCancel, clientVars, orderVars
<1> QED
  BY <1>1, <1>3, <1>4, <1>5, <1>6, <1>7 DEF User

\* The head of the chain reaches the service, is answered, or fails.
LEMMA SendOrder ==
  ASSUME InOrder, SendStep
  PROVE  InOrder'
<1>0. OrderTyped /\ Minted /\ Chained /\ Before /\ next \in Nat
  BY DEF InOrder, OrderTyped
<1>1. ASSUME sending # <<>>
      PROVE  /\ Head(sending) = sending[1] /\ 1 \in DOMAIN sending /\ sending[1] \in Requests
             /\ sending[1].id \in Nat /\ \A k \in DOMAIN sending : k # 1 => 1 < k
  <2>1. Len(sending) \in Nat /\ DOMAIN sending = 1 .. Len(sending) /\ 1 \in DOMAIN sending
        /\ Head(sending) = sending[1] /\ sending[1] \in Requests
    BY <1>0, <1>1, HeadTailProperties, LenProperties, EmptySeq DEF OrderTyped
  <2> QED BY <2>1 DEF Requests
<1>2. ASSUME sending # <<>>, Taken
      PROVE  /\ sending' = [sending EXCEPT ![1].phase = "taken"]
             /\ sending' \in Seq(Requests) /\ DOMAIN sending' = DOMAIN sending
             /\ sending'[1].phase = "taken"
             /\ \A k \in DOMAIN sending : /\ sending'[k].kind = sending[k].kind
                                          /\ sending'[k].id = sending[k].id
                                          /\ \/ sending'[k].phase = sending[k].phase
                                             \/ k = 1 /\ sending'[k].phase = "taken"
  <2>1. sending \in Seq(Requests) /\ sending' = [sending EXCEPT ![1].phase = "taken"]
    BY <1>0, <1>2 DEF Taken, OrderTyped
  <2>2. /\ sending' \in Seq(Requests) /\ DOMAIN sending' = DOMAIN sending
        /\ sending'[1].kind = sending[1].kind /\ sending'[1].id = sending[1].id
        /\ sending'[1].phase = "taken"
        /\ \A k \in DOMAIN sending : k # 1 => sending'[k] = sending[k]
    BY <1>2, <2>1, HeadTaken
  <2> QED BY <2>1, <2>2
<1>3. CASE PromptTaken
  <2> DEFINE id == sending[1].id
  <2>1. /\ sending # <<>> /\ Taken /\ Head(sending).phase = "queued" /\ Head(sending).kind = "prompt"
        /\ taken' = Append(taken, Head(sending).id) /\ UNCHANGED <<next, mine, late, gaveUp>>
    BY <1>3 DEF PromptTaken, Admit, userVars
  <2>2. /\ id \in Nat /\ taken' = Append(taken, id) /\ id < next
        /\ sending[1].phase = "queued" /\ sending[1].kind = "prompt"
    BY <1>0, <1>1, <2>1 DEF Minted
  <2>3. \A i \in DOMAIN taken : taken[i] \in mine \ gaveUp => taken[i] < id
    BY <1>0, <1>1, <2>1, <2>2 DEF Before
  <2>4. \A k \in DOMAIN sending :
          sending'[k].kind = "prompt" /\ sending'[k].phase = "queued" => id < sending[k].id
    BY <1>0, <1>1, <1>2, <2>1, <2>2 DEF Chained
  <2> HIDE DEF id
  <2> QED BY <1>0, <1>2, <2>1, <2>2, <2>3, <2>4, InputTaken
<1>4. CASE CommandTaken
  <2>1. /\ sending # <<>> /\ Taken /\ taken' = Append(taken, next) /\ next' = next + 1
        /\ UNCHANGED <<mine, late, gaveUp>>
    BY <1>4 DEF CommandTaken, Admit
  <2>2. next \notin mine /\ next < next' /\ next <= next' /\ next' \in Nat \ {0}
    BY <1>0, <2>1 DEF Minted, OrderTyped
  <2> QED BY <1>0, <1>2, <2>1, <2>2, InputTaken
<1>5. CASE RevertTaken \/ UnrevertTaken
  BY <1>2, <1>5, SendTaken DEF RevertTaken, UnrevertTaken, userVars
<1>6. CASE Answered
  <2>1. sending # <<>> /\ sending' = Tail(sending) /\ UNCHANGED <<taken, next, mine, late, gaveUp>>
    BY <1>6 DEF Answered, serviceVars, userVars
  <2> QED BY <1>0, <2>1, SendDropped DEF Minted, OrderTyped
<1>7. ASSUME NEW arrives \in BOOLEAN, SendFailed(arrives) PROVE InOrder'
  <2> DEFINE s == Head(sending)
  <2>1. /\ sending # <<>> /\ sending' = Tail(sending) /\ UNCHANGED <<taken, next, mine>>
        /\ gaveUp' = gaveUp \cup ({s.id} \ {0})
        /\ late' = IF arrives THEN late \cup {s.id} ELSE late
        /\ arrives => s.kind = "prompt"
    BY <1>7 DEF SendFailed, serviceVars, userVars
  <2>2. s.id \in Nat /\ (s.kind = "prompt" => s.id # 0 /\ s.id < next)
    BY <1>0, <1>1, <2>1 DEF Minted
  <2> HIDE DEF s
  <2>3. gaveUp \subseteq gaveUp' /\ gaveUp' \subseteq Nat
    BY <1>0, <2>1, <2>2 DEF OrderTyped
  <2>4. \A id \in late' : id < next
    BY <1>0, <2>1, <2>2 DEF Minted
  <2>5. late' \subseteq gaveUp'
    <3>1. CASE arrives
      <4>1. s.id # 0
        BY <2>1, <2>2, <3>1
      <4> QED BY <1>0, <2>1, <4>1 DEF Minted
    <3>2. CASE ~arrives
      BY <1>0, <2>1, <3>2 DEF Minted
    <3> QED BY <3>1, <3>2
  <2> QED BY <2>1, <2>3, <2>4, <2>5, SendDropped
<1> QED
  BY <1>3, <1>4, <1>5, <1>6, <1>7 DEF SendStep

\* What the service, the bus and the reads do.
LEMMA OtherOrder ==
  ASSUME InOrder, ReadStep \/ Deliver \/ EndTurn \/ OnEvent \/ Flush \/ Settle \/ BusLost \/ Reconnect
  PROVE  InOrder'
<1>1. CASE ReadStep
  BY <1>1, OrderKept DEF ReadStep, ReadServed, ReadBack, ReadFailed, clientVars, serviceVars, userVars,
                         orderVars
<1>2. CASE Deliver \/ EndTurn
  BY <1>2, OrderKept DEF Deliver, EndTurn, clientVars, userVars, orderVars
<1>3. CASE OnEvent \/ Flush \/ Settle \/ BusLost \/ Reconnect
  BY <1>3, OrderKept DEF OnEvent, Flush, Settle, BusLost, Reconnect, clientVars, serviceVars, userVars,
                         orderVars
<1> QED
  BY <1>1, <1>2, <1>3

\* A request that was given up arrives after all.
LEMMA LateOrder ==
  ASSUME InOrder, NEW id \in Ids, LateTaken(id)
  PROVE  InOrder'
<1>0. OrderTyped /\ Minted
  BY DEF InOrder
<1>1. /\ id \in late /\ late' = late \ {id} /\ taken' = Append(taken, id)
      /\ UNCHANGED <<sending, next, mine, gaveUp>>
  BY DEF LateTaken, Admit, clientVars, userVars
<1>2. id \in Nat /\ id < next /\ id \in gaveUp
  BY <1>0, <1>1 DEF Minted, OrderTyped
<1>3. next \in Nat \ {0} /\ sending \in Seq(Requests)
  BY <1>0 DEF OrderTyped
<1>4. next \in Nat \ {0} /\ next <= next
  BY <1>3
<1> QED
  BY <1>1, <1>2, <1>3, <1>4, InputTaken

-----------------------------------------------------------------------------
(* The theorems *)

\* The inductive invariant of the send chain and what the service took from it.
THEOREM InOrderHolds == Spec => []InOrder
<1>1. Init => InOrder
  <2> SUFFICES ASSUME Init PROVE InOrder
    OBVIOUS
  <2>1. /\ sending = <<>> /\ taken = <<1, 2>> /\ next = 3 /\ mine = {} /\ late = {} /\ gaveUp = {}
    BY DEF Init
  <2>2. <<>> \in Seq(Requests) /\ DOMAIN sending = {}
    BY <2>1, EmptySeq
  <2>3. taken \in Seq(Nat) /\ DOMAIN taken = 1 .. 2 /\ \A i \in DOMAIN taken : taken[i] < next
    BY <2>1
  <2> QED
    BY <2>1, <2>2, <2>3 DEF InOrder, OrderTyped, Minted, Chained, Before, SubmissionOrder
<1>2. InOrder /\ [Next]_vars => InOrder'
  <2> SUFFICES ASSUME InOrder, [Next]_vars PROVE InOrder'
    OBVIOUS
  <2>1. CASE UNCHANGED vars
    BY <2>1, OrderKept DEF vars, clientVars, serviceVars, userVars, orderVars
  <2> QED
    BY <2>1, UserOrder, SendOrder, OtherOrder, LateOrder DEF Next
<1> QED
  BY <1>1, <1>2, PTL DEF Spec

\* The service takes this client's prompts in the order they were submitted, past
\* failed sends and other clients' input; only a request that was given up may
\* arrive late (the send chain of store.ts, runSend and prompt).
THEOREM SubmissionOrderHolds == Spec => []SubmissionOrder
<1>1. InOrder => SubmissionOrder
  BY DEF InOrder
<1> QED
  BY <1>1, InOrderHolds, PTL

-----------------------------------------------------------------------------
(* What an update makes of a view *)

ShownViews == [rows : Seq(Ids), revert : 0 .. MaxId]

\* An update that brings the row of a message, and one that takes it away.
Brings(u, id) ==
  \/ u.op = "upsert" /\ u.id = id
  \/ u.op = "merge" /\ id \in ToSet(u.page)

Takes(u, id) ==
  \/ u.op = "remove" /\ u.id = id
  \/ u.op = "drop" /\ ~(id < u.id) /\ id \notin outbox

\* The updates the store stages: one about a message names it, and a page has none twice.
Proper ==
  {u \in Updates : /\ u.op \in {"upsert", "deliver", "remove", "drop"} => u.id \in Ids
                   /\ IsInjective(u.page)}

\* One update keeps a view typed, brings and takes the rows it says, and sets the revert it says.
LEMMA AppliedIs ==
  ASSUME NEW v \in ShownViews, IsInjective(v.rows), NEW u \in Proper
  PROVE  /\ Applied(v, u) \in ShownViews /\ IsInjective(Applied(v, u).rows)
         /\ \A id : id \in ToSet(Applied(v, u).rows) <=>
                      Brings(u, id) \/ (id \in ToSet(v.rows) /\ ~Takes(u, id))
         /\ Applied(v, u).revert = IF u.op = "revert" THEN u.id ELSE v.revert
<1> DEFINE s == v.rows
<1>1. s \in Seq(Ids) /\ IsInjective(s) /\ v.revert \in 0 .. MaxId /\ v = [rows |-> s, revert |-> v.revert]
  BY DEF ShownViews
<1>2. /\ u.op \in {"upsert", "deliver", "remove", "drop", "merge", "revert"} /\ u.id \in 0 .. MaxId
      /\ u.page \in Seq(Ids) /\ IsInjective(u.page)
      /\ u.op \in {"upsert", "deliver", "remove", "drop"} => u.id \in Ids
  BY DEF Proper, Updates
<1>3. ToSet(s) \subseteq Ids
  BY <1>1, LenProperties, ElementOfSeq DEF ToSet
<1>s. \A e : Contains(s, e) <=> e \in ToSet(s)
  BY <1>1, ContainsIs
<1> HIDE DEF s
<1>4. ASSUME NEW t \in Seq(Ids), IsInjective(t), u.op # "revert", Applied(v, u) = [v EXCEPT !.rows = t],
             \A id : id \in ToSet(t) <=> Brings(u, id) \/ (id \in ToSet(s) /\ ~Takes(u, id))
      PROVE  /\ Applied(v, u) \in ShownViews /\ IsInjective(Applied(v, u).rows)
             /\ \A id : id \in ToSet(Applied(v, u).rows) <=>
                          Brings(u, id) \/ (id \in ToSet(v.rows) /\ ~Takes(u, id))
             /\ Applied(v, u).revert = IF u.op = "revert" THEN u.id ELSE v.revert
  <2>1. Applied(v, u) = [rows |-> t, revert |-> v.revert]
    BY <1>1, <1>4
  <2> HIDE DEF Applied
  <2>2. v.rows = s
    BY DEF s
  <2> QED BY <1>1, <1>4, <2>1, <2>2 DEF ShownViews
<1>5. CASE u.op = "upsert"
  <2>1. Applied(v, u) = [v EXCEPT !.rows = IF Contains(s, u.id) THEN s ELSE Append(s, u.id)]
    BY <1>1, <1>5 DEF Applied, s
  <2> DEFINE t == IF Contains(s, u.id) THEN s ELSE Append(s, u.id)
  <2>2. t \in Seq(Ids) /\ IsInjective(t) /\ ToSet(t) = ToSet(s) \cup {u.id}
    <3>1. CASE u.id \in ToSet(s)
      BY <1>1, <1>s, <3>1
    <3>2. CASE u.id \notin ToSet(s)
      BY <1>1, <1>2, <1>5, <1>s, <3>2, AppendApart
    <3> QED BY <3>1, <3>2
  <2>3. \A id : (Brings(u, id) <=> u.id = id) /\ ~Takes(u, id)
    BY <1>5 DEF Brings, Takes
  <2> HIDE DEF t
  <2>4. \A id : id \in ToSet(t) <=> Brings(u, id) \/ (id \in ToSet(s) /\ ~Takes(u, id))
    BY <2>2, <2>3
  <2> QED BY <1>4, <1>5, <2>1, <2>2, <2>4 DEF t
<1>6. CASE u.op = "deliver"
  <2> DEFINE w == Only(s, ToSet(s) \ {u.id})
             t == IF Contains(s, u.id) THEN Append(w, u.id) ELSE s
  <2>1. Applied(v, u) = [v EXCEPT !.rows = t]
    BY <1>1, <1>6 DEF Applied, s, Without
  <2>2. w \in Seq(Ids) /\ IsInjective(w) /\ ToSet(w) = ToSet(s) \ {u.id}
    <3>1. ToSet(s) \cap (ToSet(s) \ {u.id}) = ToSet(s) \ {u.id}
      OBVIOUS
    <3> QED BY <1>1, <3>1, OnlyKept
  <2> HIDE DEF w
  <2>3. t \in Seq(Ids) /\ IsInjective(t) /\ ToSet(t) = ToSet(s)
    <3>1. CASE u.id \in ToSet(s)
      <4>1. /\ Append(w, u.id) \in Seq(Ids) /\ IsInjective(Append(w, u.id))
            /\ ToSet(Append(w, u.id)) = ToSet(w) \cup {u.id}
        BY <1>2, <1>6, <2>2, AppendApart
      <4> QED BY <1>s, <2>2, <3>1, <4>1
    <3>2. CASE u.id \notin ToSet(s)
      BY <1>1, <1>s, <3>2
    <3> QED BY <3>1, <3>2
  <2>4. \A id : ~Brings(u, id) /\ ~Takes(u, id)
    BY <1>6 DEF Brings, Takes
  <2> HIDE DEF t
  <2>5. \A id : id \in ToSet(t) <=> Brings(u, id) \/ (id \in ToSet(s) /\ ~Takes(u, id))
    BY <2>3, <2>4
  <2> QED BY <1>4, <1>6, <2>1, <2>3, <2>5
<1>7. CASE u.op = "remove"
  <2> DEFINE t == Only(s, ToSet(s) \ {u.id})
  <2>1. Applied(v, u) = [v EXCEPT !.rows = t]
    BY <1>1, <1>7 DEF Applied, s, Without
  <2>2. t \in Seq(Ids) /\ IsInjective(t) /\ ToSet(t) = ToSet(s) \ {u.id}
    <3>1. ToSet(s) \cap (ToSet(s) \ {u.id}) = ToSet(s) \ {u.id}
      OBVIOUS
    <3> QED BY <1>1, <3>1, OnlyKept
  <2>3. \A id : ~Brings(u, id) /\ (Takes(u, id) <=> u.id = id)
    BY <1>7 DEF Brings, Takes
  <2> HIDE DEF t
  <2>4. \A id : id \in ToSet(t) <=> Brings(u, id) \/ (id \in ToSet(s) /\ ~Takes(u, id))
    BY <2>2, <2>3
  <2> QED BY <1>4, <1>7, <2>1, <2>2, <2>4
<1>8. CASE u.op = "drop"
  <2> DEFINE k == {r \in ToSet(s) : r < u.id} \cup outbox
             t == Only(s, k)
  <2>1. Applied(v, u) = [v EXCEPT !.rows = t]
    BY <1>1, <1>8 DEF Applied, s, DropReverted
  <2>2. t \in Seq(Ids) /\ IsInjective(t) /\ ToSet(t) = ToSet(s) \cap k
    <3> HIDE DEF k
    <3> QED BY <1>1, OnlyKept
  <2>3. \A id : ~Brings(u, id) /\ (id \in ToSet(s) => (Takes(u, id) <=> id \notin k))
    BY <1>8 DEF Brings, Takes
  <2> HIDE DEF t, k
  <2>4. \A id : id \in ToSet(t) <=> Brings(u, id) \/ (id \in ToSet(s) /\ ~Takes(u, id))
    BY <2>2, <2>3
  <2> QED BY <1>4, <1>8, <2>1, <2>2, <2>4
<1>9. CASE u.op = "merge"
  <2> DEFINE m == Only(u.page, ToSet(u.page) \ ToSet(s))
             t == s \o m
  <2>1. Applied(v, u) = [v EXCEPT !.rows = t]
    BY <1>1, <1>9 DEF Applied, s, MergeProjection
  <2>2. m \in Seq(Ids) /\ IsInjective(m) /\ ToSet(m) = ToSet(u.page) \ ToSet(s)
    <3>1. ToSet(u.page) \cap (ToSet(u.page) \ ToSet(s)) = ToSet(u.page) \ ToSet(s)
      OBVIOUS
    <3> QED BY <1>2, <3>1, OnlyKept
  <2> HIDE DEF m
  <2>3. t \in Seq(Ids) /\ IsInjective(t) /\ ToSet(t) = ToSet(s) \cup ToSet(m)
    <3>1. ToSet(s) \cap ToSet(m) = {}
      BY <2>2
    <3> QED BY <1>1, <2>2, <3>1, ConcatApart
  <2>4. \A id : (Brings(u, id) <=> id \in ToSet(u.page)) /\ ~Takes(u, id)
    BY <1>9 DEF Brings, Takes
  <2> HIDE DEF t
  <2>5. \A id : id \in ToSet(t) <=> Brings(u, id) \/ (id \in ToSet(s) /\ ~Takes(u, id))
    BY <2>2, <2>3, <2>4
  <2> QED BY <1>4, <1>9, <2>1, <2>3, <2>5
<1>10. CASE u.op = "revert"
  <2>1. Applied(v, u) = [rows |-> s, revert |-> u.id]
    BY <1>1, <1>10 DEF Applied
  <2>2. \A id : ~Brings(u, id) /\ ~Takes(u, id)
    BY <1>10 DEF Brings, Takes
  <2>3. v.rows = s
    BY DEF s
  <2> HIDE DEF Applied
  <2> QED BY <1>1, <1>2, <1>10, <2>1, <2>2, <2>3 DEF ShownViews
<1> QED
  BY <1>2, <1>5, <1>6, <1>7, <1>8, <1>9, <1>10

-----------------------------------------------------------------------------
(* What a flush makes of the staged updates *)

\* The views after each update exist: each is the one before, updated.
LEMMA ViewsAre ==
  ASSUME NEW updates \in Seq(Updates)
  PROVE  /\ Views(updates)[0] = [rows |-> rows, revert |-> revert]
         /\ \A n \in 1 .. Len(updates) :
              Views(updates)[n] = Applied(Views(updates)[n - 1], updates[n])
<1> DEFINE Step(f, n) == IF n = 0 THEN [rows |-> rows, revert |-> revert]
                         ELSE Applied(f[n - 1], updates[n])
           To(N) == \E f : f = [n \in 0 .. N |-> Step(f, n)]
           All == {N \in Nat : To(N)}
<1>1. 0 \in All
  <2> DEFINE f == [n \in 0 .. 0 |-> [rows |-> rows, revert |-> revert]]
  <2>1. f = [n \in 0 .. 0 |-> Step(f, n)]
    OBVIOUS
  <2> HIDE DEF f
  <2> QED BY <2>1
<1>2. ASSUME NEW N \in Nat, N \in All PROVE N + 1 \in All
  <2>1. PICK f : f = [n \in 0 .. N |-> Step(f, n)]
    BY <1>2
  <2> DEFINE g == [n \in 0 .. N + 1 |-> IF n = N + 1 THEN Step(f, n) ELSE f[n]]
  <2>2. \A n \in 0 .. N + 1 : n # 0 => n - 1 \in 0 .. N /\ g[n - 1] = f[n - 1]
    OBVIOUS
  <2>3. \A n \in 0 .. N : f[n] = Step(f, n)
    BY <2>1
  <2>4. \A n \in 0 .. N + 1 : g[n] = Step(g, n)
    <3> SUFFICES ASSUME NEW n \in 0 .. N + 1 PROVE g[n] = Step(g, n)
      OBVIOUS
    <3>1. Step(g, n) = Step(f, n)
      BY <2>2
    <3>2. n \in 0 .. N \/ n = N + 1
      OBVIOUS
    <3> QED BY <2>3, <3>1, <3>2
  <2>5. g = [n \in 0 .. N + 1 |-> Step(g, n)]
    BY <2>4
  <2> HIDE DEF g, Step
  <2> QED BY <2>5
<1>3. Nat \subseteq All
  <2> HIDE DEF All
  <2> QED BY <1>1, <1>2, Induct
<1>4. Len(updates) \in Nat
  BY LenProperties
<1>5. To(Len(updates))
  BY <1>3, <1>4
<1> DEFINE view == Views(updates)
<1>6. view = [n \in 0 .. Len(updates) |-> Step(view, n)]
  BY <1>5 DEF Views
<1> HIDE DEF view
<1>7. 0 \in 0 .. Len(updates) /\ \A n \in 1 .. Len(updates) : n \in 0 .. Len(updates) /\ n # 0
  BY <1>4
<1>8. view[0] = [rows |-> rows, revert |-> revert] /\ \A n \in 1 .. Len(updates) : view[n] = Applied(view[n - 1], updates[n])
  BY <1>6, <1>7
<1> QED
  BY <1>8 DEF view

\* A message's row is shown where it was or was brought, unless it was taken since.
Comes(updates, k, id) == IF k = 0 THEN id \in ToSet(rows) ELSE Brings(updates[k], id)

Stays(updates, k, n, id) == \A j \in 1 .. n : k < j => ~Takes(updates[j], id)

ShowsAt(updates, n, id) == \E k \in 0 .. n : Comes(updates, k, id) /\ Stays(updates, k, n, id)

Shows(updates, id) == ShowsAt(updates, Len(updates), id)

\* The revert shown is what was set last.
Sets(updates, k, to) ==
  IF k = 0 THEN to = revert ELSE updates[k].op = "revert" /\ to = updates[k].id

RevertAt(updates, n, to) ==
  \E k \in 0 .. n : /\ Sets(updates, k, to)
                    /\ \A j \in 1 .. n : k < j => updates[j].op # "revert"

\* After each update the view has the rows brought and not taken since, and the revert set last.
LEMMA ViewsShow ==
  ASSUME rows \in Seq(Ids), IsInjective(rows), revert \in 0 .. MaxId,
         NEW updates \in Seq(Proper), NEW n \in 0 .. Len(updates)
  PROVE  /\ Views(updates)[n] \in ShownViews /\ IsInjective(Views(updates)[n].rows)
         /\ \A id : id \in ToSet(Views(updates)[n].rows) <=> ShowsAt(updates, n, id)
         /\ RevertAt(updates, n, Views(updates)[n].revert)
<1> DEFINE V == Views(updates)
           Good(m) == /\ V[m] \in ShownViews /\ IsInjective(V[m].rows)
                      /\ \A id : id \in ToSet(V[m].rows) <=> ShowsAt(updates, m, id)
                      /\ RevertAt(updates, m, V[m].revert)
           All == {m \in Nat : m <= Len(updates) => Good(m)}
<1>1. /\ Len(updates) \in Nat /\ \A i \in 1 .. Len(updates) : updates[i] \in Proper
      /\ updates \in Seq(Updates)
  <2>1. Len(updates) \in Nat /\ \A i \in 1 .. Len(updates) : updates[i] \in Proper
    BY LenProperties, ElementOfSeq
  <2>2. Proper \subseteq Updates
    BY DEF Proper
  <2>3. updates \in Seq(Updates)
    BY <2>2
  <2> QED BY <2>1, <2>3
<1>2. /\ V[0] = [rows |-> rows, revert |-> revert]
      /\ \A m \in 1 .. Len(updates) : V[m] = Applied(V[m - 1], updates[m])
  BY <1>1, ViewsAre
<1> HIDE DEF V
<1>3. 0 \in All
  <2>1. V[0] \in ShownViews /\ V[0].rows = rows /\ V[0].revert = revert
    BY <1>2 DEF ShownViews
  <2>2. \A id : ShowsAt(updates, 0, id) <=> id \in ToSet(rows)
    BY DEF ShowsAt, Comes, Stays
  <2>3. RevertAt(updates, 0, revert)
    BY DEF RevertAt, Sets
  <2> QED BY <2>1, <2>2, <2>3
<1>4. ASSUME NEW m \in Nat, m \in All PROVE m + 1 \in All
  <2> SUFFICES ASSUME m + 1 <= Len(updates) PROVE Good(m + 1)
    OBVIOUS
  <2> DEFINE u == updates[m + 1]
  <2>1. Good(m) /\ m + 1 \in 1 .. Len(updates) /\ (m + 1) - 1 = m /\ u \in Proper
    BY <1>1, <1>4
  <2>2. V[m + 1] = Applied(V[m], u)
    BY <1>2, <2>1
  <2>3. /\ V[m + 1] \in ShownViews /\ IsInjective(V[m + 1].rows)
        /\ \A id : id \in ToSet(V[m + 1].rows) <=>
                     Brings(u, id) \/ (id \in ToSet(V[m].rows) /\ ~Takes(u, id))
        /\ V[m + 1].revert = IF u.op = "revert" THEN u.id ELSE V[m].revert
    <3> DEFINE v == V[m]
    <3>1. v \in ShownViews /\ IsInjective(v.rows) /\ u \in Proper /\ V[m + 1] = Applied(v, u)
      BY <2>1, <2>2
    <3> HIDE DEF u, v
    <3>2. /\ Applied(v, u) \in ShownViews /\ IsInjective(Applied(v, u).rows)
          /\ \A id : id \in ToSet(Applied(v, u).rows) <=>
                       Brings(u, id) \/ (id \in ToSet(v.rows) /\ ~Takes(u, id))
          /\ Applied(v, u).revert = IF u.op = "revert" THEN u.id ELSE v.revert
      BY <3>1, AppliedIs
    <3> QED BY <3>1, <3>2 DEF v
  <2>4. ASSUME NEW id
        PROVE  ShowsAt(updates, m + 1, id) <=> Brings(u, id) \/ (ShowsAt(updates, m, id) /\ ~Takes(u, id))
    <3>1. ASSUME Brings(u, id) PROVE ShowsAt(updates, m + 1, id)
      <4>1. Comes(updates, m + 1, id) /\ Stays(updates, m + 1, m + 1, id)
        BY <3>1 DEF Comes, Stays
      <4> QED BY <4>1 DEF ShowsAt
    <3>2. ASSUME ShowsAt(updates, m, id), ~Takes(u, id) PROVE ShowsAt(updates, m + 1, id)
      <4>1. PICK k \in 0 .. m : Comes(updates, k, id) /\ Stays(updates, k, m, id)
        BY <3>2 DEF ShowsAt
      <4>2. \A j \in 1 .. m + 1 : j \in 1 .. m \/ j = m + 1
        OBVIOUS
      <4>3. Stays(updates, k, m + 1, id)
        BY <3>2, <4>1, <4>2 DEF Stays
      <4>4. k \in 0 .. m + 1
        OBVIOUS
      <4> QED BY <4>1, <4>3, <4>4 DEF ShowsAt
    <3>3. ASSUME ShowsAt(updates, m + 1, id)
          PROVE  Brings(u, id) \/ (ShowsAt(updates, m, id) /\ ~Takes(u, id))
      <4>1. PICK k \in 0 .. m + 1 : Comes(updates, k, id) /\ Stays(updates, k, m + 1, id)
        BY <3>3 DEF ShowsAt
      <4>2. CASE k = m + 1
        BY <4>1, <4>2 DEF Comes
      <4>3. CASE k \in 0 .. m
        <5>1. ~Takes(u, id)
          BY <4>1, <4>3 DEF Stays
        <5>2. Stays(updates, k, m, id)
          BY <4>1 DEF Stays
        <5> QED BY <4>1, <4>3, <5>1, <5>2 DEF ShowsAt
      <4> QED BY <4>2, <4>3
    <3> QED BY <3>1, <3>2, <3>3
  <2>5. RevertAt(updates, m + 1, V[m + 1].revert)
    <3>1. CASE u.op = "revert"
      <4>1. Sets(updates, m + 1, V[m + 1].revert)
        BY <2>3, <3>1 DEF Sets
      <4> QED BY <4>1 DEF RevertAt
    <3>2. CASE u.op # "revert"
      <4>1. PICK k \in 0 .. m : /\ Sets(updates, k, V[m].revert)
                                /\ \A j \in 1 .. m : k < j => updates[j].op # "revert"
        BY <2>1 DEF RevertAt
      <4>2. \A j \in 1 .. m + 1 : j \in 1 .. m \/ j = m + 1
        OBVIOUS
      <4>3. k \in 0 .. m + 1 /\ \A j \in 1 .. m + 1 : k < j => updates[j].op # "revert"
        BY <3>2, <4>1, <4>2
      <4> QED BY <2>3, <3>2, <4>1, <4>3 DEF RevertAt
    <3> QED BY <3>1, <3>2
  <2> HIDE DEF u
  <2> QED BY <2>1, <2>3, <2>4, <2>5
<1>5. Nat \subseteq All
  <2> HIDE DEF All
  <2> QED BY <1>3, <1>4, Induct
<1>6. n \in Nat /\ n <= Len(updates)
  BY <1>1
<1>7. Good(n)
  BY <1>5, <1>6
<1> QED
  BY <1>7 DEF V

\* What a flush shows.
LEMMA FlushedIs ==
  ASSUME rows \in Seq(Ids), IsInjective(rows), revert \in 0 .. MaxId,
         NEW updates \in Seq(Proper)
  PROVE  /\ Flushed(updates).rows \in Seq(Ids) /\ IsInjective(Flushed(updates).rows)
         /\ Flushed(updates).revert \in 0 .. MaxId
         /\ \A id : id \in ToSet(Flushed(updates).rows) <=> Shows(updates, id)
         /\ RevertAt(updates, Len(updates), Flushed(updates).revert)
<1>1. Len(updates) \in 0 .. Len(updates)
  BY LenProperties
<1>2. /\ Views(updates)[Len(updates)] \in ShownViews /\ IsInjective(Views(updates)[Len(updates)].rows)
      /\ \A id : id \in ToSet(Views(updates)[Len(updates)].rows) <=> ShowsAt(updates, Len(updates), id)
      /\ RevertAt(updates, Len(updates), Views(updates)[Len(updates)].revert)
  BY <1>1, ViewsShow
<1> QED
  BY <1>2 DEF Flushed, Shows, ShownViews

-----------------------------------------------------------------------------
(* Updates staged behind others *)

\* What two lists of updates show, from what the first shows and the second brings and takes.
LEMMA ShowsConcat ==
  ASSUME NEW p \in Seq(Proper), NEW q \in Seq(Proper), NEW id
  PROVE  Shows(p \o q, id) <=>
           \/ \E k \in DOMAIN q : /\ Brings(q[k], id)
                                  /\ \A j \in DOMAIN q : k < j => ~Takes(q[j], id)
           \/ Shows(p, id) /\ \A j \in DOMAIN q : ~Takes(q[j], id)
<1> DEFINE r == p \o q
           n == Len(p)
           m == Len(q)
<1>1. /\ r \in Seq(Proper) /\ n \in Nat /\ m \in Nat /\ DOMAIN p = 1 .. n /\ DOMAIN q = 1 .. m
      /\ Len(r) = n + m /\ DOMAIN r = 1 .. n + m
      /\ \A i \in 1 .. n : r[i] = p[i]
      /\ \A i \in 1 .. m : r[n + i] = q[i] /\ n + i \in 1 .. n + m
      /\ \A i \in 1 .. n + m : i \in 1 .. n \/ (i - n \in 1 .. m /\ r[i] = q[i - n])
  BY ConcatParts
<1> HIDE DEF r, n, m
<1>2. ASSUME Shows(r, id)
      PROVE  \/ \E k \in 1 .. m : Brings(q[k], id) /\ \A j \in 1 .. m : k < j => ~Takes(q[j], id)
             \/ Shows(p, id) /\ \A j \in 1 .. m : ~Takes(q[j], id)
  <2>1. PICK k \in 0 .. n + m : /\ IF k = 0 THEN id \in ToSet(rows) ELSE Brings(r[k], id)
                                /\ \A j \in 1 .. n + m : k < j => ~Takes(r[j], id)
    BY <1>1, <1>2 DEF Shows, ShowsAt, Comes, Stays
  <2>2. CASE k \in 0 .. n
    <3>1. ShowsAt(p, n, id)
      <4>1. Comes(p, k, id)
        BY <1>1, <2>1, <2>2 DEF Comes
      <4>2. Stays(p, k, n, id)
        BY <1>1, <2>1 DEF Stays
      <4> QED BY <2>2, <4>1, <4>2 DEF ShowsAt
    <3>2. \A j \in 1 .. m : ~Takes(q[j], id)
      <4>1. \A j \in 1 .. m : k < n + j
        BY <1>1, <2>2
      <4> QED BY <1>1, <2>1, <4>1
    <3> QED BY <3>1, <3>2 DEF Shows, n
  <2>3. CASE k \notin 0 .. n
    <3>1. k \in 1 .. n + m /\ k \notin 1 .. n /\ k # 0
      BY <1>1, <2>3
    <3>2. k - n \in 1 .. m /\ r[k] = q[k - n]
      BY <1>1, <3>1
    <3>3. Brings(q[k - n], id)
      BY <2>1, <3>1, <3>2
    <3>4. \A j \in 1 .. m : k - n < j => k < n + j
      BY <1>1
    <3> QED BY <1>1, <2>1, <3>2, <3>3, <3>4
  <2> QED BY <2>2, <2>3
<1>3. ASSUME NEW k \in 1 .. m, Brings(q[k], id), \A j \in 1 .. m : k < j => ~Takes(q[j], id)
      PROVE  Shows(r, id)
  <2>1. n + k \in 0 .. n + m /\ n + k # 0 /\ r[n + k] = q[k]
    BY <1>1
  <2>2. ASSUME NEW j \in 1 .. n + m, n + k < j PROVE ~Takes(r[j], id)
    <3>1. j \notin 1 .. n /\ k < j - n
      BY <1>1, <2>2
    <3> QED BY <1>1, <1>3, <3>1
  <2> QED BY <1>1, <1>3, <2>1, <2>2 DEF Shows, ShowsAt, Comes, Stays
<1>4. ASSUME Shows(p, id), \A j \in 1 .. m : ~Takes(q[j], id)
      PROVE  Shows(r, id)
  <2>1. PICK k \in 0 .. n : /\ IF k = 0 THEN id \in ToSet(rows) ELSE Brings(p[k], id)
                            /\ \A j \in 1 .. n : k < j => ~Takes(p[j], id)
    BY <1>4 DEF Shows, ShowsAt, Comes, Stays, n
  <2>2. k \in 0 .. n + m /\ IF k = 0 THEN id \in ToSet(rows) ELSE Brings(r[k], id)
    BY <1>1, <2>1
  <2>3. \A j \in 1 .. n + m : k < j => ~Takes(r[j], id)
    BY <1>1, <1>4, <2>1
  <2> QED BY <1>1, <2>2, <2>3 DEF Shows, ShowsAt, Comes, Stays
<1> QED
  BY <1>1, <1>2, <1>3, <1>4 DEF r

\* The revert that two lists of updates leave, from what each of them sets.
LEMMA RevertConcat ==
  ASSUME NEW p \in Seq(Proper), NEW q \in Seq(Proper), NEW to, RevertAt(p \o q, Len(p \o q), to)
  PROVE  \/ \E k \in DOMAIN q : /\ q[k].op = "revert" /\ q[k].id = to
                                /\ \A j \in DOMAIN q : k < j => q[j].op # "revert"
         \/ RevertAt(p, Len(p), to) /\ \A j \in DOMAIN q : q[j].op # "revert"
<1> DEFINE r == p \o q
           n == Len(p)
           m == Len(q)
<1>1. /\ r \in Seq(Proper) /\ n \in Nat /\ m \in Nat /\ DOMAIN p = 1 .. n /\ DOMAIN q = 1 .. m
      /\ Len(r) = n + m /\ DOMAIN r = 1 .. n + m
      /\ \A i \in 1 .. n : r[i] = p[i]
      /\ \A i \in 1 .. m : r[n + i] = q[i] /\ n + i \in 1 .. n + m
      /\ \A i \in 1 .. n + m : i \in 1 .. n \/ (i - n \in 1 .. m /\ r[i] = q[i - n])
  BY ConcatParts
<1>2. RevertAt(r, Len(r), to)
  OBVIOUS
<1> HIDE DEF r, n, m
<1>3. PICK k \in 0 .. n + m : /\ IF k = 0 THEN to = revert ELSE r[k].op = "revert" /\ to = r[k].id
                              /\ \A j \in 1 .. n + m : k < j => r[j].op # "revert"
  BY <1>1, <1>2 DEF RevertAt, Sets
<1>4. CASE k \in 0 .. n
  <2>1. RevertAt(p, n, to)
    BY <1>1, <1>3, <1>4 DEF RevertAt, Sets
  <2>2. \A j \in 1 .. m : k < n + j
    BY <1>1, <1>4
  <2>3. \A j \in 1 .. m : q[j].op # "revert"
    BY <1>1, <1>3, <2>2
  <2> QED BY <1>1, <2>1, <2>3 DEF n
<1>5. CASE k \notin 0 .. n
  <2>1. k \in 1 .. n + m /\ k \notin 1 .. n /\ k # 0
    BY <1>1, <1>5
  <2>2. k - n \in 1 .. m /\ r[k] = q[k - n]
    BY <1>1, <2>1
  <2>3. q[k - n].op = "revert" /\ q[k - n].id = to
    BY <1>3, <2>1, <2>2
  <2>4. \A j \in 1 .. m : k - n < j => k < n + j
    BY <1>1
  <2>5. \A j \in 1 .. m : k - n < j => q[j].op # "revert"
    BY <1>1, <1>3, <2>4
  <2> QED BY <1>1, <2>2, <2>3, <2>5
<1> QED
  BY <1>4, <1>5

-----------------------------------------------------------------------------
(* The inductive invariant of what is shown *)

Has(id) == id \in ToSet(taken)

Keeps(id) == id \in ToSet(log) \cup ToSet(inbox)

Waits(id) == \E s \in ToSet(sending) : s.kind = "prompt" /\ s.id = id

UndoWaits == \E s \in ToSet(sending) : s.phase = "queued" /\ s.undo

CommandsQueued == {k \in DOMAIN sending : sending[k].phase = "queued" /\ sending[k].kind = "command"}

RowsTyped ==
  /\ rows \in Seq(Ids) /\ IsInjective(rows) /\ revert \in 0 .. MaxId
  /\ staged \in Seq(Proper) /\ outbox \subseteq Ids

ServiceTyped ==
  /\ log \in Seq(Ids) /\ inbox \in Seq(Ids) /\ IsInjective(log) /\ IsInjective(inbox)
  /\ ToSet(log) \cap ToSet(inbox) = {}
  /\ reverted \in 0 .. MaxId /\ turn \in BOOLEAN
  /\ taken \in Seq(Ids) /\ IsInjective(taken)
  /\ ToSet(log) \cup ToSet(inbox) \subseteq ToSet(taken)

SendsTyped ==
  /\ sending \in Seq(Sends)
  /\ \A s \in ToSet(sending) : s.kind = "prompt" => s.id \in Ids
  /\ next \in 1 .. MaxId + 1
  /\ next + Cardinality(CommandsQueued) <= MaxId + 1

WiresTyped ==
  /\ reads \in Seq(Reads) /\ Len(reads) <= MaxReads
  /\ \A r \in ToSet(reads) : IsInjective(r.page)
  /\ bus \in Seq(Events)
  /\ \A e \in ToSet(bus) : e.type \in {"enqueued", "delivered", "cancelled", "committed"} => e.id \in Ids
  /\ settling \in BOOLEAN /\ up \in BOOLEAN /\ (~up => bus = <<>>)

RestTyped ==
  /\ late \subseteq Ids /\ commands \in 0 .. MaxCommands /\ faults \in 0 .. MaxFaults
  /\ mine \subseteq Ids /\ gaveUp \subseteq Ids /\ slipped \subseteq Ids
  /\ stale \in BOOLEAN /\ withdrawn \subseteq Ids

Typed == RowsTyped /\ ServiceTyped /\ SendsTyped /\ WiresTyped /\ RestTyped

\* A prompt that has not reached the service is shown, and waits to be sent or may
\* still arrive; one that was taken reached it.
Unsent ==
  /\ \A s \in ToSet(sending) : s.kind = "prompt" =>
       IF s.phase = "queued" THEN s.id \in outbox /\ ~Has(s.id) /\ s.id \notin late ELSE Has(s.id)
  /\ \A id \in late : ~Has(id)

\* Every row here, and every row to come, is the service's or a prompt that waits.
Sourced ==
  /\ \A id \in ToSet(rows) \cup outbox : Has(id) \/ Waits(id)
  /\ \A u \in ToSet(staged), id \in Ids : Brings(u, id) => Has(id)
  /\ \A r \in ToSet(reads) : ToSet(r.page) \subseteq ToSet(taken)
  /\ \A e \in ToSet(bus) : /\ e.about \subseteq ToSet(taken)
                           /\ e.type \in {"enqueued", "cancelled"} => e.about = {e.id}

\* A prompt on its way out is on screen, and nothing staged takes it away.
OutboxKept ==
  /\ outbox \subseteq ToSet(rows)
  /\ \A u \in ToSet(staged) : u.op = "remove" => u.id \notin outbox

Enqueues(e, id) == e.type = "enqueued" /\ e.id = id

Leaves(e, id) == e.type \in {"cancelled", "committed"} /\ id \in e.about

\* Once the service has it, its echo is on its way.
EchoComes ==
  \A id \in outbox : Has(id) => id \in slipped \/ \E e \in ToSet(bus) : Enqueues(e, id)

Known == Unsent /\ Sourced /\ OutboxKept /\ EchoComes

\* Nothing the service took and dropped is told of before its echo.
EchoFirst(b) ==
  \A j, k \in DOMAIN b, id \in Ids : Enqueues(b[j], id) /\ Leaves(b[k], id) => j < k

Dropped(id) == Has(id) /\ ~Keeps(id)

\* A message the service dropped is told of, or on its way off the screen.
DropsTold ==
  /\ EchoFirst(bus)
  /\ \A e \in ToSet(bus), id \in Ids : Leaves(e, id) => Dropped(id)
  /\ \A e \in ToSet(bus), id \in Ids : e.type = "committed" /\ id \in e.about => ~(id < e.id)
  /\ \A u \in ToSet(staged) : u.op = "remove" => Dropped(u.id)
  /\ \A id \in Ids : Dropped(id) /\ id \notin slipped =>
       /\ \A r \in ToSet(reads) : id \notin ToSet(r.page)
       /\ \/ \E e \in ToSet(bus) : Leaves(e, id)
          \/ ~Shows(staged, id) /\ \A e \in ToSet(bus) : ~Enqueues(e, id)

-----------------------------------------------------------------------------
(* The revert *)

Reverts == {"staged", "cleared", "committed"}

RevertTold(e) == IF e.type = "staged" THEN e.id ELSE 0

\* The last event about the revert tells what it is.
LastTold(b, to) ==
  \A k \in DOMAIN b :
    b[k].type \in Reverts /\ (\A j \in DOMAIN b : k < j => b[j].type \notin Reverts) =>
      RevertTold(b[k]) = to

\* What was read, answered or told of last is the service's.
RevertsTold ==
  /\ ~stale => \A r \in ToSet(reads) : r.kind # "tail" /\ r.served => r.revert = reverted
  /\ ~stale /\ sending # <<>> /\ sending[1].kind \in {"revert", "unrevert"} /\ sending[1].phase = "taken" =>
       sending[1].id = reverted
  /\ \A s \in ToSet(sending) : s.kind = "unrevert" => s.id = 0
  /\ LastTold(bus, reverted)

\* It is going to be told of or read.
RevertRead ==
  \/ ~up
  \/ \E e \in ToSet(bus) : e.type = "connected" \/ e.type \in Reverts
  \/ \E r \in ToSet(reads) : r.kind # "tail"

RevertComes ==
  ~stale /\ ~RevertRead =>
    \A to \in 0 .. MaxId : RevertAt(staged, Len(staged), to) => to = reverted \/ (to = 0 /\ UndoWaits)

-----------------------------------------------------------------------------
(* What comes *)

\* The newest page is going to be read.
TailComes ==
  \/ turn \/ settling \/ ~up
  \/ \E e \in ToSet(bus) : e.type \in {"ended", "connected"}
  \/ \E r \in ToSet(reads) : r.kind = "list" \/ (r.kind = "tail" /\ ~r.served)

PageHas(id) == \E r \in ToSet(reads) : r.kind = "tail" /\ r.served /\ id \in ToSet(r.page)

InputComes == inbox # <<>> \/ UndoWaits

\* A commit told of that takes a message delivered since is followed by the end of
\* its turn.
EndFollows(b, held, on) ==
  \A k \in DOMAIN b, id \in held : b[k].type = "committed" /\ ~(id < b[k].id) =>
    on \/ \E j \in DOMAIN b : k < j /\ b[j].type = "ended"

\* A commit staged that takes it is followed by the page that brings it back.
Mended(us, held) ==
  \A k \in DOMAIN us, id \in held : us[k].op = "drop" /\ ~(id < us[k].id) =>
    \E j \in DOMAIN us : k < j /\ us[j].op = "merge" /\ id \in ToSet(us[j].page)

DropsMended ==
  /\ EndFollows(bus, ToSet(log), turn)
  /\ ~stale /\ ~TailComes => Mended(staged, {id \in ToSet(log) : ~PageHas(id)})

\* A message the service holds is shown, or comes.
RowComes(id) ==
  \/ id \in ToSet(rows) \/ PageHas(id)
  \/ \E u \in ToSet(staged) : Brings(u, id)
  \/ \E e \in ToSet(bus) : Enqueues(e, id)

RowsCome ==
  ~stale /\ ~TailComes /\ ~InputComes =>
    \A id \in ToSet(log) : RowComes(id) \/ id \in (gaveUp \cap slipped) \cup withdrawn

\* Only new input commits a revert here.
UndoSends == \A s \in ToSet(sending) : s.undo => s.kind \in {"prompt", "command"}

Mends == UndoSends /\ DropsMended /\ RowsCome

Shown == Typed /\ Known /\ DropsTold /\ RevertsTold /\ RevertComes /\ Mends

-----------------------------------------------------------------------------
(* The chain of sends *)

\* The commands of the chain can be counted.
LEMMA CommandsFinite ==
  ASSUME sending \in Seq(Sends)
  PROVE  /\ IsFiniteSet(CommandsQueued) /\ Cardinality(CommandsQueued) \in Nat
         /\ IsFiniteSet(Pending("command")) /\ Cardinality(Pending("command")) \in Nat
         /\ Cardinality(CommandsQueued) <= Cardinality(Pending("command"))
<1>1. Len(sending) \in Nat /\ DOMAIN sending = 1 .. Len(sending)
  BY LenProperties
<1>2. IsFiniteSet(1 .. Len(sending))
  BY <1>1, FS_Interval
<1>3. Pending("command") \in SUBSET (1 .. Len(sending)) /\ CommandsQueued \in SUBSET Pending("command")
  BY <1>1 DEF Pending, CommandsQueued
<1>4. IsFiniteSet(Pending("command"))
  BY <1>2, <1>3, FS_Subset
<1>5. IsFiniteSet(CommandsQueued) /\ Cardinality(CommandsQueued) <= Cardinality(Pending("command"))
  BY <1>3, <1>4, FS_Subset
<1> QED
  BY <1>4, <1>5, FS_CardinalityType

\* What a new request makes of the chain.
LEMMA SendAdds ==
  ASSUME SendsTyped, NEW s \in Sends, s.phase = "queued", s.kind = "prompt" => s.id \in Ids,
         sending' = Append(sending, s), Room,
         \/ s.kind # "command" /\ next' \in {next, next + 1}
         \/ s.kind = "command" /\ next' = next
  PROVE  /\ SendsTyped' /\ ToSet(sending') = ToSet(sending) \cup {s}
         /\ sending'[1] = IF sending = <<>> THEN s ELSE sending[1]
<1>0. sending \in Seq(Sends) /\ next \in 1 .. MaxId + 1 /\ MaxId \in Nat
  BY PromptsBounds DEF SendsTyped
<1>1. /\ sending' \in Seq(Sends) /\ ToSet(sending') = ToSet(sending) \cup {s}
      /\ DOMAIN sending = 1 .. Len(sending) /\ DOMAIN sending' = 1 .. Len(sending) + 1 /\ Len(sending) \in Nat
      /\ sending'[Len(sending) + 1] = s /\ \A k \in DOMAIN sending : sending'[k] = sending[k]
  <2> DEFINE q == Append(sending, s)
  <2> DEFINE c == sending
  <2>0. c \in Seq(Sends) /\ q = Append(c, s) /\ c = sending
    BY <1>0
  <2> HIDE DEF c, q
  <2>1. /\ q \in Seq(Sends) /\ ToSet(q) = ToSet(c) \cup {s}
        /\ DOMAIN c = 1 .. Len(c) /\ DOMAIN q = 1 .. Len(c) + 1 /\ Len(c) \in Nat
        /\ q[Len(c) + 1] = s /\ \A k \in DOMAIN c : q[k] = c[k]
    BY <2>0, AppendParts
  <2>2. sending' = q
    BY DEF q
  <2> QED BY <2>0, <2>1, <2>2
<1>2. /\ IsFiniteSet(CommandsQueued) /\ Cardinality(CommandsQueued) \in Nat
      /\ Cardinality(Pending("command")) \in Nat
      /\ Cardinality(CommandsQueued) <= Cardinality(Pending("command"))
  BY <1>0, CommandsFinite
<1>3. CASE s.kind = "command"
  <2>1. CommandsQueued' = CommandsQueued \cup {Len(sending) + 1}
    BY <1>1, <1>3 DEF CommandsQueued
  <2>2. Cardinality(CommandsQueued') <= Cardinality(CommandsQueued) + 1 /\ Cardinality(CommandsQueued') \in Nat
    <3> DEFINE C == CommandsQueued
               n == Len(sending) + 1
    <3> HIDE DEF C, n
    <3>1. Cardinality(C \cup {n}) = IF n \in C THEN Cardinality(C) ELSE Cardinality(C) + 1
      BY <1>2, FS_AddElement DEF C
    <3> QED BY <1>2, <2>1, <3>1 DEF C, n
  <2>3. next' + Cardinality(CommandsQueued') <= MaxId + 1
    BY <1>0, <1>2, <1>3, <2>2 DEF Room
  <2> QED BY <1>0, <1>1, <1>3, <2>3 DEF SendsTyped
<1>4. CASE s.kind # "command"
  <2>1. CommandsQueued' = CommandsQueued
    BY <1>1, <1>4 DEF CommandsQueued
  <2>2. next' + Cardinality(CommandsQueued') <= MaxId + 1 /\ next' \in 1 .. MaxId + 1
    BY <1>0, <1>2, <1>4, <2>1 DEF Room
  <2> QED BY <1>0, <1>1, <2>2 DEF SendsTyped
<1>5. sending'[1] = IF sending = <<>> THEN s ELSE sending[1]
  <2>1. CASE sending = <<>>
    BY <1>1, <2>1
  <2>2. CASE sending # <<>>
    <3>1. 1 \in DOMAIN sending
      BY <1>0, <2>2, TailParts
    <3> QED BY <1>1, <2>2, <3>1
  <2> QED BY <2>1, <2>2
<1> QED
  BY <1>1, <1>3, <1>4, <1>5

\* A revert is asked for: no id is counted for it.
LEMMA AskAdds ==
  ASSUME SendsTyped, NEW s \in Sends, s.phase = "queued", s.kind \in {"revert", "unrevert"},
         sending' = Append(sending, s), next' = next
  PROVE  /\ SendsTyped' /\ ToSet(sending') = ToSet(sending) \cup {s}
         /\ sending'[1] = IF sending = <<>> THEN s ELSE sending[1]
<1>0. sending \in Seq(Sends)
  BY DEF SendsTyped
<1>1. /\ sending' \in Seq(Sends) /\ ToSet(sending') = ToSet(sending) \cup {s}
      /\ DOMAIN sending = 1 .. Len(sending) /\ DOMAIN sending' = 1 .. Len(sending) + 1 /\ Len(sending) \in Nat
      /\ sending'[Len(sending) + 1] = s /\ \A k \in DOMAIN sending : sending'[k] = sending[k]
  <2> DEFINE q == Append(sending, s)
  <2> DEFINE c == sending
  <2>0. c \in Seq(Sends) /\ q = Append(c, s) /\ c = sending
    BY <1>0
  <2> HIDE DEF c, q
  <2>1. /\ q \in Seq(Sends) /\ ToSet(q) = ToSet(c) \cup {s}
        /\ DOMAIN c = 1 .. Len(c) /\ DOMAIN q = 1 .. Len(c) + 1 /\ Len(c) \in Nat
        /\ q[Len(c) + 1] = s /\ \A k \in DOMAIN c : q[k] = c[k]
    BY <2>0, AppendParts
  <2>2. sending' = q
    BY DEF q
  <2> QED BY <2>0, <2>1, <2>2
<1>2. CommandsQueued' = CommandsQueued
  BY <1>1 DEF CommandsQueued
<1>3. SendsTyped'
  BY <1>1, <1>2 DEF SendsTyped
<1>4. sending'[1] = IF sending = <<>> THEN s ELSE sending[1]
  <2>1. CASE sending = <<>>
    BY <1>1, <2>1
  <2>2. CASE sending # <<>>
    <3>1. 1 \in DOMAIN sending
      BY <1>0, <2>2, TailParts
    <3> QED BY <1>1, <2>2, <3>1
  <2> QED BY <2>1, <2>2
<1> QED
  BY <1>1, <1>3, <1>4

\* The head reaches the service: it alone changes, and an id is free for its message.
LEMMA HeadTakes ==
  ASSUME SendsTyped, sending # <<>>, sending[1].phase = "queued", Taken,
         \/ sending[1].kind = "command" /\ next' = next + 1
         \/ next' = next
  PROVE  /\ SendsTyped' /\ sending' # <<>> /\ sending[1] \in Sends /\ Head(sending) = sending[1]
         /\ ToSet(sending) = ToSet(Tail(sending)) \cup {sending[1]}
         /\ ToSet(sending') = ToSet(Tail(sending)) \cup {sending'[1]}
         /\ sending'[1] = [sending[1] EXCEPT !.phase = "taken"]
         /\ sending'[1].phase = "taken" /\ sending'[1].kind = sending[1].kind
         /\ sending'[1].id = sending[1].id /\ sending'[1].undo = sending[1].undo
         /\ sending[1].kind = "command" => next \in Ids
<1> DEFINE t == Tail(sending)
           h == sending[1]
           g == [h EXCEPT !.phase = "taken"]
<1>0. sending \in Seq(Sends) /\ next \in 1 .. MaxId + 1 /\ MaxId \in Nat
  BY PromptsBounds DEF SendsTyped
<1>1. /\ t \in Seq(Sends) /\ h \in Sends /\ 1 \in DOMAIN sending /\ Len(sending) \in Nat /\ Head(sending) = h
      /\ DOMAIN sending = 1 .. Len(sending) /\ DOMAIN t = 1 .. Len(sending) - 1
      /\ \A k \in DOMAIN t : t[k] = sending[k + 1] /\ k + 1 \in DOMAIN sending
      /\ \A k \in DOMAIN sending : k # 1 => k - 1 \in DOMAIN t /\ t[k - 1] = sending[k]
  BY <1>0, TailParts
<1>2. ToSet(sending) = ToSet(t) \cup {h}
  BY <1>0, TailSet
<1>3. g \in Sends /\ g.phase = "taken" /\ g.kind = h.kind /\ g.id = h.id /\ g.undo = h.undo
  BY <1>1 DEF Sends
<1>4. sending' = [sending EXCEPT ![1] = g]
  BY <1>1 DEF Taken
<1>5. sending' \in Seq(Sends) /\ DOMAIN sending' = DOMAIN sending
  <2> HIDE DEF g
  <2> QED BY <1>0, <1>1, <1>3, <1>4, ExceptParts
<1>6. sending'[1] = g /\ \A k \in DOMAIN sending : k # 1 => sending'[k] = sending[k]
  <2> HIDE DEF g
  <2> QED BY <1>1, <1>4
<1> HIDE DEF t, h, g
<1>7. ToSet(sending') = ToSet(t) \cup {g}
  <2>1. ToSet(sending') \subseteq ToSet(t) \cup {g}
    <3> SUFFICES ASSUME NEW k \in DOMAIN sending PROVE sending'[k] \in ToSet(t) \cup {g}
      BY <1>5 DEF ToSet
    <3> QED BY <1>1, <1>6 DEF ToSet
  <2>2. ToSet(t) \subseteq ToSet(sending')
    <3> SUFFICES ASSUME NEW k \in DOMAIN t PROVE t[k] \in ToSet(sending')
      BY DEF ToSet
    <3>1. k + 1 # 1 /\ sending'[k + 1] = t[k] /\ k + 1 \in DOMAIN sending'
      BY <1>1, <1>5, <1>6
    <3> QED BY <3>1 DEF ToSet
  <2> QED BY <1>1, <1>5, <1>6, <2>1, <2>2 DEF ToSet
<1>8. IsFiniteSet(CommandsQueued) /\ Cardinality(CommandsQueued) \in Nat /\ next + Cardinality(CommandsQueued) <= MaxId + 1
  BY <1>0, CommandsFinite DEF SendsTyped
<1>9. CommandsQueued' = CommandsQueued \ {1}
  <2>1. \A k \in DOMAIN sending : k \in CommandsQueued' <=> k \in CommandsQueued \ {1}
    BY <1>3, <1>5, <1>6 DEF CommandsQueued
  <2> QED BY <1>5, <2>1 DEF CommandsQueued
<1>10. /\ IsFiniteSet(CommandsQueued \ {1})
       /\ Cardinality(CommandsQueued \ {1}) = IF 1 \in CommandsQueued THEN Cardinality(CommandsQueued) - 1
                                              ELSE Cardinality(CommandsQueued)
  BY <1>8, FS_RemoveElement
<1>11. h.kind = "command" => 1 \in CommandsQueued
  BY <1>1 DEF CommandsQueued, h
<1>12. IsFiniteSet(CommandsQueued \ {1}) /\ Cardinality(CommandsQueued \ {1}) \in Nat
  BY <1>10, FS_CardinalityType
<1>13. CASE h.kind = "command"
  <2>1. next \in Ids
    BY <1>0, <1>8, <1>10, <1>11, <1>12, <1>13 DEF Ids
  <2>2. next' + Cardinality(CommandsQueued') <= MaxId + 1 /\ next' \in 1 .. MaxId + 1
    BY <1>0, <1>8, <1>9, <1>10, <1>11, <1>12, <1>13
  <2>3. \A s \in ToSet(sending') : s.kind = "prompt" => s.id \in Ids
    BY <1>2, <1>3, <1>7 DEF SendsTyped
  <2> QED BY <1>1, <1>2, <1>3, <1>5, <1>6, <1>7, <2>1, <2>2, <2>3 DEF SendsTyped, t, h, g
<1>14. CASE h.kind # "command"
  <2>1. next' = next
    BY <1>14 DEF h
  <2>2. next' + Cardinality(CommandsQueued') <= MaxId + 1 /\ next' \in 1 .. MaxId + 1
    BY <1>0, <1>8, <1>9, <1>10, <1>12, <2>1
  <2>3. \A s \in ToSet(sending') : s.kind = "prompt" => s.id \in Ids
    BY <1>2, <1>3, <1>7 DEF SendsTyped
  <2> QED BY <1>1, <1>2, <1>3, <1>5, <1>6, <1>7, <1>14, <2>2, <2>3 DEF SendsTyped, t, h, g
<1> QED
  BY <1>13, <1>14

\* The head leaves the chain.
LEMMA HeadLeaves ==
  ASSUME SendsTyped, sending # <<>>, sending' = Tail(sending), next' = next
  PROVE  /\ SendsTyped' /\ sending[1] \in Sends /\ Head(sending) = sending[1]
         /\ ToSet(sending) = ToSet(sending') \cup {sending[1]}
<1> DEFINE t == Tail(sending)
<1>0. sending \in Seq(Sends) /\ next \in 1 .. MaxId + 1 /\ MaxId \in Nat
  BY PromptsBounds DEF SendsTyped
<1>1. /\ t \in Seq(Sends) /\ sending[1] \in Sends /\ Head(sending) = sending[1] /\ Len(sending) \in Nat \ {0}
      /\ DOMAIN sending = 1 .. Len(sending) /\ DOMAIN t = 1 .. Len(sending) - 1
      /\ \A k \in DOMAIN t : t[k] = sending[k + 1] /\ k + 1 \in DOMAIN sending
  BY <1>0, TailParts
<1>2. ToSet(sending) = ToSet(t) \cup {sending[1]}
  BY <1>0, TailSet
<1>3. IsFiniteSet(CommandsQueued) /\ Cardinality(CommandsQueued) \in Nat /\ next + Cardinality(CommandsQueued) <= MaxId + 1
  BY <1>0, CommandsFinite DEF SendsTyped
<1> DEFINE C == CommandsQueued
           D == CommandsQueued'
           f == [k \in D |-> k + 1]
<1>4. D \subseteq 1 .. Len(sending) - 1 /\ \A k \in D : k + 1 \in C
  BY <1>1 DEF CommandsQueued
<1>5. f \in Injection(D, C)
  <2>1. f \in [D -> C]
    BY <1>4
  <2>2. \A a, b \in D : f[a] = f[b] => a = b
    BY <1>1, <1>4
  <2> HIDE DEF f
  <2> QED BY <2>1, <2>2 DEF Injection, IsInjective
<1> HIDE DEF C, D, f
<1>6. IsFiniteSet(D) /\ Cardinality(D) <= Cardinality(C)
  BY <1>3, <1>5, FS_Injection DEF C
<1>7. Cardinality(D) \in Nat
  BY <1>6, FS_CardinalityType
<1>8. next' + Cardinality(CommandsQueued') <= MaxId + 1
  BY <1>0, <1>3, <1>6, <1>7 DEF C, D
<1> QED
  BY <1>1, <1>2, <1>8 DEF SendsTyped

\* Behind the head all wait, and no prompt there has the head's id.
LEMMA RestQueued ==
  ASSUME InOrder, sending # <<>>
  PROVE  \A s \in ToSet(Tail(sending)) :
           s.phase = "queued" /\ (s.kind = "prompt" /\ sending[1].kind = "prompt" => s.id # sending[1].id)
<1>0. sending \in Seq(Requests) /\ Chained
  BY DEF InOrder, OrderTyped
<1> DEFINE t == Tail(sending)
<1>1. /\ sending[1] \in Requests /\ 1 \in DOMAIN sending /\ DOMAIN t = 1 .. Len(sending) - 1 /\ Len(sending) \in Nat
      /\ \A k \in DOMAIN t : t[k] = sending[k + 1] /\ k + 1 \in DOMAIN sending
  BY <1>0, TailParts
<1>2. \A k \in DOMAIN sending : sending[k].id \in Nat
  <2>1. \A k \in DOMAIN sending : sending[k] \in Requests
    BY <1>0, LenProperties, ElementOfSeq
  <2> QED BY <2>1 DEF Requests
<1> SUFFICES ASSUME NEW k \in DOMAIN t
             PROVE  t[k].phase = "queued" /\ (t[k].kind = "prompt" /\ sending[1].kind = "prompt" => t[k].id # sending[1].id)
  BY DEF ToSet
<1>3. t[k] = sending[k + 1] /\ k + 1 \in DOMAIN sending /\ 1 < k + 1
  BY <1>1
<1>4. t[k].phase = "queued"
  BY <1>0, <1>3 DEF Chained
<1>5. ASSUME t[k].kind = "prompt", sending[1].kind = "prompt" PROVE t[k].id # sending[1].id
  <2>1. sending[1].id < sending[k + 1].id
    BY <1>0, <1>1, <1>3, <1>5 DEF Chained
  <2>2. sending[1].id \in Nat
    BY <1>1, <1>2
  <2> QED BY <1>3, <2>1, <2>2
<1> QED
  BY <1>4, <1>5

-----------------------------------------------------------------------------
(* What a flush shows *)

\* A flush with updates that bring nothing shows what was staged, less what they take.
LEMMA FlushedWith ==
  ASSUME RowsTyped, NEW x \in Seq(Proper), \A u \in ToSet(x), id \in Ids : ~Brings(u, id)
  PROVE  /\ staged \o x \in Seq(Proper)
         /\ Flushed(staged \o x).rows \in Seq(Ids) /\ IsInjective(Flushed(staged \o x).rows)
         /\ Flushed(staged \o x).revert \in 0 .. MaxId
         /\ \A id \in Ids : id \in ToSet(Flushed(staged \o x).rows) <=>
              Shows(staged, id) /\ \A u \in ToSet(x) : ~Takes(u, id)
         /\ \/ \E k \in DOMAIN x : /\ x[k].op = "revert" /\ x[k].id = Flushed(staged \o x).revert
                                   /\ \A j \in DOMAIN x : k < j => x[j].op # "revert"
            \/ /\ RevertAt(staged, Len(staged), Flushed(staged \o x).revert)
               /\ \A j \in DOMAIN x : x[j].op # "revert"
<1> DEFINE us == staged \o x
           v == Flushed(us)
<1>0. staged \in Seq(Proper)
  BY DEF RowsTyped
<1>1. us \in Seq(Proper)
  BY <1>0, ConcatParts
<1>2. \A id : Shows(us, id) <=>
         \/ \E k \in DOMAIN x : Brings(x[k], id) /\ \A j \in DOMAIN x : k < j => ~Takes(x[j], id)
         \/ Shows(staged, id) /\ \A j \in DOMAIN x : ~Takes(x[j], id)
  BY <1>0, ShowsConcat
<1>3. /\ v.rows \in Seq(Ids) /\ IsInjective(v.rows) /\ v.revert \in 0 .. MaxId
      /\ \A id : id \in ToSet(v.rows) <=> Shows(us, id)
      /\ RevertAt(us, Len(us), v.revert)
  <2> HIDE DEF us
  <2> QED BY <1>1, FlushedIs DEF RowsTyped
<1>4. ASSUME NEW to, RevertAt(us, Len(us), to)
      PROVE  \/ \E k \in DOMAIN x : /\ x[k].op = "revert" /\ x[k].id = to
                                    /\ \A j \in DOMAIN x : k < j => x[j].op # "revert"
             \/ RevertAt(staged, Len(staged), to) /\ \A j \in DOMAIN x : x[j].op # "revert"
  BY <1>0, <1>4, RevertConcat
<1> HIDE DEF us, v
<1>5. ASSUME NEW id \in Ids
      PROVE  id \in ToSet(v.rows) <=> Shows(staged, id) /\ \A u \in ToSet(x) : ~Takes(u, id)
  <2>1. \A k \in DOMAIN x : ~Brings(x[k], id)
    BY DEF ToSet
  <2>2. (\A u \in ToSet(x) : ~Takes(u, id)) <=> \A j \in DOMAIN x : ~Takes(x[j], id)
    BY DEF ToSet
  <2> QED BY <1>2, <1>3, <2>1, <2>2
<1> QED
  BY <1>1, <1>3, <1>4, <1>5 DEF us, v

\* A flush shows what the staged updates show.
LEMMA FlushedAll ==
  ASSUME RowsTyped
  PROVE  /\ Flushed(staged).rows \in Seq(Ids) /\ IsInjective(Flushed(staged).rows)
         /\ Flushed(staged).revert \in 0 .. MaxId
         /\ \A id \in Ids : id \in ToSet(Flushed(staged).rows) <=> Shows(staged, id)
         /\ RevertAt(staged, Len(staged), Flushed(staged).revert)
BY FlushedIs DEF RowsTyped

\* One update that sets the revert, or takes a row, is flushed with the rest.
LEMMA FlushedOne ==
  ASSUME RowsTyped, NEW u \in Proper, u.op \in {"revert", "remove"}
  PROVE  /\ Flushed(Append(staged, u)).rows \in Seq(Ids) /\ IsInjective(Flushed(Append(staged, u)).rows)
         /\ Flushed(Append(staged, u)).revert \in 0 .. MaxId
         /\ \A id \in Ids : id \in ToSet(Flushed(Append(staged, u)).rows) <=> Shows(staged, id) /\ ~Takes(u, id)
         /\ IF u.op = "revert" THEN Flushed(Append(staged, u)).revert = u.id
            ELSE RevertAt(staged, Len(staged), Flushed(Append(staged, u)).revert)
<1> DEFINE x == <<u>>
<1>1. x \in Seq(Proper) /\ ToSet(x) = {u} /\ DOMAIN x = {1} /\ x[1] = u
  BY OneSet
<1>2. \A w \in ToSet(x), id \in Ids : ~Brings(w, id)
  BY <1>1 DEF Brings
<1>3. Append(staged, u) = staged \o x
  BY AppendIs DEF RowsTyped
<1> HIDE DEF x
<1>4. /\ Flushed(staged \o x).rows \in Seq(Ids) /\ IsInjective(Flushed(staged \o x).rows)
      /\ Flushed(staged \o x).revert \in 0 .. MaxId
      /\ \A id \in Ids : id \in ToSet(Flushed(staged \o x).rows) <=>
           Shows(staged, id) /\ \A w \in ToSet(x) : ~Takes(w, id)
      /\ \/ \E k \in DOMAIN x : /\ x[k].op = "revert" /\ x[k].id = Flushed(staged \o x).revert
                                /\ \A j \in DOMAIN x : k < j => x[j].op # "revert"
         \/ /\ RevertAt(staged, Len(staged), Flushed(staged \o x).revert)
            /\ \A j \in DOMAIN x : x[j].op # "revert"
  BY <1>1, <1>2, FlushedWith
<1> QED
  BY <1>1, <1>3, <1>4

\* New input commits a staged revert: the rows from it on go, those on their way out stay.
LEMMA FlushedCommit ==
  ASSUME RowsTyped
  PROVE  LET v == Flushed(staged \o CommitLocally) IN
         /\ v.rows \in Seq(Ids) /\ IsInjective(v.rows) /\ v.revert \in 0 .. MaxId
         /\ \A id \in Ids : id \in ToSet(v.rows) <=>
              Shows(staged, id) /\ (revert = 0 \/ id < revert \/ id \in outbox)
         /\ IF revert = 0 THEN RevertAt(staged, Len(staged), v.revert) ELSE v.revert = 0
<1> DEFINE v == Flushed(staged \o CommitLocally)
<1>0. revert \in 0 .. MaxId /\ staged \in Seq(Proper)
  BY DEF RowsTyped
<1>1. CASE revert = 0
  <2>1. CommitLocally = <<>>
    BY <1>1 DEF CommitLocally
  <2>2. staged \o CommitLocally = staged
    BY <1>0, <2>1
  <2> QED BY <1>1, <2>2, FlushedAll
<1>2. CASE revert # 0
  <2> DEFINE a == SetRevert(0)
             b == Update("drop", revert)
             x == <<a, b>>
  <2>1. revert \in Ids
    BY <1>0, <1>2, PromptsBounds DEF Ids
  <2>2. a \in Proper /\ a.op = "revert" /\ a.id = 0
    <3>1. <<>> \in Seq(Ids) /\ IsInjective(<<>>) /\ 0 \in 0 .. MaxId
      BY PromptsBounds DEF IsInjective
    <3> QED BY <3>1 DEF SetRevert, Update, Proper, Updates
  <2>3. b \in Proper /\ b.op = "drop" /\ b.id = revert
    <3>1. <<>> \in Seq(Ids) /\ IsInjective(<<>>)
      BY DEF IsInjective
    <3> QED BY <1>0, <2>1, <3>1 DEF Update, Proper, Updates
  <2>4. CommitLocally = x
    BY <1>2 DEF CommitLocally
  <2> HIDE DEF a, b
  <2>5. x \in Seq(Proper) /\ ToSet(x) = {a, b} /\ DOMAIN x = {1, 2} /\ x[1] = a /\ x[2] = b
    BY <2>2, <2>3, TwoSet
  <2> HIDE DEF x
  <2>6. \A w \in ToSet(x), id \in Ids : ~Brings(w, id)
    BY <2>2, <2>3, <2>5 DEF Brings
  <2>7. /\ Flushed(staged \o x).rows \in Seq(Ids) /\ IsInjective(Flushed(staged \o x).rows)
        /\ Flushed(staged \o x).revert \in 0 .. MaxId
        /\ \A id \in Ids : id \in ToSet(Flushed(staged \o x).rows) <=>
             Shows(staged, id) /\ \A w \in ToSet(x) : ~Takes(w, id)
        /\ \/ \E k \in DOMAIN x : /\ x[k].op = "revert" /\ x[k].id = Flushed(staged \o x).revert
                                  /\ \A j \in DOMAIN x : k < j => x[j].op # "revert"
           \/ /\ RevertAt(staged, Len(staged), Flushed(staged \o x).revert)
              /\ \A j \in DOMAIN x : x[j].op # "revert"
    BY <2>5, <2>6, FlushedWith
  <2>8. \A id \in Ids : (\A w \in ToSet(x) : ~Takes(w, id)) <=> id < revert \/ id \in outbox
    BY <2>2, <2>3, <2>5 DEF Takes
  <2>9. Flushed(staged \o x).revert = 0
    BY <2>2, <2>3, <2>5, <2>7
  <2> QED BY <1>2, <2>4, <2>7, <2>8, <2>9
<1> QED
  BY <1>1, <1>2

-----------------------------------------------------------------------------
(* What is shown, from what was and what comes *)

\* A row that is shown was there or was brought.
LEMMA ShowsFrom ==
  ASSUME staged \in Seq(Proper), NEW id, Shows(staged, id)
  PROVE  id \in ToSet(rows) \/ \E u \in ToSet(staged) : Brings(u, id)
<1>1. PICK k \in 0 .. Len(staged) : IF k = 0 THEN id \in ToSet(rows) ELSE Brings(staged[k], id)
  BY DEF Shows, ShowsAt, Comes
<1>2. k # 0 => k \in DOMAIN staged
  BY LenProperties
<1> QED
  BY <1>1, <1>2 DEF ToSet

\* A row that nothing staged takes stays.
LEMMA ShowsStays ==
  ASSUME staged \in Seq(Proper), NEW id, id \in ToSet(rows), \A u \in ToSet(staged) : ~Takes(u, id)
  PROVE  Shows(staged, id)
<1>1. DOMAIN staged = 1 .. Len(staged) /\ 0 \in 0 .. Len(staged)
  BY LenProperties
<1>2. \A j \in 1 .. Len(staged) : ~Takes(staged[j], id)
  BY <1>1 DEF ToSet
<1> QED
  BY <1>1, <1>2 DEF Shows, ShowsAt, Comes, Stays

\* A row shown or brought, and brought again after each time it is taken, is shown.
LEMMA ShowsBrought ==
  ASSUME staged \in Seq(Proper), NEW id,
         id \in ToSet(rows) \/ \E u \in ToSet(staged) : Brings(u, id),
         \A k \in DOMAIN staged : Takes(staged[k], id) => \E j \in DOMAIN staged : k < j /\ Brings(staged[j], id)
  PROVE  Shows(staged, id)
<1> SUFFICES ASSUME ~Shows(staged, id) PROVE FALSE
  OBVIOUS
<1> DEFINE n == Len(staged)
           Here(k) == k \in 0 .. n /\ Comes(staged, k, id)
           All == {m \in Nat : \E k \in Nat : m <= k /\ Here(k)}
<1>1. n \in Nat /\ DOMAIN staged = 1 .. n
  BY LenProperties
<1>2. \E k \in Nat : Here(k)
  <2>1. CASE id \in ToSet(rows)
    BY <1>1, <2>1 DEF Comes
  <2>2. ASSUME NEW k \in DOMAIN staged, Brings(staged[k], id) PROVE Here(k) /\ k \in Nat
    BY <1>1, <2>2 DEF Comes
  <2> QED BY <2>1, <2>2 DEF ToSet
<1>3. ASSUME NEW k \in Nat, Here(k) PROVE \E j \in Nat : k < j /\ Here(j)
  <2>1. PICK i \in 1 .. n : k < i /\ Takes(staged[i], id)
    BY <1>3 DEF Shows, ShowsAt, Stays
  <2>2. PICK j \in DOMAIN staged : i < j /\ Brings(staged[j], id)
    BY <1>1, <2>1
  <2>3. j \in 1 .. n /\ k < j /\ j # 0 /\ j \in Nat
    BY <1>1, <2>1, <2>2
  <2>4. Here(j)
    BY <2>2, <2>3 DEF Comes
  <2> QED BY <2>3, <2>4
<1> HIDE DEF Here
<1>4. 0 \in All
  BY <1>2
<1>5. ASSUME NEW m \in Nat, m \in All PROVE m + 1 \in All
  <2>1. PICK k \in Nat : m <= k /\ Here(k)
    BY <1>5
  <2>2. PICK j \in Nat : k < j /\ Here(j)
    BY <1>3, <2>1
  <2>3. m + 1 <= j
    BY <2>1, <2>2
  <2> QED BY <2>2, <2>3
<1>6. n + 1 \in All
  <2> HIDE DEF All
  <2>1. Nat \subseteq All
    BY <1>4, <1>5, Induct
  <2> QED BY <1>1, <2>1
<1>7. PICK k \in Nat : n + 1 <= k /\ Here(k)
  BY <1>6
<1> QED
  BY <1>1, <1>7 DEF Here

\* After a flush.
LEMMA ShowsFlushed ==
  ASSUME staged' = <<>>
  PROVE  /\ \A id : Shows(staged, id)' <=> id \in ToSet(rows')
         /\ \A to : RevertAt(staged, Len(staged), to)' <=> to = revert'
         /\ ToSet(staged') = {} /\ DOMAIN staged' = {} /\ staged' \in Seq(Proper)
<1>1. Len(staged') = 0 /\ ToSet(staged') = {} /\ DOMAIN staged' = {} /\ staged' \in Seq(Proper)
  BY EmptySet
<1>2. 0 .. 0 = {0} /\ 1 .. 0 = {}
  OBVIOUS
<1>3. ASSUME NEW id PROVE Shows(staged, id)' <=> id \in ToSet(rows')
  BY <1>1, <1>2 DEF Shows, ShowsAt, Comes, Stays
<1>4. ASSUME NEW to PROVE RevertAt(staged, Len(staged), to)' <=> to = revert'
  BY <1>1, <1>2 DEF RevertAt, Sets
<1> QED
  BY <1>1, <1>3, <1>4

\* With more staged.
LEMMA ShowsStaged ==
  ASSUME RowsTyped, NEW q \in Seq(Proper), staged' = staged \o q, UNCHANGED <<rows, revert>>, outbox' \subseteq outbox
  PROVE  /\ RowsTyped'
         /\ \A id : Shows(staged, id)' =>
              \/ \E u \in ToSet(q) : Brings(u, id)
              \/ Shows(staged, id) /\ \A u \in ToSet(q) : ~Takes(u, id)
         /\ \A to : RevertAt(staged, Len(staged), to)' =>
              \/ \E k \in DOMAIN q : /\ q[k].op = "revert" /\ q[k].id = to
                                     /\ \A j \in DOMAIN q : k < j => q[j].op # "revert"
              \/ RevertAt(staged, Len(staged), to) /\ \A j \in DOMAIN q : q[j].op # "revert"
         /\ ToSet(staged') = ToSet(staged) \cup ToSet(q)
<1> DEFINE us == staged \o q
<1>0. staged \in Seq(Proper)
  BY DEF RowsTyped
<1>1. us \in Seq(Proper) /\ ToSet(us) = ToSet(staged) \cup ToSet(q)
  BY <1>0, ConcatParts
<1>2. \A id : Shows(us, id) <=>
         \/ \E k \in DOMAIN q : Brings(q[k], id) /\ \A j \in DOMAIN q : k < j => ~Takes(q[j], id)
         \/ Shows(staged, id) /\ \A j \in DOMAIN q : ~Takes(q[j], id)
  BY <1>0, ShowsConcat
<1>3. ASSUME NEW to, RevertAt(us, Len(us), to)
      PROVE  \/ \E k \in DOMAIN q : /\ q[k].op = "revert" /\ q[k].id = to
                                    /\ \A j \in DOMAIN q : k < j => q[j].op # "revert"
             \/ RevertAt(staged, Len(staged), to) /\ \A j \in DOMAIN q : q[j].op # "revert"
  BY <1>0, <1>3, RevertConcat
<1>4. staged' = us
  OBVIOUS
<1> HIDE DEF us
<1>5. ASSUME NEW id, Shows(staged, id)' PROVE Shows(us, id)
  <2> DEFINE Taken2(u) == \/ u.op = "remove" /\ u.id = id
                          \/ u.op = "drop" /\ ~(id < u.id) /\ id \notin outbox'
  <2>1. PICK k \in 0 .. Len(staged') :
           /\ IF k = 0 THEN id \in ToSet(rows') ELSE Brings(staged'[k], id)
           /\ \A j \in 1 .. Len(staged') : k < j => ~Taken2(staged'[j])
    BY <1>5 DEF Shows, ShowsAt, Comes, Stays, Brings, Takes
  <2>2. \A u : ~Taken2(u) => ~Takes(u, id)
    BY DEF Takes
  <2> HIDE DEF Taken2
  <2>3. /\ k \in 0 .. Len(us) /\ IF k = 0 THEN id \in ToSet(rows) ELSE Brings(us[k], id)
        /\ \A j \in 1 .. Len(us) : k < j => ~Takes(us[j], id)
    BY <1>4, <2>1, <2>2
  <2> QED BY <2>3 DEF Shows, ShowsAt, Comes, Stays
<1>6. ASSUME NEW to, RevertAt(staged, Len(staged), to)' PROVE RevertAt(us, Len(us), to)
  BY <1>4, <1>6 DEF RevertAt, Sets
<1>7. ASSUME NEW id, Shows(staged, id)'
      PROVE  \/ \E u \in ToSet(q) : Brings(u, id)
             \/ Shows(staged, id) /\ \A u \in ToSet(q) : ~Takes(u, id)
  <2>1. \/ \E k \in DOMAIN q : Brings(q[k], id)
        \/ Shows(staged, id) /\ \A j \in DOMAIN q : ~Takes(q[j], id)
    BY <1>2, <1>5, <1>7
  <2> QED BY <2>1 DEF ToSet
<1>8. RowsTyped'
  BY <1>1, <1>4 DEF RowsTyped
<1> QED
  BY <1>1, <1>3, <1>4, <1>6, <1>7, <1>8

-----------------------------------------------------------------------------
(* What the steps make of the service, the bus and the reads *)

\* What an announcement makes of the bus: the events are on it, or have slipped.
LEMMA EmitParts ==
  ASSUME WiresTyped, RestTyped, NEW events \in Seq(Events), NEW gone \in SUBSET Ids, Emit(events, gone),
         up' = up,
         \A e \in ToSet(events) : e.type \in {"enqueued", "delivered", "cancelled", "committed"} => e.id \in Ids
  PROVE  /\ slipped \subseteq slipped' /\ slipped' \subseteq Ids
         /\ bus' \in Seq(Events) /\ (~up' => bus' = <<>>)
         /\ \A e \in ToSet(bus') : e.type \in {"enqueued", "delivered", "cancelled", "committed"} => e.id \in Ids
         /\ up => /\ bus' = bus \o events /\ ToSet(bus') = ToSet(bus) \cup ToSet(events)
                  /\ gone \cap InFlight \subseteq slipped'
         /\ ~up => bus' = bus /\ bus = <<>> /\ \A e \in ToSet(events) : e.about \subseteq slipped'
<1>0. /\ bus \in Seq(Events) /\ up \in BOOLEAN /\ (~up => bus = <<>>) /\ slipped \subseteq Ids
      /\ \A e \in ToSet(bus) : e.type \in {"enqueued", "delivered", "cancelled", "committed"} => e.id \in Ids
  BY DEF WiresTyped, RestTyped
<1>1. CASE up
  <2>1. bus' = bus \o events /\ slipped' = slipped \cup (gone \cap InFlight)
    BY <1>1 DEF Emit
  <2>2. bus \o events \in Seq(Events) /\ ToSet(bus \o events) = ToSet(bus) \cup ToSet(events)
    BY <1>0, ConcatParts
  <2>3. ToSet(bus') = ToSet(bus) \cup ToSet(events)
    BY <2>1, <2>2
  <2> QED BY <1>0, <1>1, <2>1, <2>2, <2>3
<1>2. CASE ~up
  <2>1. bus' = bus /\ slipped' = slipped \cup UNION {events[i].about : i \in DOMAIN events}
    BY <1>2 DEF Emit
  <2>2. \A i \in DOMAIN events : events[i] \in Events
    BY LenProperties, ElementOfSeq
  <2>3. \A i \in DOMAIN events : events[i].about \subseteq Ids
    BY <2>2 DEF Events
  <2>4. slipped' \subseteq Ids
    BY <1>0, <2>1, <2>3
  <2>5. \A e \in ToSet(events) : e.about \subseteq slipped'
    BY <2>1 DEF ToSet
  <2>6. ToSet(bus') = ToSet(bus)
    BY <2>1
  <2> QED BY <1>0, <1>2, <2>1, <2>4, <2>5, <2>6
<1> QED
  BY <1>1, <1>2

\* One event.
LEMMA EmitOne ==
  ASSUME WiresTyped, RestTyped, NEW e \in Events, NEW gone \in SUBSET Ids, Emit(<<e>>, gone), up' = up,
         e.type \in {"enqueued", "delivered", "cancelled", "committed"} => e.id \in Ids
  PROVE  /\ slipped \subseteq slipped' /\ slipped' \subseteq Ids
         /\ bus' \in Seq(Events) /\ (~up' => bus' = <<>>)
         /\ \A f \in ToSet(bus') : f.type \in {"enqueued", "delivered", "cancelled", "committed"} => f.id \in Ids
         /\ up => /\ bus' = bus \o <<e>> /\ ToSet(bus') = ToSet(bus) \cup {e}
                  /\ gone \cap InFlight \subseteq slipped'
         /\ ~up => bus' = bus /\ bus = <<>> /\ e.about \subseteq slipped'
<1> DEFINE x == <<e>>
<1>1. x \in Seq(Events) /\ ToSet(x) = {e}
  BY OneSet
<1>2. Emit(x, gone)
  OBVIOUS
<1> HIDE DEF x
<1>3. /\ slipped \subseteq slipped' /\ slipped' \subseteq Ids
      /\ bus' \in Seq(Events) /\ (~up' => bus' = <<>>)
      /\ \A f \in ToSet(bus') : f.type \in {"enqueued", "delivered", "cancelled", "committed"} => f.id \in Ids
      /\ up => /\ bus' = bus \o x /\ ToSet(bus') = ToSet(bus) \cup ToSet(x)
               /\ gone \cap InFlight \subseteq slipped'
      /\ ~up => bus' = bus /\ bus = <<>> /\ \A f \in ToSet(x) : f.about \subseteq slipped'
  BY <1>1, <1>2, EmitParts
<1> QED
  BY <1>1, <1>3 DEF x

\* New input at the service.
Going == IF reverted = 0 THEN {} ELSE {m \in ToSet(log) : ~(m < reverted)}

CommitEvent == Event("committed", reverted, Going)

EnqueuedEvent(id) == Event("enqueued", id, {id})

InputEvents(id) == IF reverted = 0 THEN <<EnqueuedEvent(id)>> ELSE <<CommitEvent, EnqueuedEvent(id)>>

\* New input: what it makes of the log, the inbox, the boundary and the bus.
LEMMA AdmitParts ==
  ASSUME Typed, NEW id \in Ids, ~Has(id), Admit(id), up' = up, turn' = turn
  PROVE  /\ ServiceTyped' /\ ToSet(log') = ToSet(log) \ Going /\ Going \subseteq ToSet(log)
         /\ ToSet(inbox') = ToSet(inbox) \cup {id} /\ inbox' # <<>>
         /\ ToSet(taken') = ToSet(taken) \cup {id} /\ reverted' = 0
         /\ stale' = (stale \/ (reverted # 0 /\ Overtaken)) /\ stale' \in BOOLEAN
         /\ CommitEvent.type = "committed" /\ CommitEvent.id = reverted /\ CommitEvent.about = Going
         /\ EnqueuedEvent(id).type = "enqueued" /\ EnqueuedEvent(id).id = id /\ EnqueuedEvent(id).about = {id}
         /\ EnqueuedEvent(id) \in Events /\ (reverted # 0 => CommitEvent \in Events)
         /\ slipped \subseteq slipped' /\ slipped' \subseteq Ids
         /\ bus' \in Seq(Events) /\ (~up' => bus' = <<>>)
         /\ \A f \in ToSet(bus') : f.type \in {"enqueued", "delivered", "cancelled", "committed"} => f.id \in Ids
         /\ up => /\ bus' = bus \o InputEvents(id) /\ Going \cap InFlight \subseteq slipped'
                  /\ ToSet(bus') = ToSet(bus) \cup {EnqueuedEvent(id)} \cup
                                     (IF reverted = 0 THEN {} ELSE {CommitEvent})
         /\ ~up => bus' = bus /\ bus = <<>> /\ id \in slipped' /\ Going \subseteq slipped'
<1>0. /\ log \in Seq(Ids) /\ inbox \in Seq(Ids) /\ IsInjective(log) /\ IsInjective(inbox)
      /\ ToSet(log) \cap ToSet(inbox) = {} /\ reverted \in 0 .. MaxId /\ turn \in BOOLEAN
      /\ taken \in Seq(Ids) /\ IsInjective(taken) /\ ToSet(log) \cup ToSet(inbox) \subseteq ToSet(taken)
      /\ WiresTyped /\ RestTyped /\ MaxId \in Nat
  BY PromptsBounds DEF Typed, ServiceTyped
<1>1. ToSet(log) \subseteq Ids /\ ToSet(inbox) \subseteq Ids
  BY <1>0, SetTyped
<1>2. Going = IF reverted = 0 THEN {} ELSE {m \in ToSet(log) : m >= reverted}
  <2>1. \A m \in ToSet(log) : m >= reverted <=> ~(m < reverted)
    <3>1. \A m \in ToSet(log) : m \in Nat
      BY <1>0, <1>1 DEF Ids
    <3>2. reverted \in Nat
      BY <1>0
    <3> QED BY <3>1, <3>2
  <2> QED BY <2>1 DEF Going
<1>3. Going \subseteq ToSet(log)
  BY DEF Going
<1>4. /\ CommitEvent.type = "committed" /\ CommitEvent.id = reverted /\ CommitEvent.about = Going
      /\ EnqueuedEvent(id).type = "enqueued" /\ EnqueuedEvent(id).id = id /\ EnqueuedEvent(id).about = {id}
      /\ EnqueuedEvent(id) \in Events /\ CommitEvent \in Events
  BY <1>0, <1>1, <1>3 DEF CommitEvent, EnqueuedEvent, Event, Events, Ids
<1>5. /\ log' = Only(log, ToSet(log) \ Going) /\ inbox' = Append(inbox, id) /\ reverted' = 0
      /\ taken' = Append(taken, id) /\ stale' = (stale \/ (reverted # 0 /\ Overtaken))
  BY <1>2 DEF Admit
<1>6. Emit(InputEvents(id), Going)
  <2>1. CASE reverted = 0
    <3>1. Emit(<<>> \o <<Event("enqueued", id, {id})>>, {})
      BY <2>1 DEF Admit
    <3>2. <<>> \o <<Event("enqueued", id, {id})>> = <<EnqueuedEvent(id)>>
      BY DEF EnqueuedEvent
    <3> QED BY <1>2, <2>1, <3>1, <3>2 DEF InputEvents
  <2>2. CASE reverted # 0
    <3>1. Emit(<<Event("committed", reverted, Going)>> \o <<Event("enqueued", id, {id})>>, Going)
      BY <1>2, <2>2 DEF Admit
    <3>2. <<Event("committed", reverted, Going)>> \o <<Event("enqueued", id, {id})>> = <<CommitEvent, EnqueuedEvent(id)>>
      <4> DEFINE a == CommitEvent
                 b == EnqueuedEvent(id)
      <4>1. a = Event("committed", reverted, Going) /\ b = Event("enqueued", id, {id})
        BY DEF EnqueuedEvent, CommitEvent
      <4>0. a \in Events /\ b \in Events
        BY <1>4
      <4> HIDE DEF a, b
      <4>2. <<a>> \o <<b>> = <<a, b>>
        BY <4>0, TwoIs
      <4> QED BY <4>1, <4>2 DEF a, b
    <3> QED BY <2>2, <3>1, <3>2 DEF InputEvents
  <2> QED BY <2>1, <2>2
<1>7. log' \in Seq(Ids) /\ IsInjective(log') /\ ToSet(log') = ToSet(log) \ Going
  <2>1. ToSet(log) \cap (ToSet(log) \ Going) = ToSet(log) \ Going
    OBVIOUS
  <2> QED BY <1>0, <1>5, <2>1, OnlyKept
<1>8. id \notin ToSet(taken) /\ id \notin ToSet(inbox) /\ id \notin ToSet(log)
  BY <1>0 DEF Has
<1>9. inbox' \in Seq(Ids) /\ IsInjective(inbox') /\ ToSet(inbox') = ToSet(inbox) \cup {id}
  BY <1>0, <1>5, <1>8, AppendApart
<1>10. taken' \in Seq(Ids) /\ IsInjective(taken') /\ ToSet(taken') = ToSet(taken) \cup {id}
  BY <1>0, <1>5, <1>8, AppendApart
<1>11. ServiceTyped'
  <2>1. ToSet(log') \cap ToSet(inbox') = {}
    BY <1>0, <1>7, <1>8, <1>9
  <2>2. ToSet(log') \cup ToSet(inbox') \subseteq ToSet(taken')
    BY <1>0, <1>7, <1>9, <1>10
  <2>3. reverted' \in 0 .. MaxId /\ turn' \in BOOLEAN
    BY <1>0, <1>5
  <2> QED BY <1>7, <1>9, <1>10, <2>1, <2>2, <2>3 DEF ServiceTyped
<1>12. inbox' # <<>>
  BY <1>9, EmptySet
<1>13. stale' \in BOOLEAN
  BY <1>5
<1>14. /\ InputEvents(id) \in Seq(Events)
       /\ ToSet(InputEvents(id)) = {EnqueuedEvent(id)} \cup (IF reverted = 0 THEN {} ELSE {CommitEvent})
  BY <1>4, OneSet, TwoSet DEF InputEvents
<1>15. \A e \in ToSet(InputEvents(id)) : e.type \in {"enqueued", "delivered", "cancelled", "committed"} => e.id \in Ids
  BY <1>0, <1>4, <1>14 DEF Ids
<1>16. Going \in SUBSET Ids
  BY <1>1, <1>3
<1> DEFINE x == InputEvents(id)
<1> HIDE DEF x
<1>17. /\ slipped \subseteq slipped' /\ slipped' \subseteq Ids
       /\ bus' \in Seq(Events) /\ (~up' => bus' = <<>>)
       /\ \A e \in ToSet(bus') : e.type \in {"enqueued", "delivered", "cancelled", "committed"} => e.id \in Ids
       /\ up => /\ bus' = bus \o x /\ ToSet(bus') = ToSet(bus) \cup ToSet(x)
                /\ Going \cap InFlight \subseteq slipped'
       /\ ~up => bus' = bus /\ bus = <<>> /\ \A e \in ToSet(x) : e.about \subseteq slipped'
  <2>1. x \in Seq(Events) /\ Emit(x, Going) /\ up' = up
    BY <1>6, <1>14 DEF x
  <2>2. \A e \in ToSet(x) : e.type \in {"enqueued", "delivered", "cancelled", "committed"} => e.id \in Ids
    BY <1>15 DEF x
  <2> QED BY <1>0, <1>16, <2>1, <2>2, EmitParts
<1>18. ~up => id \in slipped' /\ Going \subseteq slipped'
  <2>1. CASE reverted = 0
    BY <1>2, <1>4, <1>14, <1>17, <2>1 DEF x
  <2>2. CASE reverted # 0
    BY <1>4, <1>14, <1>17, <2>2 DEF x
  <2> QED BY <2>1, <2>2
<1>19. up => ToSet(bus') = ToSet(bus) \cup {EnqueuedEvent(id)} \cup (IF reverted = 0 THEN {} ELSE {CommitEvent})
  BY <1>14, <1>17 DEF x
<1> QED
  BY <1>3, <1>4, <1>5, <1>7, <1>9, <1>10, <1>11, <1>12, <1>13, <1>17, <1>18, <1>19 DEF x

-----------------------------------------------------------------------------
(* Reads *)

Kinds == {"tail", "row", "list"}

\* A read newly asked.
LEMMA ReadIs ==
  ASSUME NEW kind \in Kinds
  PROVE  /\ Read(kind) \in Reads /\ Read(kind).kind = kind /\ ~Read(kind).served
         /\ Read(kind).page = <<>> /\ IsInjective(Read(kind).page) /\ ToSet(Read(kind).page) = {}
<1>1. <<>> \in Seq(Ids) /\ IsInjective(<<>>) /\ 0 \in 0 .. MaxId
  BY PromptsBounds DEF IsInjective
<1> QED
  BY <1>1, EmptySet DEF Read, Reads, Kinds

\* Reads asked are added to those kept.
LEMMA AskParts ==
  ASSUME NEW kept \in Seq(Reads), \A r \in ToSet(kept) : IsInjective(r.page),
         NEW kinds \in Seq(Kinds), Ask(kept, kinds)
  PROVE  /\ reads' \in Seq(Reads) /\ Len(reads') <= MaxReads /\ \A r \in ToSet(reads') : IsInjective(r.page)
         /\ ToSet(reads') = ToSet(kept) \cup {Read(kind) : kind \in ToSet(kinds)}
<1> DEFINE x == [i \in DOMAIN kinds |-> Read(kinds[i])]
<1>1. DOMAIN kinds = 1 .. Len(kinds) /\ Len(kinds) \in Nat /\ \A i \in 1 .. Len(kinds) : kinds[i] \in Kinds
  BY LenProperties, ElementOfSeq
<1>2. x \in [1 .. Len(kinds) -> Reads]
  BY <1>1, ReadIs
<1>3. x \in Seq(Reads) /\ DOMAIN x = 1 .. Len(kinds) /\ Len(x) = Len(kinds)
  <2> HIDE DEF x
  <2>1. x \in Seq(Reads) /\ DOMAIN x = 1 .. Len(kinds)
    BY <1>1, <1>2, SeqDef
  <2> QED BY <1>1, <2>1, LenProperties
<1>4. ToSet(x) = {Read(kind) : kind \in ToSet(kinds)}
  BY <1>1, <1>3 DEF ToSet
<1>5. reads' = kept \o x /\ Len(kept) + Len(kinds) <= MaxReads
  BY DEF Ask
<1> HIDE DEF x
<1>6. kept \o x \in Seq(Reads) /\ Len(kept \o x) = Len(kept) + Len(x) /\ ToSet(kept \o x) = ToSet(kept) \cup ToSet(x)
  <2>1. x \in Seq(Reads)
    BY <1>3
  <2> QED BY <2>1, ConcatParts
<1>7. \A r \in ToSet(x) : IsInjective(r.page)
  BY <1>4, SetTyped, ReadIs
<1> QED
  BY <1>3, <1>4, <1>5, <1>6, <1>7

\* One kind asked for, or none.
LEMMA AskOne ==
  ASSUME NEW kept \in Seq(Reads), \A r \in ToSet(kept) : IsInjective(r.page), NEW kind \in Kinds,
         Ask(kept, <<kind>>)
  PROVE  /\ reads' \in Seq(Reads) /\ Len(reads') <= MaxReads /\ \A r \in ToSet(reads') : IsInjective(r.page)
         /\ ToSet(reads') = ToSet(kept) \cup {Read(kind)}
<1> DEFINE x == <<kind>>
<1>1. x \in Seq(Kinds) /\ ToSet(x) = {kind}
  BY OneSet
<1>2. Ask(kept, x)
  OBVIOUS
<1> HIDE DEF x
<1>3. /\ reads' \in Seq(Reads) /\ Len(reads') <= MaxReads /\ \A r \in ToSet(reads') : IsInjective(r.page)
      /\ ToSet(reads') = ToSet(kept) \cup {Read(k) : k \in ToSet(x)}
  BY <1>1, <1>2, AskParts
<1> QED
  BY <1>1, <1>3

\* No read is asked.
LEMMA AskNone ==
  ASSUME NEW kept \in Seq(Reads), \A r \in ToSet(kept) : IsInjective(r.page), Ask(kept, <<>>)
  PROVE  /\ reads' \in Seq(Reads) /\ Len(reads') <= MaxReads /\ \A r \in ToSet(reads') : IsInjective(r.page)
         /\ ToSet(reads') = ToSet(kept)
<1> DEFINE x == <<>>
<1>1. x \in Seq(Kinds) /\ ToSet(x) = {}
  BY EmptySet
<1>2. Ask(kept, x)
  OBVIOUS
<1> HIDE DEF x
<1>3. /\ reads' \in Seq(Reads) /\ Len(reads') <= MaxReads /\ \A r \in ToSet(reads') : IsInjective(r.page)
      /\ ToSet(reads') = ToSet(kept) \cup {Read(k) : k \in ToSet(x)}
  BY <1>1, <1>2, AskParts
<1> QED
  BY <1>1, <1>3

\* A page holds the messages delivered, and nothing the service does not have.
LEMMA PageIs ==
  ASSUME ServiceTyped
  PROVE  /\ Page \in Seq(Ids) /\ IsInjective(Page) /\ ToSet(log) \subseteq ToSet(Page)
         /\ ToSet(Page) \subseteq ToSet(log) \cup ToSet(inbox)
<1>1. /\ log \o inbox \in Seq(Ids) /\ IsInjective(log \o inbox) /\ ToSet(log \o inbox) = ToSet(log) \cup ToSet(inbox)
  BY ConcatApart DEF ServiceTyped
<1> QED
  BY <1>1 DEF Page, ServiceTyped

\* A read is answered: with the page, or with the revert.
Served(r) == IF r.kind = "tail" THEN [r EXCEPT !.served = TRUE, !.page = Page]
             ELSE [r EXCEPT !.served = TRUE, !.revert = reverted]

\* A read the service answers is the only one that changes.
LEMMA ServedParts ==
  ASSUME Typed, NEW i \in DOMAIN reads, ReadServed(i)
  PROVE  /\ reads[i] \in ToSet(reads) /\ reads[i] \in Reads /\ ~reads[i].served
         /\ reads' \in Seq(Reads) /\ Len(reads') <= MaxReads /\ \A r \in ToSet(reads') : IsInjective(r.page)
         /\ Served(reads[i]).kind = reads[i].kind /\ Served(reads[i]).served
         /\ reads[i].kind = "tail" => Served(reads[i]).page = Page
         /\ reads[i].kind # "tail" => Served(reads[i]).revert = reverted /\ Served(reads[i]).page = reads[i].page
         /\ ToSet(reads') \subseteq ToSet(reads) \cup {Served(reads[i])} /\ Served(reads[i]) \in ToSet(reads')
         /\ ToSet(reads) \subseteq ToSet(reads') \cup {reads[i]}
<1>0. /\ reads \in Seq(Reads) /\ Len(reads) <= MaxReads /\ \A r \in ToSet(reads) : IsInjective(r.page)
      /\ reverted \in 0 .. MaxId /\ Page \in Seq(Ids) /\ IsInjective(Page)
  BY PageIs DEF Typed, WiresTyped, ServiceTyped
<1> DEFINE r == reads[i]
           g == Served(r)
<1>1. r \in Reads /\ r \in ToSet(reads)
  BY <1>0, SetTyped
<1>2. ~r.served /\ reads' = [reads EXCEPT ![i] = g]
  BY <1>1 DEF ReadServed, Served
<1>3. /\ g \in Reads /\ g.kind = r.kind /\ g.served /\ (r.kind = "tail" => g.page = Page)
      /\ r.kind # "tail" => g.revert = reverted /\ g.page = r.page
  BY <1>0, <1>1 DEF Served, Reads
<1>4. IsInjective(g.page)
  BY <1>0, <1>1, <1>3
<1> HIDE DEF g, r
<1>5. /\ reads' \in Seq(Reads) /\ Len(reads') = Len(reads) /\ ToSet(reads') \subseteq ToSet(reads) \cup {g}
      /\ g \in ToSet(reads') /\ ToSet(reads) \subseteq ToSet(reads') \cup {reads[i]}
  <2>1. /\ reads' \in Seq(Reads) /\ Len(reads') = Len(reads) /\ DOMAIN reads' = DOMAIN reads /\ reads'[i] = g
        /\ \A k \in DOMAIN reads : k # i => reads'[k] = reads[k]
    BY <1>0, <1>2, <1>3, ExceptParts
  <2>2. ToSet(reads') \subseteq ToSet(reads) \cup {g} /\ g \in ToSet(reads')
    BY <2>1 DEF ToSet
  <2>3. ToSet(reads) \subseteq ToSet(reads') \cup {reads[i]}
    BY <2>1 DEF ToSet
  <2> QED BY <2>1, <2>2, <2>3
<1> QED
  BY <1>0, <1>1, <1>2, <1>3, <1>4, <1>5 DEF g, r

\* A read leaves.
LEMMA KeptParts ==
  ASSUME Typed, NEW i \in DOMAIN reads
  PROVE  /\ reads[i] \in ToSet(reads) /\ reads[i] \in Reads
         /\ RemoveAt(reads, i) \in Seq(Reads) /\ \A r \in ToSet(RemoveAt(reads, i)) : IsInjective(r.page)
         /\ ToSet(RemoveAt(reads, i)) \subseteq ToSet(reads)
         /\ ToSet(reads) \subseteq ToSet(RemoveAt(reads, i)) \cup {reads[i]}
<1>0. reads \in Seq(Reads) /\ \A r \in ToSet(reads) : IsInjective(r.page)
  BY DEF Typed, WiresTyped
<1>1. reads[i] \in ToSet(reads) /\ reads[i] \in Reads
  BY <1>0, SetTyped
<1>2. /\ RemoveAt(reads, i) \in Seq(Reads) /\ ToSet(RemoveAt(reads, i)) \subseteq ToSet(reads)
      /\ ToSet(reads) \subseteq ToSet(RemoveAt(reads, i)) \cup {reads[i]}
  BY <1>0, RemoveAtParts
<1> QED
  BY <1>0, <1>1, <1>2

-----------------------------------------------------------------------------
(* What each step makes of the state, and that it keeps its type *)

\* The next id is no message's yet.
LEMMA Fresh ==
  ASSUME InOrder, Typed, Known
  PROVE  /\ ~Has(next) /\ next \notin late /\ next \notin outbox /\ next \notin ToSet(rows)
         /\ \A s \in ToSet(sending) : s.kind = "prompt" => s.id # next
         /\ next \in Ids => ~Shows(staged, next)
<1>0. Minted /\ OrderTyped /\ Sourced /\ next \in Nat
  BY DEF InOrder, Known, OrderTyped
<1>1. \A id \in late : id # next
  BY <1>0 DEF Minted, OrderTyped
<1>2. ~Has(next)
  <2>1. \A i \in DOMAIN taken : taken[i] \in Nat
    BY <1>0, SetTyped DEF OrderTyped
  <2>2. \A i \in DOMAIN taken : taken[i] # next
    BY <1>0, <2>1 DEF Minted
  <2> QED BY <2>2 DEF Has, ToSet
<1>3. \A s \in ToSet(sending) : s.kind = "prompt" => s.id # next
  <2>1. \A k \in DOMAIN sending : sending[k].id \in Nat
    <3>1. \A k \in DOMAIN sending : sending[k] \in Requests
      BY <1>0, SetTyped DEF OrderTyped
    <3> QED BY <3>1 DEF Requests
  <2>2. \A k \in DOMAIN sending : sending[k].kind = "prompt" => sending[k].id # next
    BY <1>0, <2>1 DEF Minted
  <2> QED BY <2>2 DEF ToSet
<1>4. ~Waits(next)
  BY <1>3 DEF Waits
<1>5. next \notin outbox /\ next \notin ToSet(rows)
  BY <1>0, <1>2, <1>4 DEF Sourced
<1>6. ASSUME next \in Ids PROVE ~Shows(staged, next)
  <2>1. \A u \in ToSet(staged) : ~Brings(u, next)
    BY <1>0, <1>2, <1>6 DEF Sourced
  <2>2. staged \in Seq(Proper)
    BY DEF Typed, RowsTyped
  <2> QED BY <1>5, <2>1, <2>2, ShowsFrom
<1> QED
  BY <1>1, <1>2, <1>3, <1>5, <1>6

\* A prompt flushes what is staged, commits the revert here, shows its row and joins the chain.
LEMMA PromptParts ==
  ASSUME InOrder, Typed, Known, Prompt
  PROVE  /\ Typed' /\ next \in Ids
         /\ \A id \in Ids : id \in ToSet(rows') <=>
              id = next \/ (Shows(staged, id) /\ (revert = 0 \/ id < revert \/ id \in outbox))
         /\ IF revert = 0 THEN RevertAt(staged, Len(staged), revert') ELSE revert' = 0
         /\ Send("prompt", next, revert # 0).kind = "prompt" /\ Send("prompt", next, revert # 0).id = next
         /\ Send("prompt", next, revert # 0).phase = "queued"
         /\ Send("prompt", next, revert # 0).undo = (revert # 0)
         /\ ToSet(sending') = ToSet(sending) \cup {Send("prompt", next, revert # 0)}
         /\ sending' # <<>> /\ sending'[1] = IF sending = <<>> THEN Send("prompt", next, revert # 0) ELSE sending[1]
<1> DEFINE s == Send("prompt", next, revert # 0)
           v == Flushed(staged \o CommitLocally)
<1>0. RowsTyped /\ ServiceTyped /\ SendsTyped /\ WiresTyped /\ RestTyped
  BY DEF Typed
<1>1. /\ Room /\ UserCommand /\ rows' = Append(v.rows, next) /\ revert' = v.revert /\ staged' = <<>>
      /\ outbox' = outbox \cup {next} /\ sending' = Append(sending, s) /\ next' = next + 1
      /\ mine' = mine \cup {next}
      /\ UNCHANGED <<settling, log, inbox, reverted, turn, taken, reads, bus, up, late, faults, gaveUp,
                     slipped, stale, withdrawn>>
  BY DEF Prompt, serviceVars
<1>2. next \in Ids /\ next \in Nat
  <2>1. sending \in Seq(Sends) /\ next \in 1 .. MaxId + 1
    BY <1>0 DEF SendsTyped
  <2>2. Cardinality(Pending("command")) \in Nat
    BY <2>1, CommandsFinite
  <2> QED BY <1>1, <2>1, <2>2, PromptsBounds DEF Room, Ids
<1>3. /\ v.rows \in Seq(Ids) /\ IsInjective(v.rows) /\ v.revert \in 0 .. MaxId
      /\ \A id \in Ids : id \in ToSet(v.rows) <=>
           Shows(staged, id) /\ (revert = 0 \/ id < revert \/ id \in outbox)
      /\ IF revert = 0 THEN RevertAt(staged, Len(staged), v.revert) ELSE v.revert = 0
  BY <1>0, FlushedCommit
<1> HIDE DEF v
<1>4. s \in Sends /\ s.kind = "prompt" /\ s.id = next /\ s.phase = "queued" /\ s.undo = (revert # 0)
  BY <1>2 DEF Send, Sends, Ids
<1> HIDE DEF s
<1>5. /\ SendsTyped' /\ ToSet(sending') = ToSet(sending) \cup {s}
      /\ sending'[1] = IF sending = <<>> THEN s ELSE sending[1]
  BY <1>0, <1>1, <1>2, <1>4, SendAdds
<1>6. next \notin ToSet(v.rows)
  BY <1>2, <1>3, Fresh
<1>7. rows' \in Seq(Ids) /\ IsInjective(rows') /\ ToSet(rows') = ToSet(v.rows) \cup {next}
  BY <1>1, <1>2, <1>3, <1>6, AppendApart
<1>8. RowsTyped'
  <2>1. staged' \in Seq(Proper)
    BY <1>1, ShowsFlushed
  <2> QED BY <1>0, <1>1, <1>2, <1>3, <1>7, <2>1 DEF RowsTyped
<1>9. RestTyped'
  BY <1>0, <1>1, <1>2, PromptsBounds DEF RestTyped, UserCommand
<1>10. ServiceTyped' /\ WiresTyped'
  BY <1>0, <1>1 DEF ServiceTyped, WiresTyped
<1>11. sending' # <<>>
  BY <1>5, EmptySet
<1> QED
  BY <1>1, <1>2, <1>3, <1>4, <1>5, <1>7, <1>8, <1>9, <1>10, <1>11 DEF Typed, s

\* A command commits the revert here, if one is staged, and joins the chain.
LEMMA CommandParts ==
  ASSUME Typed, Command
  PROVE  /\ Typed'
         /\ \/ revert = 0 /\ UNCHANGED <<rows, revert, staged>>
            \/ /\ revert # 0 /\ staged' = <<>> /\ revert' = 0
               /\ \A id \in Ids : id \in ToSet(rows') <=> Shows(staged, id) /\ (id < revert \/ id \in outbox)
         /\ Send("command", 0, revert # 0).kind = "command" /\ Send("command", 0, revert # 0).phase = "queued"
         /\ Send("command", 0, revert # 0).undo = (revert # 0)
         /\ ToSet(sending') = ToSet(sending) \cup {Send("command", 0, revert # 0)}
         /\ sending' # <<>> /\ sending'[1] = IF sending = <<>> THEN Send("command", 0, revert # 0) ELSE sending[1]
<1> DEFINE s == Send("command", 0, revert # 0)
           v == Flushed(staged \o CommitLocally)
<1>0. RowsTyped /\ ServiceTyped /\ SendsTyped /\ WiresTyped /\ RestTyped
  BY DEF Typed
<1>1. /\ Room /\ UserCommand /\ sending' = Append(sending, s) /\ next' = next
      /\ IF revert = 0 THEN UNCHANGED <<rows, revert, staged>>
         ELSE rows' = v.rows /\ revert' = v.revert /\ staged' = <<>>
      /\ UNCHANGED <<outbox, settling, log, inbox, reverted, turn, taken, reads, bus, up, late, faults, gaveUp,
                     slipped, stale, withdrawn, mine>>
  BY DEF Command, serviceVars, Show
<1>3. /\ v.rows \in Seq(Ids) /\ IsInjective(v.rows) /\ v.revert \in 0 .. MaxId
      /\ \A id \in Ids : id \in ToSet(v.rows) <=>
           Shows(staged, id) /\ (revert = 0 \/ id < revert \/ id \in outbox)
      /\ IF revert = 0 THEN RevertAt(staged, Len(staged), v.revert) ELSE v.revert = 0
  BY <1>0, FlushedCommit
<1> HIDE DEF v
<1>4. s \in Sends /\ s.kind = "command" /\ s.phase = "queued" /\ s.undo = (revert # 0)
  BY PromptsBounds DEF Send, Sends
<1> HIDE DEF s
<1>5. /\ SendsTyped' /\ ToSet(sending') = ToSet(sending) \cup {s}
      /\ sending'[1] = IF sending = <<>> THEN s ELSE sending[1]
  BY <1>0, <1>1, <1>4, SendAdds
<1>8. RowsTyped'
  <2>1. CASE revert = 0
    BY <1>0, <1>1, <2>1 DEF RowsTyped
  <2>2. CASE revert # 0
    <3>1. staged' \in Seq(Proper)
      BY <1>1, <2>2, ShowsFlushed
    <3> QED BY <1>0, <1>1, <1>3, <2>2, <3>1 DEF RowsTyped
  <2> QED BY <2>1, <2>2
<1>9. RestTyped'
  BY <1>0, <1>1, PromptsBounds DEF RestTyped, UserCommand
<1>10. ServiceTyped' /\ WiresTyped'
  BY <1>0, <1>1 DEF ServiceTyped, WiresTyped
<1>11. sending' # <<>>
  BY <1>5, EmptySet
<1>12. \/ revert = 0 /\ UNCHANGED <<rows, revert, staged>>
       \/ /\ revert # 0 /\ staged' = <<>> /\ revert' = 0
          /\ \A id \in Ids : id \in ToSet(rows') <=> Shows(staged, id) /\ (id < revert \/ id \in outbox)
  BY <1>1, <1>3
<1> QED
  BY <1>1, <1>4, <1>5, <1>8, <1>9, <1>10, <1>11, <1>12 DEF Typed, s

\* The user asks for a revert, or for its end.
Asks(s) ==
  /\ s \in Sends /\ s.phase = "queued" /\ s.kind \in {"revert", "unrevert"} /\ ~s.undo
  /\ s.kind = "unrevert" => s.id = 0
  /\ sending' = Append(sending, s) /\ UserCommand
  /\ UNCHANGED <<rows, revert, staged, outbox, settling, serviceVars, reads, bus,
                 up, late, next, mine, faults, gaveUp, slipped, stale, withdrawn>>

\* A revert or an undo of one only joins the chain.
LEMMA AsksParts ==
  ASSUME Unrevert \/ \E id \in Ids : Revert(id)
  PROVE  \E s \in Sends : Asks(s)
<1>1. CASE Unrevert
  <2> DEFINE s == Send("unrevert", 0, FALSE)
  <2>1. /\ s \in Sends /\ s.phase = "queued" /\ s.kind \in {"revert", "unrevert"} /\ ~s.undo
        /\ s.kind = "unrevert" => s.id = 0
    BY PromptsBounds DEF Send, Sends
  <2>2. sending' = Append(sending, s)
    BY <1>1 DEF Unrevert
  <2> HIDE DEF s
  <2> QED BY <1>1, <2>1, <2>2 DEF Asks, Unrevert
<1>2. ASSUME NEW id \in Ids, Revert(id) PROVE \E s \in Sends : Asks(s)
  <2> DEFINE s == Send("revert", id, FALSE)
  <2>1. /\ s \in Sends /\ s.phase = "queued" /\ s.kind \in {"revert", "unrevert"} /\ ~s.undo
        /\ s.kind = "unrevert" => s.id = 0
    BY PromptsBounds DEF Send, Sends, Ids
  <2>2. sending' = Append(sending, s)
    BY <1>2 DEF Revert
  <2> HIDE DEF s
  <2> QED BY <1>2, <2>1, <2>2 DEF Asks, Revert
<1> QED
  BY <1>1, <1>2

\* And keeps the state typed.
LEMMA AsksTyped ==
  ASSUME Typed, NEW s \in Sends, Asks(s)
  PROVE  /\ Typed' /\ ToSet(sending') = ToSet(sending) \cup {s}
         /\ sending' # <<>> /\ sending'[1] = IF sending = <<>> THEN s ELSE sending[1]
<1>0. RowsTyped /\ ServiceTyped /\ SendsTyped /\ WiresTyped /\ RestTyped
  BY DEF Typed
<1>1. /\ s.phase = "queued" /\ s.kind \in {"revert", "unrevert"} /\ UserCommand
      /\ sending' = Append(sending, s)
      /\ UNCHANGED <<rows, revert, staged, outbox, settling, log, inbox, reverted, turn, taken, reads, bus,
                     up, late, next, mine, faults, gaveUp, slipped, stale, withdrawn>>
  BY DEF Asks, serviceVars
<1>2. /\ SendsTyped' /\ ToSet(sending') = ToSet(sending) \cup {s}
      /\ sending'[1] = IF sending = <<>> THEN s ELSE sending[1]
  BY <1>0, <1>1, AskAdds
<1>3. RestTyped'
  BY <1>0, <1>1, PromptsBounds DEF RestTyped, UserCommand
<1>4. RowsTyped' /\ ServiceTyped' /\ WiresTyped'
  BY <1>0, <1>1 DEF RowsTyped, ServiceTyped, WiresTyped
<1>5. sending' # <<>>
  BY <1>2, EmptySet
<1> QED
  BY <1>2, <1>3, <1>4, <1>5 DEF Typed

\* The request at the head of the chain reaches the service.
Reaches ==
  /\ sending # <<>> /\ sending' # <<>> /\ sending[1] \in Sends
  /\ sending[1].phase = "queued" /\ sending'[1].phase = "taken"
  /\ sending'[1].kind = sending[1].kind /\ sending'[1].id = sending[1].id /\ sending'[1].undo = sending[1].undo
  /\ ToSet(sending) = ToSet(Tail(sending)) \cup {sending[1]}
  /\ ToSet(sending') = ToSet(Tail(sending)) \cup {sending'[1]}

\* New input is admitted, of this client or of another.
Admits(id) ==
  /\ id \in Ids /\ ~Has(id) /\ Admit(id)
  /\ UNCHANGED <<rows, revert, staged, outbox, settling, turn, reads, up, gaveUp, withdrawn>>
  /\ late' \subseteq late /\ id \notin late'
  /\ \/ sending' = sending /\ \A s \in ToSet(sending) : s.kind = "prompt" /\ s.phase = "queued" => s.id # id
     \/ /\ Reaches /\ sending[1].kind \in {"prompt", "command"} /\ (sending[1].kind = "prompt" => sending[1].id = id)
        /\ \A s \in ToSet(Tail(sending)) : s.kind = "prompt" => s.id # id

\* The state stays typed when the service takes input.
LEMMA AdmitTyped ==
  ASSUME Typed, NEW id \in Ids, ~Has(id), Admit(id), SendsTyped',
         UNCHANGED <<rows, revert, staged, outbox, settling, turn, reads, up, mine, faults, gaveUp, withdrawn>>,
         late' \subseteq late, commands' \in 0 .. MaxCommands
  PROVE  Typed'
<1>0. RowsTyped /\ ServiceTyped /\ SendsTyped /\ WiresTyped /\ RestTyped
  BY DEF Typed
<1>1. /\ ServiceTyped' /\ slipped' \subseteq Ids /\ stale' \in BOOLEAN
      /\ bus' \in Seq(Events) /\ (~up' => bus' = <<>>)
      /\ \A f \in ToSet(bus') : f.type \in {"enqueued", "delivered", "cancelled", "committed"} => f.id \in Ids
  BY AdmitParts
<1>2. WiresTyped'
  BY <1>0, <1>1 DEF WiresTyped
<1>3. RestTyped'
  BY <1>0, <1>1 DEF RestTyped
<1>4. RowsTyped'
  BY <1>0 DEF RowsTyped
<1> QED
  BY <1>1, <1>2, <1>3, <1>4 DEF Typed

\* Each way input reaches the service admits one message.
LEMMA AdmitsParts ==
  ASSUME InOrder, Typed, Known,
         PromptTaken \/ CommandTaken \/ OtherPrompt \/ \E id \in Ids : LateTaken(id)
  PROVE  Typed' /\ \E id \in Ids : Admits(id)
<1>0. /\ RowsTyped /\ ServiceTyped /\ SendsTyped /\ WiresTyped /\ RestTyped /\ Unsent
      /\ sending \in Seq(Sends) /\ commands \in 0 .. MaxCommands /\ MaxCommands \in Nat /\ next \in 1 .. MaxId + 1
  BY PromptsBounds DEF Typed, Known, SendsTyped, RestTyped
<1>1. /\ ~Has(next) /\ next \notin late /\ \A s \in ToSet(sending) : s.kind = "prompt" => s.id # next
  BY Fresh
<1>2. ASSUME sending # <<>>
      PROVE  \A s \in ToSet(Tail(sending)) :
               s.phase = "queued" /\ (s.kind = "prompt" /\ sending[1].kind = "prompt" => s.id # sending[1].id)
  BY <1>2, RestQueued
<1>3. ASSUME sending # <<>>, sending[1].phase = "queued", Taken,
             (sending[1].kind = "command" /\ next' = next + 1) \/ next' = next
      PROVE  Reaches /\ SendsTyped' /\ (sending[1].kind = "command" => next \in Ids)
  <2>1. /\ SendsTyped' /\ sending' # <<>> /\ sending[1] \in Sends /\ Head(sending) = sending[1]
        /\ ToSet(sending) = ToSet(Tail(sending)) \cup {sending[1]}
        /\ ToSet(sending') = ToSet(Tail(sending)) \cup {sending'[1]}
        /\ sending'[1].phase = "taken" /\ sending'[1].kind = sending[1].kind
        /\ sending'[1].id = sending[1].id /\ sending'[1].undo = sending[1].undo
        /\ sending[1].kind = "command" => next \in Ids
    BY <1>0, <1>3, HeadTakes
  <2> QED BY <1>3, <2>1 DEF Reaches
<1>4. CASE PromptTaken
  <2>1. /\ sending # <<>> /\ Head(sending).phase = "queued" /\ Head(sending).kind = "prompt"
        /\ Admit(Head(sending).id) /\ Taken
        /\ UNCHANGED <<rows, revert, staged, outbox, settling, turn, reads, up, late, next, commands, mine,
                       faults, gaveUp, withdrawn>>
    BY <1>4 DEF PromptTaken, userVars
  <2>2. Head(sending) = sending[1] /\ sending[1] \in ToSet(sending) /\ sending[1].id \in Ids
    <3>1. Head(sending) = sending[1] /\ sending[1] \in ToSet(sending)
      BY <1>0, <2>1, TailParts, SetTyped
    <3> QED BY <1>0, <2>1, <3>1 DEF SendsTyped
  <2>3. Reaches /\ SendsTyped'
    BY <1>3, <2>1, <2>2
  <2> DEFINE id == sending[1].id
  <2>4. ~Has(id) /\ id \notin late
    BY <1>0, <2>1, <2>2 DEF Unsent
  <2>5. \A s \in ToSet(Tail(sending)) : s.kind = "prompt" => s.id # id
    BY <1>2, <2>1, <2>2
  <2>6. Admit(id) /\ id \in Ids /\ sending[1].kind = "prompt"
    BY <2>1, <2>2
  <2>7. Admits(id)
    BY <2>1, <2>2, <2>3, <2>4, <2>5, <2>6 DEF Admits
  <2> HIDE DEF id
  <2>8. Typed'
    BY <1>0, <2>1, <2>3, <2>4, <2>6, AdmitTyped
  <2> QED BY <2>6, <2>7, <2>8
<1>5. CASE CommandTaken
  <2>1. /\ sending # <<>> /\ Head(sending).phase = "queued" /\ Head(sending).kind = "command"
        /\ Admit(next) /\ next' = next + 1 /\ Taken
        /\ UNCHANGED <<rows, revert, staged, outbox, settling, turn, reads, up, late, commands, mine,
                       faults, gaveUp, withdrawn>>
    BY <1>5 DEF CommandTaken
  <2>2. Head(sending) = sending[1]
    BY <1>0, <2>1, TailParts
  <2>3. Reaches /\ SendsTyped' /\ next \in Ids
    BY <1>3, <2>1, <2>2
  <2>4. \A s \in ToSet(Tail(sending)) : s.kind = "prompt" => s.id # next
    BY <1>1, <2>3 DEF Reaches
  <2>5. Admits(next)
    BY <1>1, <2>1, <2>2, <2>3, <2>4 DEF Admits
  <2>6. Typed'
    BY <1>0, <1>1, <2>1, <2>3, AdmitTyped
  <2> QED BY <2>3, <2>5, <2>6
<1>6. CASE OtherPrompt
  <2>1. /\ Room /\ UserCommand /\ Admit(next) /\ next' = next + 1
        /\ UNCHANGED <<rows, revert, staged, outbox, sending, settling, turn, reads, up, late, mine,
                       faults, gaveUp, withdrawn>>
    BY <1>6 DEF OtherPrompt, clientVars
  <2>2. Cardinality(Pending("command")) \in Nat /\ Cardinality(CommandsQueued) \in Nat
        /\ Cardinality(CommandsQueued) <= Cardinality(Pending("command"))
    BY <1>0, CommandsFinite
  <2>3. next \in Ids /\ next' \in 1 .. MaxId + 1 /\ next' + Cardinality(CommandsQueued) <= MaxId + 1
    BY <1>0, <2>1, <2>2, PromptsBounds DEF Room, Ids
  <2>4. SendsTyped'
    <3>1. CommandsQueued' = CommandsQueued
      BY <2>1 DEF CommandsQueued
    <3> QED BY <1>0, <2>1, <2>3, <3>1 DEF SendsTyped
  <2>5. Admits(next)
    BY <1>1, <2>1, <2>3 DEF Admits
  <2>6. commands' \in 0 .. MaxCommands
    BY <1>0, <2>1 DEF UserCommand
  <2>7. Typed'
    BY <1>0, <1>1, <2>1, <2>3, <2>4, <2>6, AdmitTyped
  <2> QED BY <2>3, <2>5, <2>7
<1>7. ASSUME NEW id \in Ids, LateTaken(id) PROVE Typed' /\ Admits(id)
  <2>1. /\ id \in late /\ late' = late \ {id} /\ Admit(id)
        /\ UNCHANGED <<rows, revert, staged, outbox, sending, settling, turn, reads, up, next, commands, mine,
                       faults, gaveUp, withdrawn>>
    BY <1>7 DEF LateTaken, clientVars, userVars
  <2>2. ~Has(id) /\ \A s \in ToSet(sending) : s.kind = "prompt" /\ s.phase = "queued" => s.id # id
    BY <1>0, <2>1 DEF Unsent
  <2>3. SendsTyped'
    <3>1. CommandsQueued' = CommandsQueued
      BY <2>1 DEF CommandsQueued
    <3> QED BY <1>0, <2>1, <3>1 DEF SendsTyped
  <2>4. Admits(id)
    BY <2>1, <2>2 DEF Admits
  <2>5. Typed'
    BY <1>0, <2>1, <2>2, <2>3, AdmitTyped
  <2> QED BY <2>4, <2>5
<1> QED
  BY <1>4, <1>5, <1>6, <1>7

-----------------------------------------------------------------------------
(* The boundary moves: a revert is staged, or cleared. *)

Bounds(e) ==
  /\ e \in Events /\ e.type \in {"staged", "cleared"} /\ e.about = {}
  /\ Emit(<<e>>, {}) /\ reverted' = RevertTold(e) /\ stale' = (stale \/ Overtaken)
  /\ UNCHANGED <<rows, revert, staged, outbox, settling, log, inbox, turn, taken, reads, up, late, next, mine,
                 faults, gaveUp, withdrawn>>
  /\ \/ sending' = sending
     \/ /\ Reaches
        /\ \/ sending[1].kind = "revert" /\ reverted' = sending[1].id
           \/ sending[1].kind = "unrevert" /\ reverted' = 0

\* Each way a revert is staged or cleared tells of its boundary.
LEMMA BoundsParts ==
  ASSUME Typed, RevertTaken \/ UnrevertTaken \/ \E id \in Ids : OtherRevert(id)
  PROVE  Typed' /\ \E e \in Events : Bounds(e)
<1>0. /\ RowsTyped /\ ServiceTyped /\ SendsTyped /\ WiresTyped /\ RestTyped
      /\ sending \in Seq(Sends) /\ commands \in 0 .. MaxCommands /\ MaxCommands \in Nat /\ MaxId \in Nat
      /\ log \in Seq(Ids) /\ {} \in SUBSET Ids
  BY PromptsBounds DEF Typed, SendsTyped, RestTyped, ServiceTyped
<1>1. ASSUME sending # <<>>, sending[1].phase = "queued", Taken, next' = next
      PROVE  Reaches /\ SendsTyped'
  <2>1. /\ SendsTyped' /\ sending' # <<>> /\ sending[1] \in Sends
        /\ ToSet(sending) = ToSet(Tail(sending)) \cup {sending[1]}
        /\ ToSet(sending') = ToSet(Tail(sending)) \cup {sending'[1]}
        /\ sending'[1].phase = "taken" /\ sending'[1].kind = sending[1].kind
        /\ sending'[1].id = sending[1].id /\ sending'[1].undo = sending[1].undo
    BY <1>0, <1>1, HeadTakes
  <2> QED BY <1>1, <2>1 DEF Reaches
<1>2. ASSUME NEW e \in Events, e.type \in {"staged", "cleared"}, e.about = {}, e.id \in 0 .. MaxId,
             Emit(<<e>>, {}), reverted' = RevertTold(e), stale' = (stale \/ Overtaken), SendsTyped',
             UNCHANGED <<rows, revert, staged, outbox, settling, log, inbox, turn, taken, reads, up, late, mine,
                         faults, gaveUp, withdrawn>>,
             commands' \in 0 .. MaxCommands
      PROVE  Typed'
  <2>1. /\ slipped' \subseteq Ids /\ bus' \in Seq(Events) /\ (~up' => bus' = <<>>)
        /\ \A f \in ToSet(bus') : f.type \in {"enqueued", "delivered", "cancelled", "committed"} => f.id \in Ids
    BY <1>0, <1>2, EmitOne
  <2>2. WiresTyped'
    BY <1>0, <1>2, <2>1 DEF WiresTyped
  <2>3. RestTyped'
    BY <1>0, <1>2, <2>1 DEF RestTyped
  <2>4. RowsTyped'
    BY <1>0, <1>2 DEF RowsTyped
  <2>5. reverted' \in 0 .. MaxId
    BY <1>0, <1>2 DEF RevertTold
  <2>6. ServiceTyped'
    BY <1>0, <1>2, <2>5 DEF ServiceTyped
  <2> QED BY <1>2, <2>2, <2>3, <2>4, <2>6 DEF Typed
<1>3. ASSUME NEW id \in Ids
      PROVE  /\ Event("staged", id, {}) \in Events /\ Event("staged", id, {}).type = "staged"
             /\ Event("staged", id, {}).about = {} /\ Event("staged", id, {}).id = id
             /\ RevertTold(Event("staged", id, {})) = id /\ id \in 0 .. MaxId
  BY <1>0 DEF Event, Events, RevertTold, Ids
<1>4. /\ Event("cleared", 0, {}) \in Events /\ Event("cleared", 0, {}).type = "cleared"
      /\ Event("cleared", 0, {}).about = {} /\ Event("cleared", 0, {}).id = 0
      /\ RevertTold(Event("cleared", 0, {})) = 0 /\ 0 \in 0 .. MaxId
  BY <1>0 DEF Event, Events, RevertTold
<1>5. CASE RevertTaken
  <2>1. /\ sending # <<>> /\ Head(sending).phase = "queued" /\ Head(sending).kind = "revert"
        /\ Contains(log, Head(sending).id) /\ reverted' = Head(sending).id
        /\ Emit(<<Event("staged", Head(sending).id, {})>>, {}) /\ stale' = (stale \/ Overtaken) /\ Taken
        /\ UNCHANGED <<rows, revert, staged, outbox, settling, log, inbox, turn, taken, reads, up, late, next,
                       commands, mine, faults, gaveUp, withdrawn>>
    BY <1>5 DEF RevertTaken, StageRevert, userVars
  <2>2. Head(sending) = sending[1]
    BY <1>0, <2>1, TailParts
  <2>3. sending[1].id \in Ids
    BY <1>0, <2>1, <2>2, ContainsIs, SetTyped
  <2>4. Reaches /\ SendsTyped'
    BY <1>1, <2>1, <2>2
  <2> DEFINE id == sending[1].id
             e == Event("staged", id, {})
  <2>5. e \in Events /\ e.type = "staged" /\ e.about = {} /\ e.id = id /\ RevertTold(e) = id /\ id \in 0 .. MaxId
    BY <1>3, <2>3
  <2>6. Emit(<<e>>, {}) /\ reverted' = id
    BY <2>1, <2>2
  <2> HIDE DEF e
  <2>7. Bounds(e)
    BY <2>1, <2>2, <2>4, <2>5, <2>6 DEF Bounds
  <2>8. commands' \in 0 .. MaxCommands
    BY <1>0, <2>1
  <2> HIDE DEF id
  <2>9. Typed'
    BY <1>2, <2>1, <2>4, <2>5, <2>6, <2>8
  <2> QED BY <2>5, <2>7, <2>9
<1>6. CASE UnrevertTaken
  <2>1. /\ sending # <<>> /\ Head(sending).phase = "queued" /\ Head(sending).kind = "unrevert"
        /\ reverted' = 0 /\ Emit(<<Event("cleared", 0, {})>>, {}) /\ stale' = (stale \/ Overtaken) /\ Taken
        /\ UNCHANGED <<rows, revert, staged, outbox, settling, log, inbox, turn, taken, reads, up, late, next,
                       commands, mine, faults, gaveUp, withdrawn>>
    BY <1>6 DEF UnrevertTaken, userVars
  <2>2. Head(sending) = sending[1]
    BY <1>0, <2>1, TailParts
  <2>4. Reaches /\ SendsTyped'
    BY <1>1, <2>1, <2>2
  <2> DEFINE e == Event("cleared", 0, {})
  <2>5. e \in Events /\ e.type = "cleared" /\ e.about = {} /\ e.id = 0 /\ RevertTold(e) = 0 /\ 0 \in 0 .. MaxId
    BY <1>4
  <2>6. Emit(<<e>>, {})
    BY <2>1
  <2> HIDE DEF e
  <2>7. Bounds(e)
    BY <2>1, <2>2, <2>4, <2>5, <2>6 DEF Bounds
  <2>8. commands' \in 0 .. MaxCommands
    BY <1>0, <2>1
  <2>9. Typed'
    BY <1>2, <2>1, <2>4, <2>5, <2>6, <2>8
  <2> QED BY <2>5, <2>7, <2>9
<1>7. ASSUME NEW id \in Ids, OtherRevert(id) PROVE Typed' /\ \E e \in Events : Bounds(e)
  <2>1. /\ UserCommand /\ reverted' = id /\ Emit(<<Event("staged", id, {})>>, {}) /\ stale' = (stale \/ Overtaken)
        /\ UNCHANGED <<rows, revert, staged, outbox, sending, settling, log, inbox, turn, taken, reads, up, late, next,
                       mine, faults, gaveUp, withdrawn>>
    BY <1>7 DEF OtherRevert, StageRevert, clientVars
  <2> DEFINE e == Event("staged", id, {})
  <2>5. e \in Events /\ e.type = "staged" /\ e.about = {} /\ e.id = id /\ RevertTold(e) = id /\ id \in 0 .. MaxId
    BY <1>3
  <2>6. Emit(<<e>>, {})
    BY <2>1
  <2> HIDE DEF e
  <2>7. Bounds(e)
    BY <2>1, <2>5, <2>6 DEF Bounds
  <2>8. commands' \in 0 .. MaxCommands
    BY <1>0, <2>1 DEF UserCommand
  <2>4. SendsTyped'
    <3>1. CommandsQueued' = CommandsQueued
      BY <2>1 DEF CommandsQueued
    <3> QED BY <1>0, <2>1, <3>1 DEF SendsTyped
  <2>9. Typed'
    BY <1>2, <2>1, <2>4, <2>5, <2>6, <2>8
  <2> QED BY <2>5, <2>7, <2>9
<1> QED
  BY <1>5, <1>6, <1>7

\* One event announced: it is on the bus, or has slipped.
Told(e, gone) ==
  /\ e \in Events /\ up' = up /\ slipped \subseteq slipped'
  /\ up => /\ bus' = bus \o <<e>> /\ ToSet(bus') = ToSet(bus) \cup {e} /\ gone \cap InFlight \subseteq slipped'
  /\ ~up => bus' = bus /\ bus = <<>> /\ e.about \subseteq slipped'

\* The state stays typed when one event is announced.
LEMMA ToldTyped ==
  ASSUME Typed, NEW e \in Events, NEW gone \in SUBSET Ids, Emit(<<e>>, gone), up' = up,
         e.type \in {"enqueued", "delivered", "cancelled", "committed"} => e.id \in Ids,
         RowsTyped', ServiceTyped', SendsTyped',
         UNCHANGED <<reads, settling, late, mine, faults, gaveUp>>,
         commands' \in 0 .. MaxCommands, stale' \in BOOLEAN, withdrawn' \subseteq Ids
  PROVE  Typed' /\ Told(e, gone)
<1>0. WiresTyped /\ RestTyped
  BY DEF Typed
<1>1. /\ slipped \subseteq slipped' /\ slipped' \subseteq Ids
      /\ bus' \in Seq(Events) /\ (~up' => bus' = <<>>)
      /\ \A f \in ToSet(bus') : f.type \in {"enqueued", "delivered", "cancelled", "committed"} => f.id \in Ids
      /\ up => /\ bus' = bus \o <<e>> /\ ToSet(bus') = ToSet(bus) \cup {e}
               /\ gone \cap InFlight \subseteq slipped'
      /\ ~up => bus' = bus /\ bus = <<>> /\ e.about \subseteq slipped'
  BY <1>0, EmitOne
<1>2. WiresTyped'
  BY <1>0, <1>1 DEF WiresTyped
<1>3. RestTyped'
  BY <1>0, <1>1 DEF RestTyped
<1>4. Told(e, gone)
  BY <1>1 DEF Told
<1> QED
  BY <1>2, <1>3, <1>4 DEF Typed

\* Another client cancels an input that waits.
Cancels(id) ==
  /\ Told(Event("cancelled", id, {id}), {id})
  /\ Event("cancelled", id, {id}).type = "cancelled" /\ Event("cancelled", id, {id}).id = id
  /\ Event("cancelled", id, {id}).about = {id}
  /\ id \in ToSet(inbox) /\ ToSet(inbox') = ToSet(inbox) \ {id}
  /\ withdrawn' = withdrawn \cup (ToSet(log) \ ToSet(rows))
  /\ UNCHANGED <<rows, revert, staged, outbox, sending, settling, log, reverted, turn, taken, reads, up, late,
                 gaveUp, stale>>

\* Another client cancels an input.
LEMMA CancelsParts ==
  ASSUME Typed, NEW id \in Ids, OtherCancel(id)
  PROVE  Typed' /\ Cancels(id)
<1> DEFINE e == Event("cancelled", id, {id})
<1>0. RowsTyped /\ ServiceTyped /\ SendsTyped /\ WiresTyped /\ RestTyped
  BY DEF Typed
<1>1. /\ Contains(inbox, id) /\ UserCommand /\ inbox' = Only(inbox, ToSet(inbox) \ {id})
      /\ withdrawn' = withdrawn \cup (ToSet(log) \ ToSet(rows)) /\ Emit(<<e>>, {id})
      /\ UNCHANGED <<rows, revert, staged, outbox, sending, settling, log, reverted, turn, taken, reads, up, late,
                     next, mine, faults, gaveUp, stale>>
  BY DEF OtherCancel, Without, clientVars
<1>2. e \in Events /\ e.type = "cancelled" /\ e.id = id /\ e.about = {id}
  BY DEF Event, Events, Ids
<1> HIDE DEF e
<1>3. inbox \in Seq(Ids) /\ IsInjective(inbox) /\ log \in Seq(Ids)
  BY <1>0 DEF ServiceTyped
<1>4. id \in ToSet(inbox)
  BY <1>1, <1>3, ContainsIs
<1>5. inbox' \in Seq(Ids) /\ IsInjective(inbox') /\ ToSet(inbox') = ToSet(inbox) \ {id}
  <2>1. ToSet(inbox) \cap (ToSet(inbox) \ {id}) = ToSet(inbox) \ {id}
    OBVIOUS
  <2> QED BY <1>1, <1>3, <2>1, OnlyKept
<1>6. ServiceTyped'
  BY <1>0, <1>1, <1>5 DEF ServiceTyped
<1>7. RowsTyped' /\ SendsTyped'
  <2>1. CommandsQueued' = CommandsQueued
    BY <1>1 DEF CommandsQueued
  <2> QED BY <1>0, <1>1, <2>1 DEF RowsTyped, SendsTyped
<1>8. commands' \in 0 .. MaxCommands /\ stale' \in BOOLEAN
  BY <1>0, <1>1, PromptsBounds DEF RestTyped, UserCommand
<1>9. withdrawn' \subseteq Ids
  BY <1>0, <1>1, <1>3, SetTyped DEF RestTyped
<1>10. {id} \in SUBSET Ids
  OBVIOUS
<1>11. Typed' /\ Told(e, {id})
  BY <1>1, <1>2, <1>6, <1>7, <1>8, <1>9, <1>10, ToldTyped
<1> QED
  BY <1>1, <1>2, <1>4, <1>5, <1>11 DEF Cancels, e

\* The oldest input that waits is delivered to the model.
Delivers(h) ==
  /\ Told(Event("delivered", h, {h}), {})
  /\ Event("delivered", h, {h}).type = "delivered" /\ Event("delivered", h, {h}).id = h
  /\ Event("delivered", h, {h}).about = {h}
  /\ h \in Ids /\ ToSet(log') = ToSet(log) \cup {h} /\ h \notin ToSet(log)
  /\ ToSet(inbox) = ToSet(inbox') \cup {h} /\ turn'
  /\ UNCHANGED <<rows, revert, staged, outbox, sending, settling, reverted, taken, reads, up, late,
                 gaveUp, stale, withdrawn>>

\* The oldest input is delivered.
LEMMA DeliversParts ==
  ASSUME Typed, Deliver
  PROVE  Typed' /\ \E h \in Ids : Delivers(h)
<1> DEFINE h == inbox[1]
           e == Event("delivered", h, {h})
<1>0. RowsTyped /\ ServiceTyped /\ SendsTyped /\ WiresTyped /\ RestTyped
  BY DEF Typed
<1>1. /\ inbox # <<>> /\ log' = Append(log, Head(inbox)) /\ inbox' = Tail(inbox) /\ turn' = TRUE
      /\ Emit(<<Event("delivered", Head(inbox), {Head(inbox)})>>, {})
      /\ UNCHANGED <<rows, revert, staged, outbox, sending, settling, reverted, taken, reads, up, late,
                     next, commands, mine, faults, gaveUp, stale, withdrawn>>
  BY DEF Deliver, clientVars, userVars
<1>2. /\ inbox \in Seq(Ids) /\ IsInjective(inbox) /\ log \in Seq(Ids) /\ IsInjective(log)
      /\ ToSet(log) \cap ToSet(inbox) = {}
  BY <1>0 DEF ServiceTyped
<1>3. /\ IsInjective(inbox') /\ h \notin ToSet(inbox') /\ inbox' \in Seq(Ids)
      /\ ToSet(inbox) = ToSet(inbox') \cup {h} /\ h \in Ids /\ Head(inbox) = h
  BY <1>1, <1>2, HeadApart
<1>4. log' = Append(log, h) /\ Emit(<<e>>, {})
  BY <1>1, <1>3
<1>5. e \in Events /\ e.type = "delivered" /\ e.id = h /\ e.about = {h}
  BY <1>3 DEF Event, Events, Ids
<1> HIDE DEF e, h
<1>6. h \notin ToSet(log)
  BY <1>2, <1>3
<1>7. log' \in Seq(Ids) /\ IsInjective(log') /\ ToSet(log') = ToSet(log) \cup {h}
  BY <1>2, <1>3, <1>4, <1>6, AppendApart
<1>8. ServiceTyped'
  BY <1>0, <1>1, <1>2, <1>3, <1>7 DEF ServiceTyped
<1>9. RowsTyped' /\ SendsTyped'
  <2>1. CommandsQueued' = CommandsQueued
    BY <1>1 DEF CommandsQueued
  <2> QED BY <1>0, <1>1, <2>1 DEF RowsTyped, SendsTyped
<1>10. commands' \in 0 .. MaxCommands /\ stale' \in BOOLEAN /\ withdrawn' \subseteq Ids /\ {} \in SUBSET Ids
  BY <1>0, <1>1 DEF RestTyped
<1>11. Typed' /\ Told(e, {})
  BY <1>1, <1>3, <1>4, <1>5, <1>8, <1>9, <1>10, ToldTyped
<1>12. Delivers(h)
  BY <1>1, <1>3, <1>5, <1>6, <1>7, <1>11 DEF Delivers, e
<1> QED
  BY <1>3, <1>11, <1>12

\* The turn ends.
Ends ==
  /\ Told(Event("ended", 0, {}), {})
  /\ Event("ended", 0, {}).type = "ended" /\ Event("ended", 0, {}).about = {}
  /\ inbox = <<>>
  /\ UNCHANGED <<rows, revert, staged, outbox, sending, settling, log, inbox, reverted, taken, reads, up, late,
                 gaveUp, stale, withdrawn>>

\* The turn ends.
LEMMA EndsParts ==
  ASSUME Typed, EndTurn
  PROVE  Typed' /\ Ends
<1> DEFINE e == Event("ended", 0, {})
<1>0. RowsTyped /\ ServiceTyped /\ SendsTyped /\ WiresTyped /\ RestTyped
  BY DEF Typed
<1>1. /\ inbox = <<>> /\ turn' = FALSE /\ Emit(<<e>>, {})
      /\ UNCHANGED <<rows, revert, staged, outbox, sending, settling, log, inbox, reverted, taken, reads, up, late,
                     next, commands, mine, faults, gaveUp, stale, withdrawn>>
  BY DEF EndTurn, clientVars, userVars
<1>2. e \in Events /\ e.type = "ended" /\ e.about = {}
  BY PromptsBounds DEF Event, Events
<1> HIDE DEF e
<1>3. ServiceTyped'
  BY <1>0, <1>1 DEF ServiceTyped
<1>4. RowsTyped' /\ SendsTyped'
  <2>1. CommandsQueued' = CommandsQueued
    BY <1>1 DEF CommandsQueued
  <2> QED BY <1>0, <1>1, <2>1 DEF RowsTyped, SendsTyped
<1>5. commands' \in 0 .. MaxCommands /\ stale' \in BOOLEAN /\ withdrawn' \subseteq Ids /\ {} \in SUBSET Ids
  BY <1>0, <1>1 DEF RestTyped
<1>6. Typed' /\ Told(e, {})
  BY <1>1, <1>2, <1>3, <1>4, <1>5, ToldTyped
<1> QED
  BY <1>1, <1>2, <1>6 DEF Ends, e

\* The client hears of nothing: the stream drops, or comes back.
Loses ==
  /\ up /\ ~up' /\ bus' = <<>> /\ slipped \subseteq slipped' /\ \A e \in ToSet(bus) : e.about \subseteq slipped'
  /\ UNCHANGED <<rows, revert, staged, outbox, sending, settling, log, inbox, reverted, turn, taken, reads, late,
                 gaveUp, stale, withdrawn>>

\* The stream drops.
LEMMA LosesParts ==
  ASSUME Typed, BusLost
  PROVE  Typed' /\ Loses
<1>0. RowsTyped /\ ServiceTyped /\ SendsTyped /\ WiresTyped /\ RestTyped
  BY DEF Typed
<1>1. /\ up /\ Fault /\ up' = FALSE /\ bus' = <<>>
      /\ slipped' = slipped \cup UNION {bus[i].about : i \in DOMAIN bus}
      /\ UNCHANGED <<rows, revert, staged, outbox, sending, settling, log, inbox, reverted, turn, taken, reads, late,
                     next, commands, mine, gaveUp, stale, withdrawn>>
  BY DEF BusLost, clientVars, serviceVars, userVars
<1>2. \A e \in ToSet(bus) : e \in Events
  BY <1>0, SetTyped DEF WiresTyped
<1>3. \A e \in ToSet(bus) : e.about \subseteq slipped' /\ e.about \subseteq Ids
  <2>1. \A e \in ToSet(bus) : e.about \subseteq Ids
    BY <1>2 DEF Events
  <2> QED BY <1>1, <2>1 DEF ToSet
<1>4. slipped' \subseteq Ids
  BY <1>0, <1>1, <1>3 DEF ToSet, RestTyped
<1>5. WiresTyped'
  <2>1. bus' \in Seq(Events) /\ ToSet(bus') = {}
    BY <1>1, EmptySet
  <2> QED BY <1>0, <1>1, <2>1 DEF WiresTyped
<1>6. RestTyped'
  BY <1>0, <1>1, <1>4, PromptsBounds DEF RestTyped, Fault
<1>7. RowsTyped' /\ ServiceTyped' /\ SendsTyped'
  <2>1. CommandsQueued' = CommandsQueued
    BY <1>1 DEF CommandsQueued
  <2> QED BY <1>0, <1>1, <2>1 DEF RowsTyped, SendsTyped, ServiceTyped
<1> QED
  BY <1>1, <1>3, <1>5, <1>6, <1>7 DEF Typed, Loses

Connects ==
  /\ ~up /\ up' /\ bus = <<>> /\ bus' = <<Event("connected", 0, {})>> /\ ToSet(bus') = {Event("connected", 0, {})}
  /\ DOMAIN bus' = {1} /\ bus'[1] = Event("connected", 0, {})
  /\ Event("connected", 0, {}).type = "connected" /\ Event("connected", 0, {}).about = {}
  /\ UNCHANGED <<rows, revert, staged, outbox, sending, settling, log, inbox, reverted, turn, taken, reads, late,
                 gaveUp, slipped, stale, withdrawn>>

\* The stream comes back.
LEMMA ConnectsParts ==
  ASSUME Typed, Reconnect
  PROVE  Typed' /\ Connects
<1> DEFINE e == Event("connected", 0, {})
<1>0. RowsTyped /\ ServiceTyped /\ SendsTyped /\ WiresTyped /\ RestTyped
  BY DEF Typed
<1>1. /\ ~up /\ up' = TRUE /\ bus' = <<e>>
      /\ UNCHANGED <<rows, revert, staged, outbox, sending, settling, log, inbox, reverted, turn, taken, reads, late,
                     next, commands, mine, faults, gaveUp, slipped, stale, withdrawn>>
  BY DEF Reconnect, clientVars, serviceVars, userVars
<1>2. e \in Events /\ e.type = "connected" /\ e.about = {}
  BY PromptsBounds DEF Event, Events
<1> HIDE DEF e
<1>3. bus' \in Seq(Events) /\ ToSet(bus') = {e} /\ DOMAIN bus' = {1} /\ bus'[1] = e
  BY <1>1, <1>2, OneSet
<1>4. WiresTyped'
  BY <1>0, <1>1, <1>2, <1>3 DEF WiresTyped
<1>5. RestTyped' /\ RowsTyped' /\ ServiceTyped' /\ SendsTyped'
  <2>1. CommandsQueued' = CommandsQueued
    BY <1>1 DEF CommandsQueued
  <2> QED BY <1>0, <1>1, <2>1 DEF RowsTyped, SendsTyped, ServiceTyped, RestTyped
<1>6. bus = <<>>
  BY <1>0, <1>1 DEF WiresTyped
<1> QED
  BY <1>1, <1>2, <1>3, <1>4, <1>5, <1>6 DEF Typed, Connects, e

\* The updates a step stages.
LEMMA UpdateIs ==
  /\ \A op \in {"upsert", "deliver", "remove", "drop"}, id \in Ids :
       Update(op, id) \in Proper /\ Update(op, id).op = op /\ Update(op, id).id = id
  /\ \A to \in 0 .. MaxId :
       SetRevert(to) \in Proper /\ SetRevert(to).op = "revert" /\ SetRevert(to).id = to
  /\ \A page \in Seq(Ids) : IsInjective(page) =>
       Merge(page) \in Proper /\ Merge(page).op = "merge" /\ Merge(page).page = page
<1>1. <<>> \in Seq(Ids) /\ IsInjective(<<>>) /\ 0 \in 0 .. MaxId /\ Ids \subseteq 0 .. MaxId
  BY PromptsBounds DEF IsInjective, Ids
<1> QED
  BY <1>1 DEF Update, SetRevert, Merge, Proper, Updates

\* The answer to the head of the chain.
Answers ==
  /\ sending # <<>> /\ sending[1] \in Sends /\ sending[1].phase = "taken"
  /\ ToSet(sending) = ToSet(sending') \cup {sending[1]} /\ sending' = Tail(sending)
  /\ \/ sending[1].kind \notin {"revert", "unrevert"} /\ UNCHANGED <<rows, revert, staged>>
     \/ /\ sending[1].kind \in {"revert", "unrevert"} /\ staged' = <<>> /\ revert' = sending[1].id
        /\ \A id \in Ids : id \in ToSet(rows') <=> Shows(staged, id)
  /\ UNCHANGED <<outbox, settling, log, inbox, reverted, turn, taken, reads, bus, up, late, gaveUp,
                 slipped, stale, withdrawn>>

\* An answer takes the head from the chain; a revert's is shown at once.
LEMMA AnswersParts ==
  ASSUME Typed, Answered
  PROVE  Typed' /\ Answers
<1> DEFINE u == SetRevert(sending[1].id)
           v == Flushed(Append(staged, u))
<1>0. RowsTyped /\ ServiceTyped /\ SendsTyped /\ WiresTyped /\ RestTyped
  BY DEF Typed
<1>1. /\ sending # <<>> /\ Head(sending).phase = "taken" /\ sending' = Tail(sending)
      /\ IF Head(sending).kind \in {"revert", "unrevert"}
         THEN /\ rows' = Flushed(Append(staged, SetRevert(Head(sending).id))).rows
              /\ revert' = Flushed(Append(staged, SetRevert(Head(sending).id))).revert /\ staged' = <<>>
         ELSE UNCHANGED <<rows, revert, staged>>
      /\ UNCHANGED <<outbox, settling, log, inbox, reverted, turn, taken, reads, bus, up, late, next, commands,
                     mine, faults, gaveUp, slipped, stale, withdrawn>>
  BY DEF Answered, Show, serviceVars, userVars
<1>2. /\ SendsTyped' /\ sending[1] \in Sends /\ Head(sending) = sending[1]
      /\ ToSet(sending) = ToSet(sending') \cup {sending[1]}
  BY <1>0, <1>1, HeadLeaves
<1>3. sending[1].id \in 0 .. MaxId
  BY <1>2 DEF Sends
<1>4. u \in Proper /\ u.op = "revert" /\ u.id = sending[1].id
  BY <1>3, UpdateIs
<1>5. IF sending[1].kind \in {"revert", "unrevert"} THEN rows' = v.rows /\ revert' = v.revert /\ staged' = <<>>
      ELSE UNCHANGED <<rows, revert, staged>>
  BY <1>1, <1>2
<1> HIDE DEF u
<1>6. /\ v.rows \in Seq(Ids) /\ IsInjective(v.rows) /\ v.revert \in 0 .. MaxId /\ v.revert = u.id
      /\ \A id \in Ids : id \in ToSet(v.rows) <=> Shows(staged, id) /\ ~Takes(u, id)
  BY <1>0, <1>4, FlushedOne
<1> HIDE DEF v
<1>7. \A id : ~Takes(u, id)
  BY <1>4 DEF Takes
<1>8. RowsTyped'
  <2>1. CASE sending[1].kind \in {"revert", "unrevert"}
    <3>1. staged' \in Seq(Proper)
      BY <1>5, <2>1, ShowsFlushed
    <3> QED BY <1>0, <1>1, <1>5, <1>6, <2>1, <3>1 DEF RowsTyped
  <2>2. CASE sending[1].kind \notin {"revert", "unrevert"}
    BY <1>0, <1>1, <1>5, <2>2 DEF RowsTyped
  <2> QED BY <2>1, <2>2
<1>9. ServiceTyped' /\ WiresTyped' /\ RestTyped'
  BY <1>0, <1>1 DEF ServiceTyped, WiresTyped, RestTyped
<1>10. Answers
  BY <1>1, <1>2, <1>4, <1>5, <1>6, <1>7 DEF Answers
<1> QED
  BY <1>2, <1>8, <1>9, <1>10 DEF Typed

\* The head's request fails.
Fails ==
  /\ sending # <<>> /\ sending[1] \in Sends /\ ToSet(sending) = ToSet(sending') \cup {sending[1]}
  /\ sending' = Tail(sending)
  /\ \/ /\ sending[1].kind = "prompt" /\ sending[1].id \in outbox
        /\ outbox' = outbox \ {sending[1].id} /\ staged' = <<>>
        /\ \A id \in Ids : id \in ToSet(rows') <=> Shows(staged, id) /\ id # sending[1].id
        /\ RevertAt(staged, Len(staged), revert')
     \/ /\ ~(sending[1].kind = "prompt" /\ sending[1].id \in outbox)
        /\ UNCHANGED <<outbox, rows, revert, staged>>
  /\ gaveUp' = gaveUp \cup ({sending[1].id} \ {0})
  /\ \/ late' = late
     \/ sending[1].kind = "prompt" /\ sending[1].phase = "queued" /\ late' = late \cup {sending[1].id}
  /\ IF sending[1].undo THEN ToSet(reads') = ToSet(reads) \cup {Read("row"), Read("tail")} ELSE reads' = reads
  /\ UNCHANGED <<settling, log, inbox, reverted, turn, taken, bus, up, slipped, stale, withdrawn>>

\* A failed send takes the head from the chain and its row back.
LEMMA FailsParts ==
  ASSUME Typed, NEW arrives \in BOOLEAN, SendFailed(arrives)
  PROVE  Typed' /\ Fails
<1> DEFINE s == sending[1]
           u == Update("remove", s.id)
           v == Flushed(Append(staged, u))
<1>0. RowsTyped /\ ServiceTyped /\ SendsTyped /\ WiresTyped /\ RestTyped
  BY DEF Typed
<1>1. /\ sending # <<>> /\ sending' = Tail(sending)
      /\ UNCHANGED <<settling, log, inbox, reverted, turn, taken, bus, up, next, commands, mine,
                     slipped, stale, withdrawn>>
  BY DEF SendFailed, serviceVars, userVars
<1>2. /\ SendsTyped' /\ s \in Sends /\ Head(sending) = s
      /\ ToSet(sending) = ToSet(sending') \cup {s}
  BY <1>0, <1>1, HeadLeaves
<1>3. /\ UNCHANGED faults \/ Fault
      /\ arrives => s.kind = "prompt" /\ s.phase = "queued"
      /\ IF s.kind = "prompt" /\ s.id \in outbox
         THEN outbox' = outbox \ {s.id} /\ rows' = v.rows /\ revert' = v.revert /\ staged' = <<>>
         ELSE UNCHANGED <<outbox, rows, revert, staged>>
      /\ gaveUp' = gaveUp \cup ({s.id} \ {0})
      /\ late' = IF arrives THEN late \cup {s.id} ELSE late
      /\ IF s.undo THEN Ask(reads, <<"row", "tail">>) ELSE UNCHANGED reads
  BY <1>2 DEF SendFailed, Show
<1>4. s.id \in 0 .. MaxId /\ (s.kind = "prompt" => s.id \in Ids)
  <2>1. s \in ToSet(sending)
    BY <1>2
  <2> QED BY <1>0, <1>2, <2>1 DEF Sends, SendsTyped
<1>5. s.id \notin {0} => s.id \in Ids
  BY <1>4, PromptsBounds DEF Ids
<1>6. ASSUME s.kind = "prompt" PROVE u \in Proper /\ u.op = "remove" /\ u.id = s.id
  BY <1>4, <1>6, UpdateIs
<1> HIDE DEF u
<1>7. ASSUME s.kind = "prompt"
      PROVE  /\ v.rows \in Seq(Ids) /\ IsInjective(v.rows) /\ v.revert \in 0 .. MaxId
             /\ RevertAt(staged, Len(staged), v.revert)
             /\ \A id \in Ids : id \in ToSet(v.rows) <=> Shows(staged, id) /\ ~Takes(u, id)
  BY <1>0, <1>6, <1>7, FlushedOne
<1> HIDE DEF v, s
<1>8. ASSUME s.kind = "prompt" PROVE \A id : Takes(u, id) <=> id = s.id
  BY <1>6, <1>8 DEF Takes
<1>9. RowsTyped'
  <2>1. CASE s.kind = "prompt" /\ s.id \in outbox
    <3>1. staged' \in Seq(Proper)
      BY <1>3, <2>1, ShowsFlushed
    <3> QED BY <1>0, <1>3, <1>7, <2>1, <3>1 DEF RowsTyped
  <2>2. CASE ~(s.kind = "prompt" /\ s.id \in outbox)
    BY <1>0, <1>3, <2>2 DEF RowsTyped
  <2> QED BY <2>1, <2>2
<1>10. /\ reads' \in Seq(Reads) /\ Len(reads') <= MaxReads /\ \A r \in ToSet(reads') : IsInjective(r.page)
       /\ IF s.undo THEN ToSet(reads') = ToSet(reads) \cup {Read("row"), Read("tail")} ELSE reads' = reads
  <2>0. reads \in Seq(Reads) /\ Len(reads) <= MaxReads /\ \A r \in ToSet(reads) : IsInjective(r.page)
    BY <1>0 DEF WiresTyped
  <2>1. CASE s.undo
    <3> DEFINE x == <<"row", "tail">>
    <3>1. x \in Seq(Kinds) /\ ToSet(x) = {"row", "tail"}
      <4>1. "row" \in Kinds /\ "tail" \in Kinds
        BY DEF Kinds
      <4> QED BY <4>1, TwoSet
    <3>2. Ask(reads, x)
      BY <1>3, <2>1
    <3> HIDE DEF x
    <3>3. /\ reads' \in Seq(Reads) /\ Len(reads') <= MaxReads /\ \A r \in ToSet(reads') : IsInjective(r.page)
          /\ ToSet(reads') = ToSet(reads) \cup {Read(kind) : kind \in ToSet(x)}
      BY <2>0, <3>1, <3>2, AskParts
    <3>4. {Read(kind) : kind \in ToSet(x)} = {Read("row"), Read("tail")}
      BY <3>1
    <3> QED BY <2>1, <3>3, <3>4
  <2>2. CASE ~s.undo
    <3>1. reads' = reads
      BY <1>3, <2>2
    <3> QED BY <2>0, <2>2, <3>1
  <2> QED BY <2>1, <2>2
<1>11. WiresTyped'
  BY <1>0, <1>1, <1>10 DEF WiresTyped
<1>12. RestTyped'
  <2>1. faults' \in 0 .. MaxFaults
    BY <1>0, <1>3, PromptsBounds DEF RestTyped, Fault
  <2>2. late' \subseteq Ids /\ gaveUp' \subseteq Ids
    BY <1>0, <1>3, <1>4, <1>5 DEF RestTyped
  <2> QED BY <1>0, <1>1, <2>1, <2>2 DEF RestTyped
<1>13. ServiceTyped'
  BY <1>0, <1>1 DEF ServiceTyped
<1>14. Fails
  <2>1. \/ /\ s.kind = "prompt" /\ s.id \in outbox
           /\ outbox' = outbox \ {s.id} /\ staged' = <<>>
           /\ \A id \in Ids : id \in ToSet(rows') <=> Shows(staged, id) /\ id # s.id
           /\ RevertAt(staged, Len(staged), revert')
        \/ ~(s.kind = "prompt" /\ s.id \in outbox) /\ UNCHANGED <<outbox, rows, revert, staged>>
    BY <1>3, <1>7, <1>8
  <2>2. \/ late' = late
        \/ s.kind = "prompt" /\ s.phase = "queued" /\ late' = late \cup {s.id}
    BY <1>3
  <2> QED BY <1>1, <1>2, <1>3, <1>10, <2>1, <2>2 DEF Fails, s
<1> QED
  BY <1>2, <1>9, <1>11, <1>12, <1>13, <1>14 DEF Typed

\* What an event makes of a row, and of the revert.
FoldBrings(e, id) == e.type = "enqueued" /\ e.id = id

FoldTakes(e, id) ==
  \/ e.type = "cancelled" /\ e.id = id
  \/ e.type = "committed" /\ ~(id < e.id) /\ id \notin outbox

\* An event stages what brings, takes or sets what it tells of.
LEMMA FoldedIs ==
  ASSUME NEW e \in Events,
         e.type \in {"enqueued", "delivered", "cancelled", "committed"} => e.id \in Ids
  PROVE  /\ Folded(e) \in Seq(Proper)
         /\ \A u \in ToSet(Folded(e)) :
              /\ u.op # "merge"
              /\ \A id : Brings(u, id) => FoldBrings(e, id)
              /\ u.op = "remove" => e.type = "cancelled" /\ u.id = e.id
              /\ u.op = "drop" => e.type = "committed" /\ u.id = e.id
         /\ \A id : FoldBrings(e, id) => \E u \in ToSet(Folded(e)) : Brings(u, id)
         /\ \A id : FoldTakes(e, id) => \E u \in ToSet(Folded(e)) : Takes(u, id)
         /\ e.type \in Reverts => \A k \in DOMAIN Folded(e) : Folded(e)[k].op = "revert" => Folded(e)[k].id = RevertTold(e)
         /\ e.type \in Reverts => \E k \in DOMAIN Folded(e) : Folded(e)[k].op = "revert"
         /\ e.type \notin Reverts => \A k \in DOMAIN Folded(e) : Folded(e)[k].op # "revert"
<1>0. e.id \in 0 .. MaxId /\ 0 \in 0 .. MaxId
  BY PromptsBounds DEF Events
<1>1. CASE e.type = "staged"
  <2> DEFINE u == SetRevert(e.id)
             x == <<u>>
  <2>1. u \in Proper /\ u.op = "revert" /\ u.id = e.id
    BY <1>0, UpdateIs
  <2>2. Folded(e) = x
    BY <1>1 DEF Folded
  <2> HIDE DEF u
  <2>3. x \in Seq(Proper) /\ ToSet(x) = {u} /\ DOMAIN x = {1} /\ x[1] = u
    BY <2>1, OneSet
  <2> HIDE DEF x
  <2> QED BY <1>1, <2>1, <2>2, <2>3 DEF FoldBrings, FoldTakes, Brings, Takes, Reverts, RevertTold
<1>2. CASE e.type = "cleared"
  <2> DEFINE u == SetRevert(0)
             x == <<u>>
  <2>1. u \in Proper /\ u.op = "revert" /\ u.id = 0
    BY <1>0, UpdateIs
  <2>2. Folded(e) = x
    BY <1>2 DEF Folded
  <2> HIDE DEF u
  <2>3. x \in Seq(Proper) /\ ToSet(x) = {u} /\ DOMAIN x = {1} /\ x[1] = u
    BY <2>1, OneSet
  <2> HIDE DEF x
  <2> QED BY <1>2, <2>1, <2>2, <2>3 DEF FoldBrings, FoldTakes, Brings, Takes, Reverts, RevertTold
<1>3. CASE e.type = "committed"
  <2> DEFINE u == SetRevert(0)
             w == Update("drop", e.id)
             x == <<u, w>>
  <2>1. u \in Proper /\ u.op = "revert" /\ u.id = 0 /\ w \in Proper /\ w.op = "drop" /\ w.id = e.id
    BY <1>0, <1>3, UpdateIs
  <2>2. Folded(e) = x
    BY <1>3 DEF Folded
  <2> HIDE DEF u, w
  <2>3. x \in Seq(Proper) /\ ToSet(x) = {u, w} /\ DOMAIN x = {1, 2} /\ x[1] = u /\ x[2] = w
    BY <2>1, TwoSet
  <2> HIDE DEF x
  <2> QED BY <1>3, <2>1, <2>2, <2>3 DEF FoldBrings, FoldTakes, Brings, Takes, Reverts, RevertTold
<1>4. ASSUME NEW op \in {"upsert", "deliver", "remove"}, e.type \notin Reverts, Folded(e) = <<Update(op, e.id)>>,
             op = "upsert" <=> e.type = "enqueued", op = "remove" <=> e.type = "cancelled", e.id \in Ids
      PROVE  /\ Folded(e) \in Seq(Proper)
             /\ \A u \in ToSet(Folded(e)) :
                  /\ u.op # "merge"
                  /\ \A id : Brings(u, id) => FoldBrings(e, id)
                  /\ u.op = "remove" => e.type = "cancelled" /\ u.id = e.id
                  /\ u.op = "drop" => e.type = "committed" /\ u.id = e.id
             /\ \A id : FoldBrings(e, id) => \E u \in ToSet(Folded(e)) : Brings(u, id)
             /\ \A id : FoldTakes(e, id) => \E u \in ToSet(Folded(e)) : Takes(u, id)
             /\ e.type \in Reverts => \A k \in DOMAIN Folded(e) : Folded(e)[k].op = "revert" => Folded(e)[k].id = RevertTold(e)
             /\ e.type \in Reverts => \E k \in DOMAIN Folded(e) : Folded(e)[k].op = "revert"
             /\ e.type \notin Reverts => \A k \in DOMAIN Folded(e) : Folded(e)[k].op # "revert"
  <2> DEFINE u == Update(op, e.id)
             x == <<u>>
  <2>1. u \in Proper /\ u.op = op /\ u.id = e.id
    BY <1>4, UpdateIs
  <2>2. Folded(e) = x
    BY <1>4
  <2> HIDE DEF u
  <2>3. x \in Seq(Proper) /\ ToSet(x) = {u} /\ DOMAIN x = {1} /\ x[1] = u
    BY <2>1, OneSet
  <2> HIDE DEF x
  <2> QED BY <1>4, <2>1, <2>2, <2>3 DEF FoldBrings, FoldTakes, Brings, Takes, Reverts
<1>5. CASE e.type = "enqueued"
  <2>1. Folded(e) = <<Update("upsert", e.id)>> /\ e.type \notin Reverts
    BY <1>5 DEF Folded, Reverts
  <2>2. "upsert" \in {"upsert", "deliver", "remove"} /\ e.id \in Ids
    BY <1>5
  <2> QED BY <1>4, <1>5, <2>1, <2>2
<1>6. CASE e.type = "delivered"
  <2>1. Folded(e) = <<Update("deliver", e.id)>> /\ e.type \notin Reverts
    BY <1>6 DEF Folded, Reverts
  <2>2. "deliver" \in {"upsert", "deliver", "remove"} /\ e.id \in Ids
    BY <1>6
  <2> QED BY <1>4, <1>6, <2>1, <2>2
<1>7. CASE e.type = "cancelled"
  <2>1. Folded(e) = <<Update("remove", e.id)>> /\ e.type \notin Reverts
    BY <1>7 DEF Folded, Reverts
  <2>2. "remove" \in {"upsert", "deliver", "remove"} /\ e.id \in Ids
    BY <1>7
  <2> QED BY <1>4, <1>7, <2>1, <2>2
<1>8. CASE e.type \in {"connected", "ended"}
  <2>1. Folded(e) = <<>> /\ e.type \notin Reverts
    BY <1>8 DEF Folded, Reverts
  <2>2. <<>> \in Seq(Proper) /\ ToSet(<<>>) = {} /\ DOMAIN <<>> = {}
    BY EmptySet
  <2>3. \A id : ~FoldBrings(e, id) /\ ~FoldTakes(e, id)
    BY <1>8 DEF FoldBrings, FoldTakes
  <2> QED BY <2>1, <2>2, <2>3
<1>9. e.type \in {"connected", "enqueued", "delivered", "cancelled", "ended", "staged", "cleared", "committed"}
  BY DEF Events
<1> QED
  BY <1>1, <1>2, <1>3, <1>5, <1>6, <1>7, <1>8, <1>9

\* The oldest event is handled.
Handles(e) ==
  /\ bus # <<>> /\ e = bus[1] /\ e \in Events /\ bus' = Tail(bus) /\ ToSet(bus) = ToSet(bus') \cup {e}
  /\ staged' = staged \o Folded(e) /\ Folded(e) \in Seq(Proper)
  /\ ToSet(staged') = ToSet(staged) \cup ToSet(Folded(e))
  /\ \A id : Shows(staged, id)' => FoldBrings(e, id) \/ (Shows(staged, id) /\ ~FoldTakes(e, id))
  /\ \A to : RevertAt(staged, Len(staged), to)' =>
       IF e.type \in Reverts THEN to = RevertTold(e) ELSE RevertAt(staged, Len(staged), to)
  /\ outbox' = IF e.type \in {"enqueued", "cancelled"} THEN outbox \ {e.id} ELSE outbox
  /\ settling' = (settling \/ e.type = "ended")
  /\ ToSet(reads') = ToSet(reads) \cup (CASE e.type = "ended" -> {Read("row")}
                                          [] e.type = "connected" -> {Read("list")}
                                          [] OTHER -> {})
  /\ UNCHANGED <<rows, revert, sending, log, inbox, reverted, turn, taken, up, late, gaveUp, slipped, stale,
                 withdrawn>>

\* An event is handled.
LEMMA HandlesParts ==
  ASSUME Typed, OnEvent
  PROVE  Typed' /\ \E e \in Events : Handles(e)
<1> DEFINE e == bus[1]
           q == Folded(e)
           more == CASE e.type = "ended" -> <<"row">> [] e.type = "connected" -> <<"list">> [] OTHER -> <<>>
<1>0. RowsTyped /\ ServiceTyped /\ SendsTyped /\ WiresTyped /\ RestTyped
  BY DEF Typed
<1>1. /\ bus # <<>> /\ bus' = Tail(bus) /\ Stage(Folded(Head(bus)))
      /\ outbox' = IF Head(bus).type \in {"enqueued", "cancelled"} THEN outbox \ {Head(bus).id} ELSE outbox
      /\ settling' = (settling \/ Head(bus).type = "ended")
      /\ Ask(reads, CASE Head(bus).type = "ended" -> <<"row">> [] Head(bus).type = "connected" -> <<"list">>
                      [] OTHER -> <<>>)
      /\ UNCHANGED <<rows, revert, sending, log, inbox, reverted, turn, taken, up, late, next, commands, mine,
                     faults, gaveUp, slipped, stale, withdrawn>>
  BY DEF OnEvent, serviceVars, userVars
<1>2. /\ bus \in Seq(Events) /\ (~up => bus = <<>>) /\ settling \in BOOLEAN /\ up \in BOOLEAN
      /\ \A f \in ToSet(bus) : f.type \in {"enqueued", "delivered", "cancelled", "committed"} => f.id \in Ids
      /\ reads \in Seq(Reads) /\ \A r \in ToSet(reads) : IsInjective(r.page)
  BY <1>0 DEF WiresTyped
<1>3. /\ Head(bus) = e /\ e \in Events /\ bus' \in Seq(Events) /\ ToSet(bus) = ToSet(bus') \cup {e}
  BY <1>1, <1>2, TailParts, TailSet
<1>4. e.type \in {"enqueued", "delivered", "cancelled", "committed"} => e.id \in Ids
  BY <1>2, <1>3
<1>5. staged' = staged \o q
  BY <1>1, <1>3 DEF Stage
<1>6. /\ outbox' = IF e.type \in {"enqueued", "cancelled"} THEN outbox \ {e.id} ELSE outbox
      /\ settling' = (settling \/ e.type = "ended") /\ Ask(reads, more)
  BY <1>1, <1>3
<1> HIDE DEF e, q, more
<1>7. /\ q \in Seq(Proper)
      /\ \A id : (\E u \in ToSet(q) : Brings(u, id)) => FoldBrings(e, id)
      /\ \A id : FoldTakes(e, id) => \E u \in ToSet(q) : Takes(u, id)
      /\ e.type \in Reverts => \A k \in DOMAIN q : q[k].op = "revert" => q[k].id = RevertTold(e)
      /\ e.type \in Reverts => \E k \in DOMAIN q : q[k].op = "revert"
      /\ e.type \notin Reverts => \A k \in DOMAIN q : q[k].op # "revert"
  BY <1>3, <1>4, FoldedIs DEF q
<1>8. outbox' \subseteq outbox
  BY <1>6
<1>9. /\ RowsTyped'
      /\ \A id : Shows(staged, id)' =>
           \/ \E u \in ToSet(q) : Brings(u, id)
           \/ Shows(staged, id) /\ \A u \in ToSet(q) : ~Takes(u, id)
      /\ \A to : RevertAt(staged, Len(staged), to)' =>
           \/ \E k \in DOMAIN q : /\ q[k].op = "revert" /\ q[k].id = to
                                  /\ \A j \in DOMAIN q : k < j => q[j].op # "revert"
           \/ RevertAt(staged, Len(staged), to) /\ \A j \in DOMAIN q : q[j].op # "revert"
      /\ ToSet(staged') = ToSet(staged) \cup ToSet(q)
  BY <1>0, <1>1, <1>5, <1>7, <1>8, ShowsStaged
<1>10. /\ reads' \in Seq(Reads) /\ Len(reads') <= MaxReads /\ \A r \in ToSet(reads') : IsInjective(r.page)
       /\ ToSet(reads') = ToSet(reads) \cup (CASE e.type = "ended" -> {Read("row")}
                                               [] e.type = "connected" -> {Read("list")}
                                               [] OTHER -> {})
  <2>1. CASE e.type = "ended"
    <3>1. Ask(reads, <<"row">>) /\ "row" \in Kinds
      BY <1>6, <2>1 DEF more, Kinds
    <3> QED BY <1>2, <2>1, <3>1, AskOne
  <2>2. CASE e.type = "connected"
    <3>1. Ask(reads, <<"list">>) /\ "list" \in Kinds
      BY <1>6, <2>2 DEF more, Kinds
    <3> QED BY <1>2, <2>2, <3>1, AskOne
  <2>3. CASE e.type \notin {"ended", "connected"}
    <3>1. Ask(reads, <<>>)
      BY <1>6, <2>3 DEF more
    <3> QED BY <1>2, <2>3, <3>1, AskNone
  <2> QED BY <2>1, <2>2, <2>3
<1>11. WiresTyped'
  <2>1. ~up' => bus' = <<>>
    BY <1>1, <1>2
  <2>2. \A f \in ToSet(bus') : f.type \in {"enqueued", "delivered", "cancelled", "committed"} => f.id \in Ids
    BY <1>2, <1>3
  <2> QED BY <1>1, <1>2, <1>3, <1>6, <1>10, <2>1, <2>2 DEF WiresTyped
<1>12. ServiceTyped' /\ SendsTyped' /\ RestTyped'
  <2>1. CommandsQueued' = CommandsQueued
    BY <1>1 DEF CommandsQueued
  <2> QED BY <1>0, <1>1, <2>1 DEF ServiceTyped, SendsTyped, RestTyped
<1>13. \A id : Shows(staged, id)' => FoldBrings(e, id) \/ (Shows(staged, id) /\ ~FoldTakes(e, id))
  BY <1>7, <1>9
<1>14. \A to : RevertAt(staged, Len(staged), to)' =>
         IF e.type \in Reverts THEN to = RevertTold(e) ELSE RevertAt(staged, Len(staged), to)
  BY <1>7, <1>9
<1>15. bus # <<>> /\ e = bus[1] /\ bus' = Tail(bus)
  BY <1>1 DEF e
<1>16. Handles(e)
  BY <1>1, <1>3, <1>5, <1>6, <1>7, <1>9, <1>10, <1>13, <1>14, <1>15 DEF Handles, q
<1> QED
  BY <1>3, <1>9, <1>11, <1>12, <1>16 DEF Typed

\* The frame's updates are shown.
Flushes ==
  /\ staged' = <<>> /\ \A id \in Ids : id \in ToSet(rows') <=> Shows(staged, id)
  /\ RevertAt(staged, Len(staged), revert')
  /\ UNCHANGED <<outbox, sending, settling, log, inbox, reverted, turn, taken, reads, bus, up, late, gaveUp,
                 slipped, stale, withdrawn>>

\* The frame's updates are shown.
LEMMA FlushesParts ==
  ASSUME Typed, Flush
  PROVE  Typed' /\ Flushes
<1> DEFINE v == Flushed(staged)
<1>0. RowsTyped /\ ServiceTyped /\ SendsTyped /\ WiresTyped /\ RestTyped
  BY DEF Typed
<1>1. /\ rows' = v.rows /\ revert' = v.revert /\ staged' = <<>>
      /\ UNCHANGED <<outbox, sending, settling, log, inbox, reverted, turn, taken, reads, bus, up, late, next,
                     commands, mine, faults, gaveUp, slipped, stale, withdrawn>>
  BY DEF Flush, Show, serviceVars, userVars
<1>2. /\ v.rows \in Seq(Ids) /\ IsInjective(v.rows) /\ v.revert \in 0 .. MaxId
      /\ \A id \in Ids : id \in ToSet(v.rows) <=> Shows(staged, id)
      /\ RevertAt(staged, Len(staged), v.revert)
  BY <1>0, FlushedAll
<1> HIDE DEF v
<1>3. staged' \in Seq(Proper)
  BY <1>1, ShowsFlushed
<1>4. RowsTyped'
  BY <1>0, <1>1, <1>2, <1>3 DEF RowsTyped
<1>5. ServiceTyped' /\ SendsTyped' /\ WiresTyped' /\ RestTyped'
  <2>1. CommandsQueued' = CommandsQueued
    BY <1>1 DEF CommandsQueued
  <2> QED BY <1>0, <1>1, <2>1 DEF ServiceTyped, SendsTyped, WiresTyped, RestTyped
<1> QED
  BY <1>1, <1>2, <1>4, <1>5 DEF Typed, Flushes

\* The settle timer reads the newest page.
Settles ==
  /\ settling /\ ToSet(reads') = ToSet(reads) \cup {Read("tail")}
  /\ UNCHANGED <<rows, revert, staged, outbox, sending, log, inbox, reverted, turn, taken, bus, up, late, gaveUp,
                 slipped, stale, withdrawn>>

\* The settle timer reads the newest page.
LEMMA SettlesParts ==
  ASSUME Typed, Settle
  PROVE  Typed' /\ Settles
<1>0. RowsTyped /\ ServiceTyped /\ SendsTyped /\ WiresTyped /\ RestTyped
  BY DEF Typed
<1>1. /\ settling /\ settling' = FALSE /\ Ask(reads, <<"tail">>)
      /\ UNCHANGED <<rows, revert, staged, outbox, sending, log, inbox, reverted, turn, taken, bus, up, late, next,
                     commands, mine, faults, gaveUp, slipped, stale, withdrawn>>
  BY DEF Settle, serviceVars, userVars
<1>2. /\ reads' \in Seq(Reads) /\ Len(reads') <= MaxReads /\ \A r \in ToSet(reads') : IsInjective(r.page)
      /\ ToSet(reads') = ToSet(reads) \cup {Read("tail")}
  <2>1. "tail" \in Kinds /\ reads \in Seq(Reads) /\ \A r \in ToSet(reads) : IsInjective(r.page)
    BY <1>0 DEF Kinds, WiresTyped
  <2> QED BY <1>1, <2>1, AskOne
<1>3. WiresTyped'
  BY <1>0, <1>1, <1>2 DEF WiresTyped
<1>4. RowsTyped' /\ ServiceTyped' /\ SendsTyped' /\ RestTyped'
  <2>1. CommandsQueued' = CommandsQueued
    BY <1>1 DEF CommandsQueued
  <2> QED BY <1>0, <1>1, <2>1 DEF RowsTyped, ServiceTyped, SendsTyped, RestTyped
<1> QED
  BY <1>1, <1>2, <1>3, <1>4 DEF Typed, Settles

\* A read is answered by the service.
Serves(r, g) ==
  /\ r \in ToSet(reads) /\ r \in Reads /\ ~r.served
  /\ g.kind = r.kind /\ g.served /\ (r.kind = "tail" => g.page = Page)
  /\ (r.kind # "tail" => g.revert = reverted /\ g.page = r.page)
  /\ ToSet(reads') \subseteq ToSet(reads) \cup {g} /\ g \in ToSet(reads')
  /\ ToSet(reads) \subseteq ToSet(reads') \cup {r}
  /\ UNCHANGED <<rows, revert, staged, outbox, sending, settling, log, inbox, reverted, turn, taken, bus, up, late,
                 gaveUp, slipped, stale, withdrawn>>

\* The service answers a read.
LEMMA ServesParts ==
  ASSUME Typed, NEW i \in DOMAIN reads, ReadServed(i)
  PROVE  Typed' /\ \E r, g : Serves(r, g)
<1>0. RowsTyped /\ ServiceTyped /\ SendsTyped /\ WiresTyped /\ RestTyped
  BY DEF Typed
<1>1. UNCHANGED <<rows, revert, staged, outbox, sending, settling, log, inbox, reverted, turn, taken, bus, up, late,
                  next, commands, mine, faults, gaveUp, slipped, stale, withdrawn>>
  BY DEF ReadServed, clientVars, serviceVars, userVars
<1>2. /\ reads[i] \in ToSet(reads) /\ reads[i] \in Reads /\ ~reads[i].served
      /\ reads' \in Seq(Reads) /\ Len(reads') <= MaxReads /\ \A r \in ToSet(reads') : IsInjective(r.page)
      /\ Served(reads[i]).kind = reads[i].kind /\ Served(reads[i]).served
      /\ reads[i].kind = "tail" => Served(reads[i]).page = Page
      /\ reads[i].kind # "tail" => Served(reads[i]).revert = reverted /\ Served(reads[i]).page = reads[i].page
      /\ ToSet(reads') \subseteq ToSet(reads) \cup {Served(reads[i])} /\ Served(reads[i]) \in ToSet(reads')
      /\ ToSet(reads) \subseteq ToSet(reads') \cup {reads[i]}
  BY ServedParts
<1>3. Serves(reads[i], Served(reads[i]))
  BY <1>1, <1>2 DEF Serves
<1>4. WiresTyped'
  BY <1>0, <1>1, <1>2 DEF WiresTyped
<1>5. RowsTyped' /\ ServiceTyped' /\ SendsTyped' /\ RestTyped'
  <2>1. CommandsQueued' = CommandsQueued
    BY <1>1 DEF CommandsQueued
  <2> QED BY <1>0, <1>1, <2>1 DEF RowsTyped, ServiceTyped, SendsTyped, RestTyped
<1> QED
  BY <1>3, <1>4, <1>5 DEF Typed

\* A read comes back and is staged or, the list's, shown.
Applies(r) ==
  /\ r \in ToSet(reads) /\ r \in Reads /\ r.served
  /\ ToSet(reads) \subseteq ToSet(reads') \cup {r}
  /\ \/ /\ r.kind = "tail" /\ staged' = staged \o <<Merge(r.page)>>
        /\ Merge(r.page).op = "merge" /\ Merge(r.page).page = r.page
        /\ Merge(r.page) \in Proper /\ ToSet(staged') = ToSet(staged) \cup {Merge(r.page)}
        /\ \A id : Shows(staged, id)' => id \in ToSet(r.page) \/ Shows(staged, id)
        /\ \A to : RevertAt(staged, Len(staged), to)' => RevertAt(staged, Len(staged), to)
        /\ ToSet(reads') \subseteq ToSet(reads) /\ UNCHANGED <<rows, revert>>
     \/ /\ r.kind = "row" /\ staged' = staged \o <<SetRevert(r.revert)>>
        /\ SetRevert(r.revert).op = "revert" /\ SetRevert(r.revert) \in Proper
        /\ ToSet(staged') = ToSet(staged) \cup {SetRevert(r.revert)}
        /\ \A id : Shows(staged, id)' => Shows(staged, id)
        /\ \A to : RevertAt(staged, Len(staged), to)' => to = r.revert
        /\ ToSet(reads') \subseteq ToSet(reads) /\ UNCHANGED <<rows, revert>>
     \/ /\ r.kind = "list" /\ staged' = <<>> /\ revert' = r.revert
        /\ \A id \in Ids : id \in ToSet(rows') <=> Shows(staged, id)
        /\ ToSet(reads') \subseteq ToSet(reads) \cup {Read("tail")} /\ Read("tail") \in ToSet(reads')
  /\ UNCHANGED <<outbox, sending, settling, log, inbox, reverted, turn, taken, bus, up, late, gaveUp, slipped,
                 stale, withdrawn>>

\* One update is staged.
LEMMA StagedOne ==
  ASSUME RowsTyped, NEW u \in Proper, Stage(<<u>>), UNCHANGED <<rows, revert, outbox>>
  PROVE  /\ RowsTyped' /\ staged' = staged \o <<u>> /\ ToSet(staged') = ToSet(staged) \cup {u}
         /\ \A id : Shows(staged, id)' => Brings(u, id) \/ (Shows(staged, id) /\ ~Takes(u, id))
         /\ \A to : RevertAt(staged, Len(staged), to)' =>
              IF u.op = "revert" THEN to = u.id ELSE RevertAt(staged, Len(staged), to)
<1> DEFINE q == <<u>>
<1>1. q \in Seq(Proper) /\ ToSet(q) = {u} /\ DOMAIN q = {1} /\ q[1] = u
  BY OneSet
<1>2. staged' = staged \o q /\ outbox' \subseteq outbox
  BY DEF Stage
<1> HIDE DEF q
<1>3. /\ RowsTyped'
      /\ \A id : Shows(staged, id)' =>
           \/ \E w \in ToSet(q) : Brings(w, id)
           \/ Shows(staged, id) /\ \A w \in ToSet(q) : ~Takes(w, id)
      /\ \A to : RevertAt(staged, Len(staged), to)' =>
           \/ \E k \in DOMAIN q : /\ q[k].op = "revert" /\ q[k].id = to
                                  /\ \A j \in DOMAIN q : k < j => q[j].op # "revert"
           \/ RevertAt(staged, Len(staged), to) /\ \A j \in DOMAIN q : q[j].op # "revert"
      /\ ToSet(staged') = ToSet(staged) \cup ToSet(q)
  BY <1>1, <1>2, ShowsStaged
<1>4. \A id : Shows(staged, id)' => Brings(u, id) \/ (Shows(staged, id) /\ ~Takes(u, id))
  BY <1>1, <1>3
<1>5. \A to : RevertAt(staged, Len(staged), to)' =>
        IF u.op = "revert" THEN to = u.id ELSE RevertAt(staged, Len(staged), to)
  BY <1>1, <1>3
<1> QED
  BY <1>1, <1>2, <1>3, <1>4, <1>5 DEF q

\* A read comes back.
LEMMA AppliesParts ==
  ASSUME Typed, NEW i \in DOMAIN reads, ReadBack(i)
  PROVE  Typed' /\ Applies(reads[i])
<1> DEFINE r == reads[i]
           kept == RemoveAt(reads, i)
<1>0. RowsTyped /\ ServiceTyped /\ SendsTyped /\ WiresTyped /\ RestTyped
  BY DEF Typed
<1>1. /\ r.served
      /\ UNCHANGED <<outbox, sending, settling, log, inbox, reverted, turn, taken, bus, up, late, next, commands, mine,
                     faults, gaveUp, slipped, stale, withdrawn>>
      /\ \/ r.kind = "tail" /\ Stage(<<Merge(r.page)>>) /\ Ask(kept, <<>>) /\ UNCHANGED <<rows, revert>>
         \/ r.kind = "row" /\ Stage(<<SetRevert(r.revert)>>) /\ Ask(kept, <<>>) /\ UNCHANGED <<rows, revert>>
         \/ /\ r.kind = "list" /\ rows' = Flushed(Append(staged, SetRevert(r.revert))).rows
            /\ revert' = Flushed(Append(staged, SetRevert(r.revert))).revert /\ staged' = <<>>
            /\ Ask(kept, <<"tail">>)
  <2>1. r.kind \in {"tail", "row", "list"}
    BY KeptParts DEF Reads
  <2> QED BY <2>1 DEF ReadBack, Show, serviceVars, userVars
<1>2. /\ r \in ToSet(reads) /\ r \in Reads
      /\ kept \in Seq(Reads) /\ \A x \in ToSet(kept) : IsInjective(x.page)
      /\ ToSet(kept) \subseteq ToSet(reads) /\ ToSet(reads) \subseteq ToSet(kept) \cup {r}
  BY KeptParts
<1>3. r.page \in Seq(Ids) /\ IsInjective(r.page) /\ r.revert \in 0 .. MaxId
  BY <1>0, <1>2 DEF WiresTyped, Reads
<1>4. /\ Merge(r.page) \in Proper /\ Merge(r.page).op = "merge" /\ Merge(r.page).page = r.page
      /\ SetRevert(r.revert) \in Proper /\ SetRevert(r.revert).op = "revert" /\ SetRevert(r.revert).id = r.revert
  BY <1>3, UpdateIs
<1> HIDE DEF r, kept
<1>5. ServiceTyped' /\ SendsTyped' /\ RestTyped'
  <2>1. CommandsQueued' = CommandsQueued
    BY <1>1 DEF CommandsQueued
  <2> QED BY <1>0, <1>1, <2>1 DEF ServiceTyped, SendsTyped, RestTyped
<1>6. ASSUME reads' \in Seq(Reads), Len(reads') <= MaxReads, \A x \in ToSet(reads') : IsInjective(x.page)
      PROVE  WiresTyped'
  BY <1>0, <1>1, <1>6 DEF WiresTyped
<1>7. ASSUME Ask(kept, <<>>)
      PROVE  WiresTyped' /\ ToSet(reads') = ToSet(kept)
  BY <1>2, <1>6, <1>7, AskNone
<1>8. ASSUME r.kind = "tail", Stage(<<Merge(r.page)>>), Ask(kept, <<>>), UNCHANGED <<rows, revert>>
      PROVE  Typed' /\ Applies(r)
  <2> DEFINE u == Merge(r.page)
  <2>0. u \in Proper /\ u.op = "merge" /\ u.page = r.page /\ Stage(<<u>>)
    BY <1>4, <1>8
  <2> HIDE DEF u
  <2>1. /\ RowsTyped' /\ staged' = staged \o <<u>> /\ ToSet(staged') = ToSet(staged) \cup {u}
        /\ \A id : Shows(staged, id)' => Brings(u, id) \/ (Shows(staged, id) /\ ~Takes(u, id))
        /\ \A to : RevertAt(staged, Len(staged), to)' =>
             IF u.op = "revert" THEN to = u.id ELSE RevertAt(staged, Len(staged), to)
    BY <1>0, <1>1, <1>8, <2>0, StagedOne
  <2>2. \A id : Brings(u, id) => id \in ToSet(r.page)
    BY <2>0 DEF Brings
  <2>3. \A id : Shows(staged, id)' => id \in ToSet(r.page) \/ Shows(staged, id)
    BY <2>1, <2>2
  <2>4. \A to : RevertAt(staged, Len(staged), to)' => RevertAt(staged, Len(staged), to)
    BY <2>0, <2>1
  <2>5. WiresTyped' /\ ToSet(reads') = ToSet(kept)
    BY <1>7, <1>8
  <2>6. Typed'
    BY <1>5, <2>1, <2>5 DEF Typed
  <2> QED BY <1>1, <1>2, <1>8, <2>0, <2>1, <2>3, <2>4, <2>5, <2>6 DEF Applies, u
<1>9. ASSUME r.kind = "row", Stage(<<SetRevert(r.revert)>>), Ask(kept, <<>>), UNCHANGED <<rows, revert>>
      PROVE  Typed' /\ Applies(r)
  <2> DEFINE u == SetRevert(r.revert)
  <2>0. u \in Proper /\ u.op = "revert" /\ u.id = r.revert /\ Stage(<<u>>)
    BY <1>4, <1>9
  <2> HIDE DEF u
  <2>1. /\ RowsTyped' /\ staged' = staged \o <<u>> /\ ToSet(staged') = ToSet(staged) \cup {u}
        /\ \A id : Shows(staged, id)' => Brings(u, id) \/ (Shows(staged, id) /\ ~Takes(u, id))
        /\ \A to : RevertAt(staged, Len(staged), to)' =>
             IF u.op = "revert" THEN to = u.id ELSE RevertAt(staged, Len(staged), to)
    BY <1>0, <1>1, <1>9, <2>0, StagedOne
  <2>2. \A id : ~Brings(u, id)
    BY <2>0 DEF Brings
  <2>3. \A id : Shows(staged, id)' => Shows(staged, id)
    BY <2>1, <2>2
  <2>4. \A to : RevertAt(staged, Len(staged), to)' => to = r.revert
    BY <2>0, <2>1
  <2>5. WiresTyped' /\ ToSet(reads') = ToSet(kept)
    BY <1>7, <1>9
  <2>6. Typed'
    BY <1>5, <2>1, <2>5 DEF Typed
  <2> QED BY <1>1, <1>2, <1>9, <2>0, <2>1, <2>3, <2>4, <2>5, <2>6 DEF Applies, u
<1>10. ASSUME r.kind = "list", rows' = Flushed(Append(staged, SetRevert(r.revert))).rows,
              revert' = Flushed(Append(staged, SetRevert(r.revert))).revert, staged' = <<>>, Ask(kept, <<"tail">>)
       PROVE  Typed' /\ Applies(r)
  <2> DEFINE u == SetRevert(r.revert)
             v == Flushed(Append(staged, u))
  <2>0. u \in Proper /\ u.op = "revert" /\ u.id = r.revert /\ rows' = v.rows /\ revert' = v.revert
    BY <1>4, <1>10
  <2> HIDE DEF u
  <2>1. /\ v.rows \in Seq(Ids) /\ IsInjective(v.rows) /\ v.revert \in 0 .. MaxId /\ v.revert = u.id
        /\ \A id \in Ids : id \in ToSet(v.rows) <=> Shows(staged, id) /\ ~Takes(u, id)
    BY <1>0, <2>0, FlushedOne
  <2> HIDE DEF v
  <2>2. \A id : ~Takes(u, id)
    BY <2>0 DEF Takes
  <2>3. staged' \in Seq(Proper)
    BY <1>10, ShowsFlushed
  <2>4. RowsTyped'
    BY <1>0, <1>1, <2>0, <2>1, <2>3 DEF RowsTyped
  <2>5. /\ reads' \in Seq(Reads) /\ Len(reads') <= MaxReads /\ \A x \in ToSet(reads') : IsInjective(x.page)
        /\ ToSet(reads') = ToSet(kept) \cup {Read("tail")}
    <3>1. "tail" \in Kinds
      BY DEF Kinds
    <3> QED BY <1>2, <1>10, <3>1, AskOne
  <2>6. Typed'
    BY <1>5, <1>6, <2>4, <2>5 DEF Typed
  <2>7. ToSet(reads) \subseteq ToSet(reads') \cup {r} /\ ToSet(reads') \subseteq ToSet(reads) \cup {Read("tail")}
        /\ Read("tail") \in ToSet(reads')
    BY <1>2, <2>5
  <2> QED BY <1>1, <1>2, <1>10, <2>0, <2>1, <2>2, <2>6, <2>7 DEF Applies
<1> QED
  BY <1>1, <1>8, <1>9, <1>10 DEF r

\* A read fails.
Misses ==
  /\ stale' /\ ToSet(reads') \subseteq ToSet(reads) \cup {Read("tail")}
  /\ UNCHANGED <<rows, revert, staged, outbox, sending, settling, log, inbox, reverted, turn, taken, bus, up, late,
                 gaveUp, slipped, withdrawn>>

\* A read fails.
LEMMA MissesParts ==
  ASSUME Typed, NEW i \in DOMAIN reads, ReadFailed(i)
  PROVE  Typed' /\ Misses
<1> DEFINE kept == RemoveAt(reads, i)
<1>0. RowsTyped /\ ServiceTyped /\ SendsTyped /\ WiresTyped /\ RestTyped
  BY DEF Typed
<1>1. /\ Fault /\ stale' = TRUE
      /\ UNCHANGED <<rows, revert, staged, outbox, sending, settling, log, inbox, reverted, turn, taken, bus, up, late,
                     next, commands, mine, gaveUp, slipped, withdrawn>>
      /\ Ask(kept, <<"tail">>) \/ Ask(kept, <<>>)
  BY DEF ReadFailed, clientVars, serviceVars, userVars
<1>2. /\ kept \in Seq(Reads) /\ \A x \in ToSet(kept) : IsInjective(x.page) /\ ToSet(kept) \subseteq ToSet(reads)
  BY KeptParts
<1> HIDE DEF kept
<1>3. /\ reads' \in Seq(Reads) /\ Len(reads') <= MaxReads /\ \A x \in ToSet(reads') : IsInjective(x.page)
      /\ ToSet(reads') \subseteq ToSet(kept) \cup {Read("tail")}
  <2>1. "tail" \in Kinds
    BY DEF Kinds
  <2>2. CASE Ask(kept, <<"tail">>)
    BY <1>2, <2>1, <2>2, AskOne
  <2>3. CASE Ask(kept, <<>>)
    BY <1>2, <2>3, AskNone
  <2> QED BY <1>1, <2>2, <2>3
<1>4. WiresTyped'
  BY <1>0, <1>1, <1>3 DEF WiresTyped
<1>5. RestTyped'
  BY <1>0, <1>1, PromptsBounds DEF RestTyped, Fault
<1>6. RowsTyped' /\ ServiceTyped' /\ SendsTyped'
  <2>1. CommandsQueued' = CommandsQueued
    BY <1>1 DEF CommandsQueued
  <2> QED BY <1>0, <1>1, <2>1 DEF RowsTyped, ServiceTyped, SendsTyped
<1>7. ToSet(reads') \subseteq ToSet(reads) \cup {Read("tail")}
  BY <1>2, <1>3
<1> QED
  BY <1>1, <1>4, <1>5, <1>6, <1>7 DEF Typed, Misses

\* A prompt of the user, and a command.
Types(s) ==
  /\ s.kind = "prompt" /\ s.phase = "queued" /\ s.undo = (revert # 0) /\ s.id \in Ids
  /\ ~Has(s.id) /\ s.id \notin late /\ s.id \notin outbox /\ ~Shows(staged, s.id)
  /\ staged' = <<>> /\ outbox' = outbox \cup {s.id}
  /\ \A id \in Ids : id \in ToSet(rows') <=>
       id = s.id \/ (Shows(staged, id) /\ (revert = 0 \/ id < revert \/ id \in outbox))
  /\ IF revert = 0 THEN RevertAt(staged, Len(staged), revert') ELSE revert' = 0
  /\ ToSet(sending') = ToSet(sending) \cup {s}
  /\ sending' # <<>> /\ sending'[1] = IF sending = <<>> THEN s ELSE sending[1]
  /\ UNCHANGED <<settling, log, inbox, reverted, turn, taken, reads, bus, up, late, gaveUp, slipped, stale, withdrawn>>

Runs(s) ==
  /\ s.kind = "command" /\ s.phase = "queued" /\ s.undo = (revert # 0)
  /\ \/ revert = 0 /\ UNCHANGED <<rows, revert, staged>>
     \/ /\ revert # 0 /\ staged' = <<>> /\ revert' = 0
        /\ \A id \in Ids : id \in ToSet(rows') <=> Shows(staged, id) /\ (id < revert \/ id \in outbox)
  /\ ToSet(sending') = ToSet(sending) \cup {s}
  /\ sending' # <<>> /\ sending'[1] = IF sending = <<>> THEN s ELSE sending[1]
  /\ UNCHANGED <<outbox, settling, log, inbox, reverted, turn, taken, reads, bus, up, late, gaveUp, slipped, stale,
                 withdrawn>>

\* A prompt, with an id no one has used.
LEMMA TypesParts ==
  ASSUME InOrder, Typed, Known, Prompt
  PROVE  Typed' /\ \E s : Types(s)
<1> DEFINE s == Send("prompt", next, revert # 0)
<1>1. /\ Typed' /\ next \in Ids
      /\ \A id \in Ids : id \in ToSet(rows') <=>
           id = next \/ (Shows(staged, id) /\ (revert = 0 \/ id < revert \/ id \in outbox))
      /\ IF revert = 0 THEN RevertAt(staged, Len(staged), revert') ELSE revert' = 0
      /\ s.kind = "prompt" /\ s.id = next /\ s.phase = "queued" /\ s.undo = (revert # 0)
      /\ ToSet(sending') = ToSet(sending) \cup {s}
      /\ sending' # <<>> /\ sending'[1] = IF sending = <<>> THEN s ELSE sending[1]
  BY PromptParts
<1>2. ~Has(next) /\ next \notin late /\ next \notin outbox /\ ~Shows(staged, next)
  BY <1>1, Fresh
<1>3. /\ staged' = <<>> /\ outbox' = outbox \cup {next}
      /\ UNCHANGED <<settling, log, inbox, reverted, turn, taken, reads, bus, up, late, gaveUp, slipped, stale,
                     withdrawn>>
  BY DEF Prompt, serviceVars
<1> HIDE DEF s
<1>4. Types(s)
  BY <1>1, <1>2, <1>3 DEF Types
<1> QED
  BY <1>1, <1>4

\* A command.
LEMMA RunsParts ==
  ASSUME Typed, Command
  PROVE  Typed' /\ \E s : Runs(s)
<1> DEFINE s == Send("command", 0, revert # 0)
<1>1. /\ Typed'
      /\ \/ revert = 0 /\ UNCHANGED <<rows, revert, staged>>
         \/ /\ revert # 0 /\ staged' = <<>> /\ revert' = 0
            /\ \A id \in Ids : id \in ToSet(rows') <=> Shows(staged, id) /\ (id < revert \/ id \in outbox)
      /\ s.kind = "command" /\ s.phase = "queued" /\ s.undo = (revert # 0)
      /\ ToSet(sending') = ToSet(sending) \cup {s}
      /\ sending' # <<>> /\ sending'[1] = IF sending = <<>> THEN s ELSE sending[1]
  BY CommandParts
<1>2. UNCHANGED <<outbox, settling, log, inbox, reverted, turn, taken, reads, bus, up, late, gaveUp, slipped, stale,
                  withdrawn>>
  BY DEF Command, serviceVars
<1> HIDE DEF s
<1>3. Runs(s)
  BY <1>1, <1>2 DEF Runs
<1> QED
  BY <1>1, <1>3

\* A moved boundary is announced.
LEMMA BoundsTold ==
  ASSUME Typed, NEW e \in Events, Bounds(e)
  PROVE  Told(e, {})
<1>1. WiresTyped /\ RestTyped /\ {} \in SUBSET Ids /\ Emit(<<e>>, {}) /\ up' = up /\ e.type \in {"staged", "cleared"}
  BY DEF Typed, Bounds
<1>2. /\ slipped \subseteq slipped'
      /\ up => bus' = bus \o <<e>> /\ ToSet(bus') = ToSet(bus) \cup {e} /\ {} \cap InFlight \subseteq slipped'
      /\ ~up => bus' = bus /\ bus = <<>> /\ e.about \subseteq slipped'
  BY <1>1, EmitOne
<1> QED
  BY <1>1, <1>2 DEF Told

-----------------------------------------------------------------------------
(* What is known of the rows *)

\* What a flush shows is the service's or waits, and the prompts on their way out stay.
LEMMA ShownKnown ==
  ASSUME Typed, Known
  PROVE  /\ \A id \in Ids : Shows(staged, id) => Has(id) \/ Waits(id)
         /\ \A id \in outbox : id \in Ids /\ Shows(staged, id)
<1>0. staged \in Seq(Proper) /\ outbox \subseteq Ids /\ Sourced /\ OutboxKept
  BY DEF Typed, RowsTyped, Known
<1>1. \A id \in Ids : Shows(staged, id) => Has(id) \/ Waits(id)
  BY <1>0, ShowsFrom DEF Sourced
<1>2. ASSUME NEW id \in outbox PROVE Shows(staged, id)
  <2>1. id \in ToSet(rows) /\ \A u \in ToSet(staged) : ~Takes(u, id)
    BY <1>0 DEF OutboxKept, Takes
  <2> QED BY <1>0, <2>1, ShowsStays
<1> QED
  BY <1>0, <1>1, <1>2

\* With nothing staged, nothing staged brings or takes a row.
LEMMA NothingStaged ==
  ASSUME staged' = <<>>
  PROVE  /\ (\A u \in ToSet(staged), id \in Ids : Brings(u, id) => Has(id))'
         /\ (\A u \in ToSet(staged) : u.op = "remove" => u.id \notin outbox)'
<1>1. ToSet(staged') = {}
  BY ShowsFlushed
<1> QED
  BY <1>1

\* A new prompt is on screen, and waits to be sent.
LEMMA TypesKnown ==
  ASSUME Typed, Known, Typed', NEW s, Types(s)
  PROVE  Known'
<1>0. Unsent /\ Sourced /\ OutboxKept /\ EchoComes
  BY DEF Known
<1>1. \A id \in Ids : id \in ToSet(rows') <=>
        id = s.id \/ (Shows(staged, id) /\ (revert = 0 \/ id < revert \/ id \in outbox))
  BY DEF Types
<1>2. /\ \A id : Has(id)' <=> Has(id)
      /\ \A id : Waits(id)' <=> Waits(id) \/ id = s.id
      /\ s.id \in Ids /\ outbox' = outbox \cup {s.id}
  BY DEF Types, Has, Waits
<1>3. Unsent'
  BY <1>0, <1>2 DEF Unsent, Types
<1>4. /\ \A id \in Ids : Shows(staged, id) => Has(id) \/ Waits(id)
      /\ \A id \in outbox : id \in Ids /\ Shows(staged, id)
  BY ShownKnown
<1>5. ToSet(rows') \subseteq Ids
  BY SetTyped DEF Typed, RowsTyped
<1>6. Sourced'
  <2>1. (\A id \in ToSet(rows) \cup outbox : Has(id) \/ Waits(id))'
    BY <1>1, <1>2, <1>4, <1>5
  <2>2. staged' = <<>> /\ UNCHANGED <<reads, bus, taken>>
    BY DEF Types
  <2> QED BY <1>0, <2>1, <2>2, NothingStaged DEF Sourced
<1>7. OutboxKept'
  <2>1. (outbox \subseteq ToSet(rows))'
    BY <1>1, <1>2, <1>4
  <2>2. staged' = <<>>
    BY DEF Types
  <2> QED BY <2>1, <2>2, NothingStaged DEF OutboxKept
<1>8. EchoComes'
  BY <1>0, <1>2 DEF EchoComes, Types
<1> QED
  BY <1>3, <1>6, <1>7, <1>8 DEF Known

\* The rows here are shown anew, and nothing is staged; no message is new to the service.
LEMMA FlushKnown ==
  ASSUME Typed, Known, Typed', Unsent', staged' = <<>>, UNCHANGED <<taken, bus, slipped>>, outbox' \subseteq outbox,
         \A id \in Ids : id \in ToSet(rows') => Shows(staged, id),
         \A id \in outbox' : Shows(staged, id) => id \in ToSet(rows'),
         \A id \in ToSet(rows') \cup outbox' : Waits(id) => Waits(id)' \/ Has(id),
         \A r \in ToSet(reads') : r \in ToSet(reads) \/ ToSet(r.page) = {}
  PROVE  Known'
<1>0. Sourced /\ OutboxKept /\ EchoComes
  BY DEF Known
<1>1. /\ \A id : Has(id)' <=> Has(id)
  BY DEF Has
<1>2. /\ \A id \in Ids : Shows(staged, id) => Has(id) \/ Waits(id)
      /\ \A id \in outbox : id \in Ids /\ Shows(staged, id)
  BY ShownKnown
<1>3. ToSet(rows') \subseteq Ids
  BY SetTyped DEF Typed, RowsTyped
<1>4. Sourced'
  <2>1. (\A id \in ToSet(rows) \cup outbox : Has(id) \/ Waits(id))'
    BY <1>0, <1>1, <1>2, <1>3 DEF Sourced
  <2>2. (\A r \in ToSet(reads) : ToSet(r.page) \subseteq ToSet(taken))'
    BY <1>0 DEF Sourced
  <2> QED BY <1>0, <2>1, <2>2, NothingStaged DEF Sourced
<1>5. OutboxKept'
  <2>1. (outbox \subseteq ToSet(rows))'
    BY <1>2
  <2> QED BY <2>1, NothingStaged DEF OutboxKept
<1>6. EchoComes'
  BY <1>0, <1>1 DEF EchoComes
<1> QED
  BY <1>4, <1>5, <1>6 DEF Known

\* Nothing the client shows or sends changes, and what comes is less, or is known.
LEMMA RestKnown ==
  ASSUME Typed, Known, Unsent', UNCHANGED <<rows, taken>>, outbox' \subseteq outbox, slipped \subseteq slipped',
         \A id \in ToSet(rows) \cup outbox : Waits(id) => Waits(id)' \/ Has(id),
         \A u \in ToSet(staged') : \/ u \in ToSet(staged)
                                   \/ /\ \A id \in Ids : Brings(u, id) => Has(id)
                                      /\ u.op = "remove" => u.id \notin outbox',
         \A r \in ToSet(reads') : r \in ToSet(reads) \/ ToSet(r.page) \subseteq ToSet(taken),
         \A e \in ToSet(bus') : \/ e \in ToSet(bus)
                                \/ /\ e.about \subseteq ToSet(taken)
                                   /\ e.type \in {"enqueued", "cancelled"} => e.about = {e.id},
         \A e \in ToSet(bus) : e \in ToSet(bus') \/ (\A id : Enqueues(e, id) => id \notin outbox' \/ id \in slipped')
  PROVE  Known'
<1>0. Sourced /\ OutboxKept /\ EchoComes
  BY DEF Known
<1>1. /\ \A id : Has(id)' <=> Has(id)
  BY DEF Has
<1>2. Sourced'
  <2>1. (\A id \in ToSet(rows) \cup outbox : Has(id) \/ Waits(id))'
    BY <1>0, <1>1 DEF Sourced
  <2>2. (\A u \in ToSet(staged), id \in Ids : Brings(u, id) => Has(id))'
    BY <1>0, <1>1 DEF Sourced
  <2>3. (\A r \in ToSet(reads) : ToSet(r.page) \subseteq ToSet(taken))'
    BY <1>0 DEF Sourced
  <2>4. (\A e \in ToSet(bus) : /\ e.about \subseteq ToSet(taken)
                               /\ e.type \in {"enqueued", "cancelled"} => e.about = {e.id})'
    BY <1>0 DEF Sourced
  <2> QED BY <2>1, <2>2, <2>3, <2>4 DEF Sourced
<1>3. OutboxKept'
  BY <1>0 DEF OutboxKept
<1>4. EchoComes'
  <2> SUFFICES ASSUME NEW id \in outbox', Has(id) PROVE id \in slipped' \/ \E e \in ToSet(bus') : Enqueues(e, id)
    BY <1>1 DEF EchoComes
  <2> QED BY <1>0 DEF EchoComes
<1> QED
  BY <1>2, <1>3, <1>4 DEF Known

\* A prompt that waits still does while the chain only shrinks and nothing is taken.
LEMMA UnsentKept ==
  ASSUME Unsent, UNCHANGED <<taken, late>>, outbox \subseteq outbox', ToSet(sending') \subseteq ToSet(sending)
  PROVE  Unsent'
BY DEF Unsent, Has

\* A command has no row.
LEMMA RunsKnown ==
  ASSUME Typed, Known, Typed', NEW s, Runs(s)
  PROVE  Known'
<1>1. Unsent'
  BY DEF Known, Unsent, Has, Runs
<1>2. \A id : Waits(id) => Waits(id)'
  BY DEF Waits, Runs
<1>3. CASE revert = 0 /\ UNCHANGED <<rows, revert, staged>>
  BY <1>1, <1>2, <1>3, RestKnown DEF Runs
<1>4. CASE /\ revert # 0 /\ staged' = <<>> /\ revert' = 0
           /\ \A id \in Ids : id \in ToSet(rows') <=> Shows(staged, id) /\ (id < revert \/ id \in outbox)
  <2>1. outbox \subseteq Ids
    BY DEF Typed, RowsTyped
  <2> QED BY <1>1, <1>2, <1>4, <2>1, FlushKnown DEF Runs
<1> QED
  BY <1>3, <1>4 DEF Runs

\* A revert has no row.
LEMMA AsksKnown ==
  ASSUME Typed, Known, Typed', NEW s \in Sends, Asks(s), ToSet(sending') = ToSet(sending) \cup {s}
  PROVE  Known'
<1>1. Unsent'
  BY DEF Known, Unsent, Has, Asks, serviceVars
<1>2. \A id : Waits(id) => Waits(id)'
  BY DEF Waits
<1> QED
  BY <1>1, <1>2, RestKnown DEF Asks, serviceVars

\* Input taken is no longer waiting, and its echo is on its way or has slipped.
LEMMA AdmitsKnown ==
  ASSUME Typed, Known, Typed', NEW id \in Ids, Admits(id)
  PROVE  Known'
<1>0. /\ Unsent /\ Sourced /\ OutboxKept /\ EchoComes /\ ~Has(id) /\ Admit(id) /\ id \notin late' /\ late' \subseteq late
      /\ UNCHANGED <<rows, revert, staged, outbox, settling, turn, reads, up, gaveUp, withdrawn>>
      /\ ToSet(log) \subseteq ToSet(taken)
  BY DEF Known, Admits, Typed, ServiceTyped
<1>1. /\ ToSet(taken') = ToSet(taken) \cup {id} /\ Going \subseteq ToSet(log)
      /\ CommitEvent.type = "committed" /\ CommitEvent.about = Going
      /\ EnqueuedEvent(id).type = "enqueued" /\ EnqueuedEvent(id).id = id /\ EnqueuedEvent(id).about = {id}
      /\ slipped \subseteq slipped'
      /\ up => ToSet(bus') = ToSet(bus) \cup {EnqueuedEvent(id)} \cup (IF reverted = 0 THEN {} ELSE {CommitEvent})
      /\ ~up => bus' = bus /\ id \in slipped'
  BY <1>0, AdmitParts
<1>2. \A x : Has(x)' <=> Has(x) \/ x = id
  BY <1>1 DEF Has
<1>3. Unsent'
  <2>1. CASE sending' = sending /\ \A s \in ToSet(sending) : s.kind = "prompt" /\ s.phase = "queued" => s.id # id
    BY <1>0, <1>2, <2>1 DEF Unsent
  <2>2. CASE /\ Reaches /\ sending[1].kind \in {"prompt", "command"} /\ (sending[1].kind = "prompt" => sending[1].id = id)
             /\ \A s \in ToSet(Tail(sending)) : s.kind = "prompt" => s.id # id
    BY <1>0, <1>2, <2>2 DEF Unsent, Reaches
  <2> QED BY <2>1, <2>2 DEF Admits
<1>4. \A x : Waits(x) => Waits(x)'
  BY DEF Admits, Reaches, Waits
<1>5. Sourced'
  <2>1. (\A x \in ToSet(rows) \cup outbox : Has(x) \/ Waits(x))'
    BY <1>0, <1>2, <1>4 DEF Sourced
  <2>2. (\A u \in ToSet(staged), x \in Ids : Brings(u, x) => Has(x))'
    BY <1>0, <1>2 DEF Sourced
  <2>3. (\A r \in ToSet(reads) : ToSet(r.page) \subseteq ToSet(taken))'
    BY <1>0, <1>1 DEF Sourced
  <2>4. (\A e \in ToSet(bus) : /\ e.about \subseteq ToSet(taken)
                               /\ e.type \in {"enqueued", "cancelled"} => e.about = {e.id})'
    BY <1>0, <1>1 DEF Sourced
  <2> QED BY <2>1, <2>2, <2>3, <2>4 DEF Sourced
<1>6. OutboxKept'
  BY <1>0 DEF OutboxKept
<1>7. EchoComes'
  BY <1>0, <1>1, <1>2 DEF EchoComes, Enqueues
<1> QED
  BY <1>3, <1>5, <1>6, <1>7 DEF Known

\* An event about messages the service took brings nothing unknown.
LEMMA ToldKnown ==
  ASSUME Typed, Known, Unsent', UNCHANGED <<rows, staged, outbox, reads, taken>>, NEW e \in Events, NEW gone, Told(e, gone),
         e.about \subseteq ToSet(taken), e.type \in {"enqueued", "cancelled"} => e.about = {e.id},
         \A id : Waits(id) => Waits(id)' \/ Has(id)
  PROVE  Known'
<1>1. /\ slipped \subseteq slipped' /\ ToSet(bus) \subseteq ToSet(bus') /\ ToSet(bus') \subseteq ToSet(bus) \cup {e}
  BY DEF Told
<1> QED
  BY <1>1, RestKnown

\* A moved boundary brings no row.
LEMMA BoundsKnown ==
  ASSUME Typed, Known, NEW e \in Events, Bounds(e)
  PROVE  Known'
<1>1. Told(e, {})
  BY BoundsTold
<1>2. Unsent'
  BY DEF Known, Unsent, Has, Bounds, Reaches
<1>3. \A id : Waits(id) => Waits(id)'
  BY DEF Bounds, Reaches, Waits
<1>4. UNCHANGED <<rows, staged, outbox, reads, taken>> /\ e.about = {} /\ e.type \in {"staged", "cleared"}
  BY DEF Bounds
<1> QED
  BY <1>1, <1>2, <1>3, <1>4, ToldKnown

\* Nor does a delivery, a cancel or the end of a turn.
LEMMA ServiceKnown ==
  ASSUME Typed, Known, Ends \/ (\E id \in Ids : Cancels(id) \/ Delivers(id))
  PROVE  Known'
<1>0. ToSet(log) \cup ToSet(inbox) \subseteq ToSet(taken) /\ Unsent
  BY DEF Typed, ServiceTyped, Known
<1>1. CASE Ends
  <2>1. Unsent' /\ \A id : Waits(id) => Waits(id)'
    BY <1>0, <1>1, UnsentKept DEF Ends, Waits
  <2> QED BY <1>1, <2>1, ToldKnown DEF Ends, Told
<1>2. ASSUME NEW id \in Ids, Cancels(id) PROVE Known'
  <2>1. Unsent' /\ \A x : Waits(x) => Waits(x)'
    BY <1>0, <1>2, UnsentKept DEF Cancels, Waits
  <2> DEFINE e == Event("cancelled", id, {id})
  <2>2. /\ UNCHANGED <<rows, staged, outbox, reads, taken>> /\ Told(e, {id}) /\ e \in Events
        /\ e.about \subseteq ToSet(taken) /\ (e.type \in {"enqueued", "cancelled"} => e.about = {e.id})
    BY <1>0, <1>2 DEF Cancels, Told
  <2> HIDE DEF e
  <2> QED BY <2>1, <2>2, ToldKnown
<1>3. ASSUME NEW id \in Ids, Delivers(id) PROVE Known'
  <2>1. Unsent' /\ \A x : Waits(x) => Waits(x)'
    BY <1>0, <1>3, UnsentKept DEF Delivers, Waits
  <2> DEFINE e == Event("delivered", id, {id})
  <2>2. /\ UNCHANGED <<rows, staged, outbox, reads, taken>> /\ Told(e, {}) /\ e \in Events
        /\ e.about \subseteq ToSet(taken) /\ (e.type \in {"enqueued", "cancelled"} => e.about = {e.id})
    BY <1>0, <1>3 DEF Delivers, Told
  <2> HIDE DEF e
  <2> QED BY <2>1, <2>2, ToldKnown
<1> QED
  BY <1>1, <1>2, <1>3

\* An answer shows nothing unknown.
LEMMA AnswersKnown ==
  ASSUME Typed, Known, Typed', Answers
  PROVE  Known'
<1>1. Unsent'
  BY UnsentKept DEF Known, Answers
<1>2. \A id : Waits(id) => Waits(id)' \/ Has(id)
  <2> SUFFICES ASSUME NEW s \in ToSet(sending), s.kind = "prompt", s \notin ToSet(sending') PROVE Has(s.id)
    BY DEF Waits
  <2>1. s = sending[1] /\ s.phase # "queued"
    BY DEF Answers
  <2> QED BY <2>1 DEF Known, Unsent
<1>3. CASE UNCHANGED <<rows, revert, staged>>
  BY <1>1, <1>2, <1>3, RestKnown DEF Answers
<1>4. CASE staged' = <<>> /\ \A id \in Ids : id \in ToSet(rows') <=> Shows(staged, id)
  <2>1. outbox \subseteq Ids
    BY DEF Typed, RowsTyped
  <2> QED BY <1>1, <1>2, <1>4, <2>1, FlushKnown DEF Answers
<1> QED
  BY <1>3, <1>4 DEF Answers

\* A failed send's row leaves the screen and the outbox together.
LEMMA FailsKnown ==
  ASSUME InOrder, Typed, Known, Typed', Fails
  PROVE  Known'
<1> DEFINE s == sending[1]
<1>0. Unsent /\ s \in ToSet(sending) /\ outbox \subseteq Ids
  BY DEF Known, Fails, Typed, RowsTyped
<1>1. \A x \in ToSet(sending') : x.phase = "queued" /\ (x.kind = "prompt" /\ s.kind = "prompt" => x.id # s.id)
  BY RestQueued DEF Fails
<1>2. ToSet(sending) = ToSet(sending') \cup {s}
  BY DEF Fails
<1>3. Unsent'
  <2>1. \A id : Has(id)' <=> Has(id)
    BY DEF Has, Fails
  <2>2. \A x \in ToSet(sending') : x.kind = "prompt" => x.id \in outbox' /\ ~Has(x.id) /\ x.id \notin late'
    BY <1>0, <1>1, <1>2 DEF Unsent, Fails
  <2>3. \A id \in late' : ~Has(id)
    BY <1>0 DEF Unsent, Fails
  <2> QED BY <1>1, <2>1, <2>2, <2>3 DEF Unsent
<1>4. ASSUME NEW id, Waits(id), ~Waits(id)' PROVE s.kind = "prompt" /\ id = s.id
  BY <1>2, <1>4 DEF Waits
<1>6. /\ ToSet(Read("row").page) = {} /\ ToSet(Read("tail").page) = {}
  BY ReadIs DEF Kinds
<1>7. \A r \in ToSet(reads') : r \in ToSet(reads) \/ ToSet(r.page) = {}
  BY <1>6 DEF Fails
<1>8. CASE /\ s.kind = "prompt" /\ s.id \in outbox
           /\ outbox' = outbox \ {s.id} /\ staged' = <<>>
           /\ \A id \in Ids : id \in ToSet(rows') <=> Shows(staged, id) /\ id # s.id
  <2>1. s.id \notin ToSet(rows')
    BY <1>0, <1>8
  <2>2. \A id \in ToSet(rows') \cup outbox' : Waits(id) => Waits(id)' \/ Has(id)
    BY <1>4, <1>8, <2>1
  <2>3. UNCHANGED <<taken, bus, slipped>>
    BY DEF Fails
  <2> QED BY <1>0, <1>3, <1>7, <1>8, <2>2, <2>3, FlushKnown
<1>9. CASE ~(s.kind = "prompt" /\ s.id \in outbox) /\ UNCHANGED <<outbox, rows, revert, staged>>
  <2>1. s.kind = "prompt" => Has(s.id)
    BY <1>0, <1>9 DEF Unsent
  <2>2. \A id \in ToSet(rows) \cup outbox : Waits(id) => Waits(id)' \/ Has(id)
    BY <1>4, <2>1
  <2>3. UNCHANGED <<taken, bus, slipped>>
    BY DEF Fails
  <2> QED BY <1>3, <1>7, <1>9, <2>2, <2>3, RestKnown
<1> QED
  BY <1>8, <1>9 DEF Fails

\* An event brings only rows of messages the service took.
LEMMA HandlesKnown ==
  ASSUME Typed, Known, NEW e \in Events, Handles(e)
  PROVE  Known'
<1>0. Unsent /\ Sourced
  BY DEF Known
<1>1. e \in ToSet(bus) /\ ToSet(bus) = ToSet(bus') \cup {e}
  BY DEF Handles
<1>2. e.about \subseteq ToSet(taken) /\ (e.type \in {"enqueued", "cancelled"} => e.about = {e.id})
  BY <1>0, <1>1 DEF Sourced
<1>3. e.type \in {"enqueued", "cancelled"} => Has(e.id)
  BY <1>2 DEF Has
<1>4. Unsent'
  BY <1>0, <1>3 DEF Unsent, Has, Handles
<1>5. e.type \in {"enqueued", "delivered", "cancelled", "committed"} => e.id \in Ids
  BY <1>1 DEF Typed, WiresTyped
<1>6. \A u \in ToSet(Folded(e)) : /\ \A id : Brings(u, id) => FoldBrings(e, id)
                                  /\ u.op = "remove" => e.type = "cancelled" /\ u.id = e.id
  BY <1>5, FoldedIs
<1>7. \A u \in ToSet(staged') : \/ u \in ToSet(staged)
                                \/ /\ \A id \in Ids : Brings(u, id) => Has(id)
                                   /\ u.op = "remove" => u.id \notin outbox'
  BY <1>3, <1>6 DEF Handles, FoldBrings
<1>8. ToSet(Read("row").page) = {} /\ ToSet(Read("list").page) = {}
  BY ReadIs DEF Kinds
<1>9. \A r \in ToSet(reads') : r \in ToSet(reads) \/ ToSet(r.page) \subseteq ToSet(taken)
  BY <1>8 DEF Handles
<1>10. \A id : Waits(id) => Waits(id)'
  BY DEF Waits, Handles
<1>11. \A f \in ToSet(bus) : f \in ToSet(bus') \/ (\A id : Enqueues(f, id) => id \notin outbox' \/ id \in slipped')
  BY <1>1 DEF Handles, Enqueues
<1>12. outbox' \subseteq outbox
  BY DEF Handles
<1> QED
  BY <1>1, <1>4, <1>7, <1>9, <1>10, <1>11, <1>12, RestKnown DEF Handles

\* A flush, a read or the stream brings no other row, and takes none on its way out.
LEMMA ClientKnown ==
  ASSUME Typed, Known, Typed',
         Flushes \/ Settles \/ Misses \/ Loses \/ Connects \/ (\E r, g : Serves(r, g)) \/ \E r : Applies(r)
  PROVE  Known'
<1>0. Unsent /\ Sourced /\ outbox \subseteq Ids /\ ServiceTyped
  BY DEF Known, Typed, RowsTyped
<1>1. Unsent'
  BY <1>0, UnsentKept DEF Flushes, Settles, Misses, Loses, Connects, Serves, Applies
<1>2. \A id : Waits(id) => Waits(id)'
  BY DEF Waits, Flushes, Settles, Misses, Loses, Connects, Serves, Applies
<1>3. \A kind \in Kinds : ToSet(Read(kind).page) = {}
  BY ReadIs
<1>4. CASE Flushes
  BY <1>0, <1>1, <1>2, <1>4, FlushKnown DEF Flushes
<1>5. CASE Settles
  <2>1. \A r \in ToSet(reads') : r \in ToSet(reads) \/ ToSet(r.page) \subseteq ToSet(taken)
    BY <1>3, <1>5 DEF Settles, Kinds
  <2> QED BY <1>1, <1>2, <1>5, <2>1, RestKnown DEF Settles
<1>6. CASE Misses
  <2>1. \A r \in ToSet(reads') : r \in ToSet(reads) \/ ToSet(r.page) \subseteq ToSet(taken)
    BY <1>3, <1>6 DEF Misses, Kinds
  <2> QED BY <1>1, <1>2, <1>6, <2>1, RestKnown DEF Misses
<1>7. CASE Loses
  <2>1. ToSet(bus') = {}
    BY <1>7, EmptySet DEF Loses
  <2>2. \A e \in ToSet(bus) : \A id : Enqueues(e, id) => id \in slipped'
    BY <1>0, <1>7 DEF Loses, Enqueues, Sourced
  <2> QED BY <1>1, <1>2, <1>7, <2>1, <2>2, RestKnown DEF Loses
<1>8. CASE Connects
  <2>1. ToSet(bus) = {}
    BY <1>8, EmptySet DEF Connects
  <2>2. \A e \in ToSet(bus') : e.about = {} /\ e.type = "connected"
    BY <1>8 DEF Connects
  <2> QED BY <1>1, <1>2, <1>8, <2>1, <2>2, RestKnown DEF Connects
<1>9. ASSUME NEW r, NEW g, Serves(r, g) PROVE Known'
  <2>1. ToSet(Page) \subseteq ToSet(taken)
    BY <1>0, PageIs DEF ServiceTyped
  <2>2. \A x \in ToSet(reads') : x \in ToSet(reads) \/ ToSet(x.page) \subseteq ToSet(taken)
    BY <1>0, <1>9, <2>1 DEF Serves, Sourced
  <2> QED BY <1>1, <1>2, <1>9, <2>2, RestKnown DEF Serves
<1>10. ASSUME NEW r, Applies(r) PROVE Known'
  <2>1. ToSet(r.page) \subseteq ToSet(taken)
    BY <1>0, <1>10 DEF Applies, Sourced
  <2>2. \A x \in ToSet(reads') : x \in ToSet(reads) \/ ToSet(x.page) = {}
    BY <1>3, <1>10 DEF Applies, Kinds
  <2>3. CASE staged' = <<>>
    <3>1. r.kind = "list" => \A id \in Ids : id \in ToSet(rows') <=> Shows(staged, id)
      BY <1>10 DEF Applies
    <3>2. CASE \A id \in Ids : id \in ToSet(rows') <=> Shows(staged, id)
      BY <1>0, <1>1, <1>2, <1>10, <2>2, <2>3, <3>2, FlushKnown DEF Applies
    <3>3. CASE r.kind # "list"
      <4>1. ToSet(staged') = {} /\ ToSet(staged') # {}
        BY <1>10, <2>3, <3>3, EmptySet DEF Applies
      <4> QED BY <4>1
    <3> QED BY <3>1, <3>2, <3>3
  <2>4. CASE staged' # <<>>
    <3>1. \A u \in ToSet(staged') : \/ u \in ToSet(staged)
                                    \/ /\ \A id \in Ids : Brings(u, id) => Has(id)
                                       /\ u.op # "remove"
      BY <1>10, <2>1, <2>4 DEF Applies, Brings, Has
    <3>2. UNCHANGED rows
      BY <1>10, <2>4 DEF Applies
    <3> QED BY <1>1, <1>2, <1>10, <2>2, <3>1, <3>2, RestKnown DEF Applies
  <2> QED BY <2>3, <2>4
<1> QED
  BY <1>4, <1>5, <1>6, <1>7, <1>8, <1>9, <1>10

-----------------------------------------------------------------------------
(* What the service dropped *)

\* What is shown depends on the rows, the updates and the outbox.
LEMMA ShowsSame ==
  ASSUME UNCHANGED <<rows, staged, outbox>>
  PROVE  \A id : Shows(staged, id)' <=> Shows(staged, id)
<1> SUFFICES ASSUME NEW id PROVE Shows(staged, id)' <=> Shows(staged, id)
  OBVIOUS
<1> QED
  BY DEF Shows, ShowsAt, Comes, Stays, Takes

\* The revert shown depends on the revert and the updates.
LEMMA RevertSame ==
  ASSUME UNCHANGED <<revert, staged>>
  PROVE  \A to : RevertAt(staged, Len(staged), to)' <=> RevertAt(staged, Len(staged), to)
BY DEF RevertAt, Sets

\* Echoes still come first when more is announced.
LEMMA EchoFirstMore ==
  ASSUME NEW b \in Seq(Events), NEW q \in Seq(Events), EchoFirst(b), EchoFirst(q),
         \A e \in ToSet(b), f \in ToSet(q), id \in Ids : ~(Leaves(e, id) /\ Enqueues(f, id))
  PROVE  EchoFirst(b \o q)
<1> DEFINE c == b \o q
           n == Len(b)
           m == Len(q)
<1>1. /\ n \in Nat /\ m \in Nat /\ DOMAIN b = 1 .. n /\ DOMAIN q = 1 .. m /\ DOMAIN c = 1 .. n + m
      /\ \A i \in 1 .. n : c[i] = b[i] /\ b[i] \in ToSet(b)
      /\ \A i \in DOMAIN c : i \in 1 .. n \/ (i - n \in 1 .. m /\ c[i] = q[i - n] /\ q[i - n] \in ToSet(q))
  <2>1. /\ n \in Nat /\ m \in Nat /\ DOMAIN b = 1 .. n /\ DOMAIN q = 1 .. m /\ DOMAIN c = 1 .. n + m
        /\ \A i \in 1 .. n : c[i] = b[i]
        /\ \A i \in DOMAIN c : i \in 1 .. n \/ (i - n \in 1 .. m /\ c[i] = q[i - n])
    BY ConcatParts
  <2> QED BY <2>1 DEF ToSet
<1> HIDE DEF c, n, m
<1> SUFFICES ASSUME NEW j \in DOMAIN c, NEW k \in DOMAIN c, NEW id \in Ids, Enqueues(c[j], id), Leaves(c[k], id)
             PROVE  j < k
  BY DEF EchoFirst, c
<1>2. j \in Int /\ k \in Int
  BY <1>1
<1>3. CASE j \in 1 .. n /\ k \in 1 .. n
  BY <1>1, <1>3 DEF EchoFirst
<1>4. CASE j \notin 1 .. n /\ k \in 1 .. n
  BY <1>1, <1>4
<1>5. CASE j \in 1 .. n /\ k \notin 1 .. n
  BY <1>1, <1>2, <1>5
<1>6. CASE j \notin 1 .. n /\ k \notin 1 .. n
  <2>1. /\ j - n \in 1 .. m /\ c[j] = q[j - n] /\ k - n \in 1 .. m /\ c[k] = q[k - n]
    BY <1>1, <1>6
  <2>2. j - n < k - n
    BY <1>1, <2>1 DEF EchoFirst
  <2> QED BY <1>1, <1>2, <2>2
<1> QED
  BY <1>3, <1>4, <1>5, <1>6

\* And after the first event is handled, whose message has no echo to come.
LEMMA EchoFirstTail ==
  ASSUME NEW b \in Seq(Events), b # <<>>, EchoFirst(b)
  PROVE  /\ EchoFirst(Tail(b))
         /\ \A id \in Ids : Leaves(b[1], id) => \A e \in ToSet(b) : ~Enqueues(e, id)
<1> DEFINE t == Tail(b)
<1>1. /\ 1 \in DOMAIN b /\ Len(b) \in Nat /\ DOMAIN b = 1 .. Len(b) /\ DOMAIN t = 1 .. Len(b) - 1
      /\ \A k \in DOMAIN t : t[k] = b[k + 1] /\ k + 1 \in DOMAIN b
  BY TailParts
<1> HIDE DEF t
<1>2. EchoFirst(t)
  <2> SUFFICES ASSUME NEW j \in DOMAIN t, NEW k \in DOMAIN t, NEW id \in Ids, Enqueues(t[j], id), Leaves(t[k], id)
               PROVE  j < k
    BY DEF EchoFirst
  <2>1. j + 1 < k + 1
    BY <1>1 DEF EchoFirst
  <2> QED BY <1>1, <2>1
<1>3. ASSUME NEW id \in Ids, Leaves(b[1], id), NEW e \in ToSet(b), Enqueues(e, id) PROVE FALSE
  <2>1. PICK j \in DOMAIN b : e = b[j]
    BY DEF ToSet
  <2>2. j < 1
    BY <1>1, <1>3, <2>1 DEF EchoFirst
  <2> QED BY <1>1, <2>2
<1> QED
  BY <1>2, <1>3 DEF t

\* One event that is no echo follows whatever is on the bus.
LEMMA EchoFirstTold ==
  ASSUME Typed, EchoFirst(bus), NEW e \in Events, NEW gone, Told(e, gone), \A id \in Ids : ~Enqueues(e, id)
  PROVE  EchoFirst(bus')
<1>1. bus \in Seq(Events)
  BY DEF Typed, WiresTyped
<1>2. CASE up
  <2> DEFINE q == <<e>>
  <2>1. q \in Seq(Events) /\ ToSet(q) = {e} /\ DOMAIN q = {1} /\ q[1] = e
    BY OneSet
  <2>2. bus' = bus \o q
    BY <1>2 DEF Told
  <2> HIDE DEF q
  <2>3. EchoFirst(q)
    BY <2>1 DEF EchoFirst
  <2> QED BY <1>1, <2>1, <2>2, <2>3, EchoFirstMore
<1>3. CASE ~up
  BY <1>3 DEF Told
<1> QED
  BY <1>2, <1>3

\* No message is taken or dropped, and what comes is less or says nothing of one.
LEMMA DropsKept ==
  ASSUME DropsTold, Typed, EchoFirst(bus'), UNCHANGED taken, \A id : Keeps(id)' <=> Keeps(id),
         slipped \subseteq slipped',
         \A e \in ToSet(bus') : e \in ToSet(bus) \/ \A id : ~Leaves(e, id) /\ ~Enqueues(e, id),
         \A e \in ToSet(bus) : e \in ToSet(bus') \/ \A id : Leaves(e, id) => id \in slipped',
         \A u \in ToSet(staged') : u \in ToSet(staged) \/ u.op # "remove",
         \A r \in ToSet(reads') : \/ \A id \in ToSet(r.page) : Keeps(id)
                                  \/ \E x \in ToSet(reads) : ToSet(x.page) = ToSet(r.page),
         \A id \in Ids : Shows(staged, id)' => Shows(staged, id) \/ ~Dropped(id) \/ id \in slipped
  PROVE  DropsTold'
<1>1. \A id : Dropped(id)' <=> Dropped(id)
  BY DEF Dropped, Has
<1>2. (\A e \in ToSet(bus), id \in Ids : Leaves(e, id) => Dropped(id))'
  BY <1>1 DEF DropsTold
<1>3. (\A e \in ToSet(bus), id \in Ids : e.type = "committed" /\ id \in e.about => ~(id < e.id))'
  BY DEF DropsTold, Leaves
<1>4. (\A u \in ToSet(staged) : u.op = "remove" => Dropped(u.id))'
  BY <1>1 DEF DropsTold
<1>5. ASSUME NEW id \in Ids, Dropped(id), id \notin slipped'
      PROVE  /\ \A r \in ToSet(reads') : id \notin ToSet(r.page)
             /\ \/ \E e \in ToSet(bus') : Leaves(e, id)
                \/ ~Shows(staged, id)' /\ \A e \in ToSet(bus') : ~Enqueues(e, id)
  <2>1. /\ \A r \in ToSet(reads) : id \notin ToSet(r.page)
        /\ \/ \E e \in ToSet(bus) : Leaves(e, id)
           \/ ~Shows(staged, id) /\ \A e \in ToSet(bus) : ~Enqueues(e, id)
    BY <1>5 DEF DropsTold
  <2>2. \A r \in ToSet(reads') : id \notin ToSet(r.page)
    BY <1>5, <2>1 DEF Dropped
  <2>3. CASE \E e \in ToSet(bus) : Leaves(e, id)
    BY <1>5, <2>2, <2>3
  <2>4. CASE ~Shows(staged, id) /\ \A e \in ToSet(bus) : ~Enqueues(e, id)
    BY <1>5, <2>2, <2>4
  <2> QED BY <2>1, <2>3, <2>4
<1> QED
  BY <1>1, <1>2, <1>3, <1>4, <1>5 DEF DropsTold

\* The user's steps drop nothing at the service.
LEMMA UserDrops ==
  ASSUME Typed, DropsTold, Typed', (\E s : Types(s) \/ Runs(s)) \/ (\E s \in Sends : Asks(s))
  PROVE  DropsTold'
<1>1. ASSUME NEW s, Types(s) PROVE DropsTold'
  <2>1. EchoFirst(bus') /\ UNCHANGED <<taken, reads, bus, slipped>> /\ \A id : Keeps(id)' <=> Keeps(id)
    BY <1>1 DEF DropsTold, Types, Keeps
  <2>2. staged' = <<>> /\ ToSet(staged') = {} /\ \A id : Shows(staged, id)' <=> id \in ToSet(rows')
    BY <1>1, ShowsFlushed DEF Types
  <2>3. \A id \in Ids : Shows(staged, id)' => Shows(staged, id) \/ ~Dropped(id)
    BY <1>1, <2>2 DEF Types, Dropped
  <2> QED BY <2>1, <2>2, <2>3, DropsKept
<1>2. ASSUME NEW s, Runs(s) PROVE DropsTold'
  <2>1. EchoFirst(bus') /\ UNCHANGED <<taken, reads, bus, slipped, outbox>> /\ \A id : Keeps(id)' <=> Keeps(id)
    BY <1>2 DEF DropsTold, Runs, Keeps
  <2>2. CASE UNCHANGED <<rows, revert, staged>>
    BY <2>1, <2>2, ShowsSame, DropsKept
  <2>3. CASE staged' = <<>> /\ \A id \in Ids : id \in ToSet(rows') <=> Shows(staged, id) /\ (id < revert \/ id \in outbox)
    <3>1. ToSet(staged') = {} /\ \A id : Shows(staged, id)' <=> id \in ToSet(rows')
      BY <2>3, ShowsFlushed
    <3> QED BY <2>1, <2>3, <3>1, DropsKept
  <2> QED BY <1>2, <2>2, <2>3 DEF Runs
<1>3. ASSUME NEW s \in Sends, Asks(s) PROVE DropsTold'
  <2>1. EchoFirst(bus') /\ UNCHANGED <<taken, reads, bus, slipped, staged, rows, outbox>> /\ \A id : Keeps(id)' <=> Keeps(id)
    BY <1>3 DEF DropsTold, Asks, Keeps, serviceVars
  <2> QED BY <2>1, ShowsSame, DropsKept
<1> QED
  BY <1>1, <1>2, <1>3

\* Input that commits a revert tells of the messages it drops.
LEMMA AdmitsDrops ==
  ASSUME Typed, DropsTold, NEW id \in Ids, Admits(id)
  PROVE  DropsTold'
<1>0. /\ ~Has(id) /\ Admit(id)
      /\ UNCHANGED <<rows, revert, staged, outbox, turn, reads, up>>
      /\ bus \in Seq(Events) /\ reads \in Seq(Reads) /\ ToSet(log) \cap ToSet(inbox) = {}
      /\ ToSet(log) \cup ToSet(inbox) \subseteq ToSet(taken)
  BY DEF Admits, Typed, ServiceTyped, WiresTyped
<1>1. /\ ToSet(log') = ToSet(log) \ Going /\ Going \subseteq ToSet(log)
      /\ ToSet(inbox') = ToSet(inbox) \cup {id} /\ ToSet(taken') = ToSet(taken) \cup {id}
      /\ CommitEvent.type = "committed" /\ CommitEvent.id = reverted /\ CommitEvent.about = Going
      /\ EnqueuedEvent(id).type = "enqueued" /\ EnqueuedEvent(id).id = id /\ EnqueuedEvent(id).about = {id}
      /\ EnqueuedEvent(id) \in Events /\ (reverted # 0 => CommitEvent \in Events)
      /\ slipped \subseteq slipped'
      /\ up => /\ bus' = bus \o InputEvents(id) /\ Going \cap InFlight \subseteq slipped'
               /\ ToSet(bus') = ToSet(bus) \cup {EnqueuedEvent(id)} \cup
                                  (IF reverted = 0 THEN {} ELSE {CommitEvent})
      /\ ~up => bus' = bus /\ bus = <<>> /\ id \in slipped' /\ Going \subseteq slipped'
  BY <1>0, AdmitParts
<1>2. /\ \A x : Has(x)' <=> Has(x) \/ x = id
      /\ \A x : Dropped(x)' <=> Dropped(x) \/ x \in Going
  <2>1. \A x : Has(x)' <=> Has(x) \/ x = id
    BY <1>1 DEF Has
  <2>2. \A x : Keeps(x)' <=> (Keeps(x) /\ x \notin Going) \/ x = id
    BY <1>0, <1>1 DEF Keeps
  <2>3. \A x : Keeps(x) => Has(x)
    BY <1>0 DEF Keeps, Has
  <2>4. \A x \in Going : Keeps(x)
    BY <1>1 DEF Keeps
  <2> QED BY <1>0, <2>1, <2>2, <2>3, <2>4 DEF Dropped
<1>3. Going # {} => reverted # 0
  BY DEF Going
<1>4. EchoFirst(bus')
  <2>1. CASE ~up
    BY <1>1, <2>1 DEF DropsTold
  <2>2. CASE up /\ reverted = 0
    <3> DEFINE q == <<EnqueuedEvent(id)>>
    <3>1. q \in Seq(Events) /\ ToSet(q) = {EnqueuedEvent(id)} /\ DOMAIN q = {1} /\ q[1] = EnqueuedEvent(id)
      BY <1>1, OneSet
    <3>2. bus' = bus \o q
      BY <1>1, <2>2 DEF InputEvents
    <3> HIDE DEF q
    <3>3. EchoFirst(q)
      BY <1>1, <3>1 DEF EchoFirst, Leaves
    <3>4. \A e \in ToSet(bus), f \in ToSet(q), x \in Ids : ~(Leaves(e, x) /\ Enqueues(f, x))
      BY <1>0, <1>1, <3>1 DEF DropsTold, Dropped, Enqueues
    <3> QED BY <1>0, <3>1, <3>2, <3>3, <3>4, EchoFirstMore DEF DropsTold
  <2>3. CASE up /\ reverted # 0
    <3> DEFINE q == <<CommitEvent, EnqueuedEvent(id)>>
    <3>1. /\ q \in Seq(Events) /\ ToSet(q) = {CommitEvent, EnqueuedEvent(id)} /\ DOMAIN q = {1, 2}
          /\ q[1] = CommitEvent /\ q[2] = EnqueuedEvent(id)
      BY <1>1, <2>3, TwoSet
    <3>2. bus' = bus \o q
      BY <1>1, <2>3 DEF InputEvents
    <3> HIDE DEF q
    <3>3. id \notin Going
      BY <1>0, <1>1 DEF Has
    <3>4. EchoFirst(q)
      <4> SUFFICES ASSUME NEW j \in DOMAIN q, NEW k \in DOMAIN q, NEW x \in Ids, Enqueues(q[j], x), Leaves(q[k], x)
                   PROVE  FALSE
        BY DEF EchoFirst
      <4>1. x = id
        BY <1>1, <3>1 DEF Enqueues
      <4> QED BY <1>1, <3>1, <3>3, <4>1 DEF Leaves
    <3>5. \A e \in ToSet(bus), f \in ToSet(q), x \in Ids : ~(Leaves(e, x) /\ Enqueues(f, x))
      BY <1>0, <1>1, <3>1 DEF DropsTold, Dropped, Enqueues
    <3> QED BY <1>0, <3>1, <3>2, <3>4, <3>5, EchoFirstMore DEF DropsTold
  <2> QED BY <2>1, <2>2, <2>3
<1>5. (\A e \in ToSet(bus), x \in Ids : Leaves(e, x) => Dropped(x))'
  BY <1>1, <1>2 DEF DropsTold, Leaves
<1>6. (\A e \in ToSet(bus), x \in Ids : e.type = "committed" /\ x \in e.about => ~(x < e.id))'
  <2>1. \A x \in Going : ~(x < reverted)
    BY DEF Going
  <2> QED BY <1>1, <2>1 DEF DropsTold
<1>7. (\A u \in ToSet(staged) : u.op = "remove" => Dropped(u.id))'
  BY <1>0, <1>2 DEF DropsTold
<1>8. ASSUME NEW x \in Ids, Dropped(x)', x \notin slipped'
      PROVE  /\ \A r \in ToSet(reads') : x \notin ToSet(r.page)
             /\ \/ \E e \in ToSet(bus') : Leaves(e, x)
                \/ ~Shows(staged, x)' /\ \A e \in ToSet(bus') : ~Enqueues(e, x)
  <2>1. CASE Dropped(x)
    <3>1. x # id /\ x \notin slipped
      BY <1>0, <1>1, <1>8, <2>1 DEF Dropped
    <3>2. /\ \A r \in ToSet(reads) : x \notin ToSet(r.page)
          /\ \/ \E e \in ToSet(bus) : Leaves(e, x)
             \/ ~Shows(staged, x) /\ \A e \in ToSet(bus) : ~Enqueues(e, x)
      BY <2>1, <3>1 DEF DropsTold
    <3>3. ToSet(bus) \subseteq ToSet(bus') /\ \A e \in ToSet(bus') : e \in ToSet(bus) \/ ~Enqueues(e, x)
      BY <1>1, <3>1 DEF Enqueues
    <3>4. ToSet(reads') = ToSet(reads) /\ (Shows(staged, x)' <=> Shows(staged, x))
      BY <1>0, ShowsSame
    <3> QED BY <3>2, <3>3, <3>4
  <2>2. CASE x \in Going
    <3>1. up /\ reverted # 0 /\ x \notin InFlight
      BY <1>1, <1>3, <1>8, <2>2
    <3>2. \A r \in ToSet(reads') : x \notin ToSet(r.page)
      BY <1>0, <3>1 DEF InFlight, ToSet
    <3>3. CommitEvent \in ToSet(bus') /\ Leaves(CommitEvent, x)
      BY <1>1, <2>2, <3>1 DEF Leaves
    <3> QED BY <3>2, <3>3
  <2> QED BY <1>2, <1>8, <2>1, <2>2
<1> QED
  BY <1>4, <1>5, <1>6, <1>7, <1>8 DEF DropsTold

\* A cancel tells of the input it drops.
LEMMA CancelsDrops ==
  ASSUME Typed, DropsTold, NEW id \in Ids, Cancels(id)
  PROVE  DropsTold'
<1> DEFINE e == Event("cancelled", id, {id})
<1>0. /\ UNCHANGED <<rows, staged, outbox, reads, taken, log, up>>
      /\ Told(e, {id}) /\ e \in Events /\ e.type = "cancelled" /\ e.id = id /\ e.about = {id}
      /\ id \in ToSet(inbox) /\ ToSet(inbox') = ToSet(inbox) \ {id} /\ id \notin ToSet(log) /\ id \in ToSet(taken)
  BY DEF Typed, ServiceTyped, Cancels, Told
<1> HIDE DEF e
<1>1. /\ slipped \subseteq slipped' /\ ToSet(bus) \subseteq ToSet(bus') /\ ToSet(bus') \subseteq ToSet(bus) \cup {e}
      /\ up => e \in ToSet(bus') /\ {id} \cap InFlight \subseteq slipped'
      /\ ~up => id \in slipped'
  BY <1>0 DEF Told
<1>2. \A x : Dropped(x)' <=> Dropped(x) \/ x = id
  BY <1>0 DEF Dropped, Has, Keeps
<1>3. EchoFirst(bus')
  BY <1>0, EchoFirstTold DEF DropsTold, Enqueues
<1>4. \A x : Leaves(e, x) <=> x = id
  BY <1>0 DEF Leaves
<1>5. (\A f \in ToSet(bus), x \in Ids : Leaves(f, x) => Dropped(x))'
  BY <1>1, <1>2, <1>4 DEF DropsTold
<1>6. (\A f \in ToSet(bus), x \in Ids : f.type = "committed" /\ x \in f.about => ~(x < f.id))'
  BY <1>0, <1>1 DEF DropsTold
<1>7. (\A u \in ToSet(staged) : u.op = "remove" => Dropped(u.id))'
  BY <1>0, <1>2 DEF DropsTold
<1>8. ASSUME NEW x \in Ids, Dropped(x)', x \notin slipped'
      PROVE  /\ \A r \in ToSet(reads') : x \notin ToSet(r.page)
             /\ \/ \E f \in ToSet(bus') : Leaves(f, x)
                \/ ~Shows(staged, x)' /\ \A f \in ToSet(bus') : ~Enqueues(f, x)
  <2>0. ToSet(reads') = ToSet(reads) /\ (Shows(staged, x)' <=> Shows(staged, x)) /\ \A y : ~Enqueues(e, y)
    BY <1>0, ShowsSame DEF Enqueues
  <2>1. CASE Dropped(x)
    <3>1. x \notin slipped
      BY <1>1, <1>8
    <3>2. /\ \A r \in ToSet(reads) : x \notin ToSet(r.page)
          /\ \/ \E f \in ToSet(bus) : Leaves(f, x)
             \/ ~Shows(staged, x) /\ \A f \in ToSet(bus) : ~Enqueues(f, x)
      BY <2>1, <3>1 DEF DropsTold
    <3> QED BY <1>1, <2>0, <3>2
  <2>2. CASE x = id
    <3>1. up /\ x \notin InFlight
      BY <1>1, <1>8, <2>2
    <3>2. \A r \in ToSet(reads') : x \notin ToSet(r.page)
      BY <1>0, <3>1 DEF InFlight, ToSet
    <3> QED BY <1>1, <1>4, <2>2, <3>1, <3>2
  <2> QED BY <1>2, <1>8, <2>1, <2>2
<1> QED
  BY <1>3, <1>5, <1>6, <1>7, <1>8 DEF DropsTold

\* Any other event tells of no drop.
LEMMA ToldDrops ==
  ASSUME Typed, DropsTold, UNCHANGED <<rows, staged, outbox, reads, taken>>, NEW e \in Events, NEW gone, Told(e, gone),
         e.type \notin {"enqueued", "cancelled", "committed"}, \A id : Keeps(id)' <=> Keeps(id)
  PROVE  DropsTold'
<1>1. /\ slipped \subseteq slipped' /\ ToSet(bus) \subseteq ToSet(bus') /\ ToSet(bus') \subseteq ToSet(bus) \cup {e}
  BY DEF Told
<1>2. \A id : ~Leaves(e, id) /\ ~Enqueues(e, id)
  BY DEF Leaves, Enqueues
<1>3. EchoFirst(bus')
  BY <1>2, EchoFirstTold DEF DropsTold
<1> QED
  BY <1>1, <1>2, <1>3, ShowsSame, DropsKept

\* A delivery, the end of a turn or a moved boundary drops nothing.
LEMMA ServiceDrops ==
  ASSUME Typed, DropsTold, Ends \/ (\E e \in Events : Bounds(e)) \/ (\E id \in Ids : Delivers(id))
  PROVE  DropsTold'
<1>1. CASE Ends
  <2>1. \A id : Keeps(id)' <=> Keeps(id)
    BY <1>1 DEF Ends, Keeps
  <2> QED BY <1>1, <2>1, ToldDrops DEF Ends, Told
<1>2. ASSUME NEW e \in Events, Bounds(e) PROVE DropsTold'
  <2>1. \A id : Keeps(id)' <=> Keeps(id)
    BY <1>2 DEF Bounds, Keeps
  <2>2. Told(e, {})
    BY <1>2, BoundsTold
  <2>3. UNCHANGED <<rows, staged, outbox, reads, taken>> /\ e.type \notin {"enqueued", "cancelled", "committed"}
    BY <1>2 DEF Bounds
  <2> QED BY <2>1, <2>2, <2>3, ToldDrops
<1>3. ASSUME NEW id \in Ids, Delivers(id) PROVE DropsTold'
  <2>1. \A x : Keeps(x)' <=> Keeps(x)
    BY <1>3 DEF Delivers, Keeps
  <2> DEFINE e == Event("delivered", id, {id})
  <2>2. Told(e, {}) /\ e \in Events /\ e.type = "delivered"
    BY <1>3 DEF Delivers, Told
  <2>3. UNCHANGED <<rows, staged, outbox, reads, taken>>
    BY <1>3 DEF Delivers
  <2> HIDE DEF e
  <2> QED BY <2>1, <2>2, <2>3, ToldDrops
<1> QED
  BY <1>1, <1>2, <1>3

\* A drop told of is off the screen, or staged to go, once its event is handled.
LEMMA HandlesDrops ==
  ASSUME Typed, Known, DropsTold, NEW e \in Events, Handles(e)
  PROVE  DropsTold'
<1>0. Sourced /\ EchoComes /\ bus \in Seq(Events)
  BY DEF Known, Typed, WiresTyped
<1>1. e = bus[1] /\ bus' = Tail(bus) /\ bus # <<>> /\ e \in ToSet(bus) /\ ToSet(bus) = ToSet(bus') \cup {e}
      /\ UNCHANGED <<log, inbox, taken, slipped>>
  BY DEF Handles
<1>2. /\ EchoFirst(bus') /\ \A id \in Ids : Leaves(e, id) => \A f \in ToSet(bus) : ~Enqueues(f, id)
  BY <1>0, <1>1, EchoFirstTail DEF DropsTold
<1>3. \A id : Dropped(id)' <=> Dropped(id)
  BY <1>1 DEF Dropped, Has, Keeps
<1>4. (\A f \in ToSet(bus), id \in Ids : Leaves(f, id) => Dropped(id))'
  BY <1>1, <1>3 DEF DropsTold
<1>5. (\A f \in ToSet(bus), id \in Ids : f.type = "committed" /\ id \in f.about => ~(id < f.id))'
  BY <1>1 DEF DropsTold
<1>6. e.type \in {"enqueued", "delivered", "cancelled", "committed"} => e.id \in Ids
  BY <1>1 DEF Typed, WiresTyped
<1>7. e.type \in {"enqueued", "cancelled"} => e.about = {e.id}
  BY <1>0, <1>1 DEF Sourced
<1>8. (\A u \in ToSet(staged) : u.op = "remove" => Dropped(u.id))'
  <2>1. \A u \in ToSet(Folded(e)) : u.op = "remove" => e.type = "cancelled" /\ u.id = e.id
    BY <1>6, FoldedIs
  <2>2. e.type = "cancelled" => Dropped(e.id)
    BY <1>1, <1>6, <1>7 DEF DropsTold, Leaves
  <2> QED BY <1>3, <2>1, <2>2 DEF DropsTold, Handles
<1>9. ASSUME NEW id \in Ids, Dropped(id), id \notin slipped
      PROVE  /\ \A r \in ToSet(reads') : id \notin ToSet(r.page)
             /\ \/ \E f \in ToSet(bus') : Leaves(f, id)
                \/ ~Shows(staged, id)' /\ \A f \in ToSet(bus') : ~Enqueues(f, id)
  <2>1. /\ \A r \in ToSet(reads) : id \notin ToSet(r.page)
        /\ \/ \E f \in ToSet(bus) : Leaves(f, id)
           \/ ~Shows(staged, id) /\ \A f \in ToSet(bus) : ~Enqueues(f, id)
    BY <1>9 DEF DropsTold
  <2>2. ToSet(Read("row").page) = {} /\ ToSet(Read("list").page) = {}
    BY ReadIs DEF Kinds
  <2>3. \A r \in ToSet(reads') : id \notin ToSet(r.page)
    BY <2>1, <2>2 DEF Handles
  <2>4. Shows(staged, id)' => FoldBrings(e, id) \/ (Shows(staged, id) /\ ~FoldTakes(e, id))
    BY DEF Handles
  <2>5. CASE ~Shows(staged, id) /\ \A f \in ToSet(bus) : ~Enqueues(f, id)
    BY <1>1, <2>3, <2>4, <2>5 DEF FoldBrings, Enqueues
  <2>6. ASSUME Leaves(e, id) PROVE ~Shows(staged, id)' /\ \A f \in ToSet(bus') : ~Enqueues(f, id)
    <3>1. \A f \in ToSet(bus) : ~Enqueues(f, id)
      BY <1>2, <2>6
    <3>2. id \notin outbox
      BY <1>0, <1>9, <3>1 DEF EchoComes, Dropped
    <3>3. FoldTakes(e, id)
      BY <1>1, <1>7, <2>6, <3>2 DEF Leaves, FoldTakes, DropsTold
    <3>4. ~FoldBrings(e, id)
      BY <1>1, <3>1 DEF FoldBrings, Enqueues
    <3> QED BY <1>1, <2>4, <3>1, <3>3, <3>4
  <2>7. CASE \E f \in ToSet(bus) : Leaves(f, id)
    BY <1>1, <2>3, <2>6, <2>7
  <2> QED BY <2>1, <2>5, <2>7
<1> QED
  BY <1>1, <1>2, <1>3, <1>4, <1>5, <1>8, <1>9 DEF DropsTold

\* The client's other steps do not bring a dropped message back.
LEMMA ClientDrops ==
  ASSUME Typed, DropsTold, Typed',
         \/ Answers \/ Fails \/ Flushes \/ Settles \/ Misses \/ Loses \/ Connects
         \/ (\E r, g : Serves(r, g)) \/ \E r : Applies(r)
  PROVE  DropsTold'
<1>0. /\ EchoFirst(bus) /\ ServiceTyped /\ EchoFirst(<<>>)
      /\ \A kind \in Kinds : ToSet(Read(kind).page) = {}
  BY ReadIs, EmptySet DEF DropsTold, Typed, EchoFirst
<1>1. UNCHANGED taken /\ \A id : Keeps(id)' <=> Keeps(id)
  BY DEF Answers, Fails, Flushes, Settles, Misses, Loses, Connects, Serves, Applies, Keeps
<1>2. ASSUME staged' = <<>>, \A id \in Ids : id \in ToSet(rows') => Shows(staged, id), UNCHANGED <<bus, slipped>>,
             \A r \in ToSet(reads') : r \in ToSet(reads) \/ ToSet(r.page) = {}
      PROVE  DropsTold'
  <2>1. ToSet(staged') = {} /\ \A id : Shows(staged, id)' <=> id \in ToSet(rows')
    BY <1>2, ShowsFlushed
  <2>2. \A r \in ToSet(reads') : \/ \A id \in ToSet(r.page) : Keeps(id)
                                 \/ \E x \in ToSet(reads) : ToSet(x.page) = ToSet(r.page)
    BY <1>2
  <2> QED BY <1>0, <1>1, <1>2, <2>1, <2>2, DropsKept
<1>3. ASSUME UNCHANGED <<rows, staged, outbox, bus, slipped>>,
             \A r \in ToSet(reads') : \/ \A id \in ToSet(r.page) : Keeps(id)
                                      \/ \E x \in ToSet(reads) : ToSet(x.page) = ToSet(r.page)
      PROVE  DropsTold'
  BY <1>0, <1>1, <1>3, ShowsSame, DropsKept
<1>4. CASE Answers
  <2>1. CASE staged' = <<>> /\ \A id \in Ids : id \in ToSet(rows') <=> Shows(staged, id)
    BY <1>2, <1>4, <2>1 DEF Answers
  <2>2. CASE UNCHANGED <<rows, revert, staged>>
    BY <1>3, <1>4, <2>2 DEF Answers
  <2> QED BY <1>4, <2>1, <2>2 DEF Answers
<1>5. CASE Fails
  <2>1. \A r \in ToSet(reads') : r \in ToSet(reads) \/ ToSet(r.page) = {}
    BY <1>0, <1>5 DEF Fails, Kinds
  <2>2. UNCHANGED <<bus, slipped>>
    BY <1>5 DEF Fails
  <2>3. CASE staged' = <<>> /\ \A id \in Ids : id \in ToSet(rows') <=> Shows(staged, id) /\ id # sending[1].id
    BY <1>2, <2>1, <2>2, <2>3
  <2>4. CASE UNCHANGED <<outbox, rows, revert, staged>>
    <3>1. \A r \in ToSet(reads') : \/ \A id \in ToSet(r.page) : Keeps(id)
                                   \/ \E x \in ToSet(reads) : ToSet(x.page) = ToSet(r.page)
      BY <2>1
    <3> QED BY <1>3, <2>2, <2>4, <3>1
  <2> QED BY <1>5, <2>3, <2>4 DEF Fails
<1>6. CASE Flushes
  BY <1>2, <1>6 DEF Flushes
<1>7. CASE Settles
  <2>1. \A r \in ToSet(reads') : r \in ToSet(reads) \/ ToSet(r.page) = {}
    BY <1>0, <1>7 DEF Settles, Kinds
  <2>2. \A r \in ToSet(reads') : \/ \A id \in ToSet(r.page) : Keeps(id)
                                 \/ \E x \in ToSet(reads) : ToSet(x.page) = ToSet(r.page)
    BY <2>1
  <2> QED BY <1>3, <1>7, <2>2 DEF Settles
<1>8. CASE Misses
  <2>1. \A r \in ToSet(reads') : r \in ToSet(reads) \/ ToSet(r.page) = {}
    BY <1>0, <1>8 DEF Misses, Kinds
  <2>2. \A r \in ToSet(reads') : \/ \A id \in ToSet(r.page) : Keeps(id)
                                 \/ \E x \in ToSet(reads) : ToSet(x.page) = ToSet(r.page)
    BY <2>1
  <2> QED BY <1>3, <1>8, <2>2 DEF Misses
<1>9. CASE Loses
  <2>1. ToSet(bus') = {} /\ EchoFirst(bus')
    BY <1>0, <1>9, EmptySet DEF Loses
  <2>2. \A e \in ToSet(bus) : \A id : Leaves(e, id) => id \in slipped'
    BY <1>9 DEF Loses, Leaves
  <2>3. UNCHANGED <<rows, staged, outbox, reads>> /\ slipped \subseteq slipped'
    BY <1>9 DEF Loses
  <2> QED BY <1>0, <1>1, <2>1, <2>2, <2>3, ShowsSame, DropsKept
<1>10. CASE Connects
  <2>1. ToSet(bus) = {}
    BY <1>10, EmptySet DEF Connects
  <2>2. \A e \in ToSet(bus') : \A id : ~Leaves(e, id) /\ ~Enqueues(e, id)
    BY <1>10 DEF Connects, Leaves, Enqueues
  <2>3. EchoFirst(bus')
    BY <2>2 DEF EchoFirst, ToSet
  <2>4. UNCHANGED <<rows, staged, outbox, reads, slipped>>
    BY <1>10 DEF Connects
  <2> QED BY <1>0, <1>1, <2>1, <2>2, <2>3, <2>4, ShowsSame, DropsKept
<1>11. ASSUME NEW r, NEW g, Serves(r, g) PROVE DropsTold'
  <2>1. \A id \in ToSet(Page) : Keeps(id)
    BY <1>0, PageIs DEF Keeps
  <2>2. \A x \in ToSet(reads') : \/ \A id \in ToSet(x.page) : Keeps(id)
                                 \/ \E y \in ToSet(reads) : ToSet(y.page) = ToSet(x.page)
    BY <1>11, <2>1 DEF Serves
  <2> QED BY <1>3, <1>11, <2>2 DEF Serves
<1>12. ASSUME NEW r, Applies(r) PROVE DropsTold'
  <2>1. \A x \in ToSet(reads') : x \in ToSet(reads) \/ ToSet(x.page) = {}
    BY <1>0, <1>12 DEF Applies, Kinds
  <2>2. UNCHANGED <<bus, slipped>>
    BY <1>12 DEF Applies
  <2>3. CASE r.kind = "list"
    BY <1>2, <1>12, <2>1, <2>2, <2>3 DEF Applies
  <2>4. CASE r.kind # "list"
    <3>1. \A id \in Ids : Shows(staged, id)' => id \in ToSet(r.page) \/ Shows(staged, id)
      BY <1>12, <2>4 DEF Applies
    <3>2. \A id \in ToSet(r.page) : id \in Ids => ~Dropped(id) \/ id \in slipped
      BY <1>12 DEF DropsTold, Applies
    <3>3. \A u \in ToSet(staged') : u \in ToSet(staged) \/ u.op # "remove"
      BY <1>12, <2>4 DEF Applies
    <3>4. \A x \in ToSet(reads') : \/ \A id \in ToSet(x.page) : Keeps(id)
                                   \/ \E y \in ToSet(reads) : ToSet(y.page) = ToSet(x.page)
      BY <2>1
    <3> QED BY <1>0, <1>1, <2>2, <3>1, <3>2, <3>3, <3>4, DropsKept
  <2> QED BY <2>3, <2>4
<1> QED
  BY <1>4, <1>5, <1>6, <1>7, <1>8, <1>9, <1>10, <1>11, <1>12

-----------------------------------------------------------------------------
(* The revert *)

\* No answer under way tells of an older boundary.
LEMMA NotOvertaken ==
  ASSUME Typed, ~Overtaken
  PROVE  /\ \A r \in ToSet(reads) : ~(r.kind # "tail" /\ r.served)
         /\ sending # <<>> /\ sending[1].phase = "taken" => sending[1].kind \notin {"revert", "unrevert"}
<1>1. sending \in Seq(Sends)
  BY DEF Typed, SendsTyped
<1>2. sending # <<>> => Head(sending) = sending[1]
  BY <1>1, TailParts
<1> QED
  BY <1>2 DEF Overtaken, ToSet

\* The last event about the revert, after more are announced.
LEMMA LastToldMore ==
  ASSUME NEW b \in Seq(Events), NEW q \in Seq(Events), NEW to,
         \/ LastTold(b, to) /\ \A f \in ToSet(q) : f.type \notin Reverts
         \/ LastTold(q, to) /\ \E f \in ToSet(q) : f.type \in Reverts
  PROVE  LastTold(b \o q, to)
<1> DEFINE c == b \o q
           n == Len(b)
           m == Len(q)
<1>1. /\ n \in Nat /\ m \in Nat /\ DOMAIN b = 1 .. n /\ DOMAIN q = 1 .. m /\ DOMAIN c = 1 .. n + m
      /\ \A i \in 1 .. n : c[i] = b[i]
      /\ \A i \in 1 .. m : c[n + i] = q[i] /\ n + i \in DOMAIN c
      /\ \A i \in DOMAIN c : i \in 1 .. n \/ (i - n \in 1 .. m /\ c[i] = q[i - n])
  BY ConcatParts
<1>2. \A i \in 1 .. m : q[i] \in ToSet(q)
  BY <1>1 DEF ToSet
<1> HIDE DEF c, n, m
<1> SUFFICES ASSUME NEW k \in DOMAIN c, c[k].type \in Reverts,
                    \A j \in DOMAIN c : k < j => c[j].type \notin Reverts
             PROVE  RevertTold(c[k]) = to
  BY DEF LastTold, c
<1>3. CASE k \in 1 .. n
  <2>1. \A i \in 1 .. m : q[i].type \notin Reverts
    <3> SUFFICES ASSUME NEW i \in 1 .. m PROVE q[i].type \notin Reverts
      OBVIOUS
    <3>1. k < n + i /\ n + i \in DOMAIN c /\ c[n + i] = q[i]
      BY <1>1, <1>3
    <3> QED BY <3>1
  <2>2. LastTold(b, to)
    BY <1>1, <2>1 DEF ToSet
  <2>3. \A j \in 1 .. n : k < j => b[j].type \notin Reverts
    BY <1>1
  <2> QED BY <1>1, <1>3, <2>2, <2>3 DEF LastTold
<1>4. CASE k \notin 1 .. n
  <2>1. k - n \in 1 .. m /\ c[k] = q[k - n] /\ k \in Int
    BY <1>1, <1>4
  <2>2. LastTold(q, to)
    BY <1>2, <2>1
  <2>3. \A j \in 1 .. m : k - n < j => q[j].type \notin Reverts
    <3> SUFFICES ASSUME NEW j \in 1 .. m, k - n < j PROVE q[j].type \notin Reverts
      OBVIOUS
    <3>1. k < n + j
      BY <1>1, <2>1
    <3> QED BY <1>1, <3>1
  <2> QED BY <1>1, <2>1, <2>2, <2>3 DEF LastTold
<1> QED
  BY <1>3, <1>4

\* And after the first is handled.
LEMMA LastToldTail ==
  ASSUME NEW b \in Seq(Events), b # <<>>, NEW to, LastTold(b, to)
  PROVE  /\ LastTold(Tail(b), to)
         /\ b[1].type \in Reverts => RevertTold(b[1]) = to \/ \E f \in ToSet(Tail(b)) : f.type \in Reverts
<1> DEFINE t == Tail(b)
<1>1. /\ 1 \in DOMAIN b /\ Len(b) \in Nat /\ DOMAIN b = 1 .. Len(b) /\ DOMAIN t = 1 .. Len(b) - 1
      /\ \A k \in DOMAIN t : t[k] = b[k + 1] /\ k + 1 \in DOMAIN b
      /\ \A k \in DOMAIN b : k # 1 => k - 1 \in DOMAIN t /\ t[k - 1] = b[k]
  BY TailParts
<1> HIDE DEF t
<1>2. LastTold(t, to)
  <2> SUFFICES ASSUME NEW k \in DOMAIN t, t[k].type \in Reverts,
                      \A j \in DOMAIN t : k < j => t[j].type \notin Reverts
               PROVE  RevertTold(t[k]) = to
    BY DEF LastTold
  <2>1. \A j \in DOMAIN b : k + 1 < j => b[j].type \notin Reverts
    <3> SUFFICES ASSUME NEW j \in DOMAIN b, k + 1 < j PROVE b[j].type \notin Reverts
      OBVIOUS
    <3>1. j # 1 /\ k < j - 1
      BY <1>1
    <3> QED BY <1>1, <3>1
  <2> QED BY <1>1, <2>1 DEF LastTold
<1>3. ASSUME b[1].type \in Reverts, \A f \in ToSet(t) : f.type \notin Reverts PROVE RevertTold(b[1]) = to
  <2>1. \A j \in DOMAIN b : 1 < j => b[j].type \notin Reverts
    <3> SUFFICES ASSUME NEW j \in DOMAIN b, 1 < j PROVE b[j].type \notin Reverts
      OBVIOUS
    <3>1. j # 1
      BY <1>1
    <3> QED BY <1>1, <1>3, <3>1 DEF ToSet
  <2> QED BY <1>1, <1>3, <2>1 DEF LastTold
<1> QED
  BY <1>2, <1>3 DEF t

\* And after one event is announced or has slipped.
LEMMA LastToldTold ==
  ASSUME Typed, NEW e \in Events, NEW gone, Told(e, gone), NEW to,
         IF e.type \in Reverts THEN RevertTold(e) = to ELSE LastTold(bus, to)
  PROVE  LastTold(bus', to)
<1>1. bus \in Seq(Events)
  BY DEF Typed, WiresTyped
<1>2. CASE up
  <2> DEFINE q == <<e>>
  <2>1. q \in Seq(Events) /\ ToSet(q) = {e} /\ DOMAIN q = {1} /\ q[1] = e
    BY OneSet
  <2>2. bus' = bus \o q
    BY <1>2 DEF Told
  <2> HIDE DEF q
  <2>3. e.type \in Reverts => LastTold(q, to)
    BY <2>1 DEF LastTold
  <2> QED BY <1>1, <2>1, <2>2, <2>3, LastToldMore
<1>3. CASE ~up
  <2>1. DOMAIN bus' = {}
    BY <1>3, EmptySet DEF Told
  <2> QED BY <2>1 DEF LastTold
<1> QED
  BY <1>2, <1>3

\* The head of the chain after it left, or after one more waits.
LEMMA HeadQueued ==
  ASSUME InOrder, Typed, sending # <<>>, sending' = Tail(sending), sending' # <<>>
  PROVE  sending'[1].phase = "queued"
<1>1. sending \in Seq(Sends)
  BY DEF Typed, SendsTyped
<1>2. Tail(sending) \in Seq(Sends) /\ Tail(sending) # <<>>
  BY <1>1, TailParts
<1>3. sending'[1] \in ToSet(Tail(sending))
  <2> DEFINE t == Tail(sending)
  <2> HIDE DEF t
  <2>1. t[1] \in ToSet(t)
    BY <1>2, TailSet DEF t
  <2> QED BY <2>1 DEF t
<1> QED
  BY <1>3, RestQueued

\* What was read, answered or told of last stays true while the boundary does.
LEMMA RevertsKept ==
  ASSUME RevertsTold, UNCHANGED reverted, stale => stale', LastTold(bus', reverted),
         \A r \in ToSet(reads') : r \in ToSet(reads) \/ r.kind = "tail" \/ ~r.served \/ r.revert = reverted,
         sending' # <<>> /\ sending'[1].phase = "taken" => sending # <<>> /\ sending'[1] = sending[1],
         \A s \in ToSet(sending') : s \in ToSet(sending) \/ (s.kind = "unrevert" => s.id = 0)
  PROVE  RevertsTold'
<1>1. (~stale => \A r \in ToSet(reads) : r.kind # "tail" /\ r.served => r.revert = reverted)'
  BY DEF RevertsTold
<1>2. (~stale /\ sending # <<>> /\ sending[1].kind \in {"revert", "unrevert"} /\ sending[1].phase = "taken" =>
         sending[1].id = reverted)'
  BY DEF RevertsTold
<1>3. (\A s \in ToSet(sending) : s.kind = "unrevert" => s.id = 0)'
  BY DEF RevertsTold
<1>4. LastTold(bus, reverted)'
  BY DEF LastTold
<1> QED
  BY <1>1, <1>2, <1>3, <1>4 DEF RevertsTold

\* The revert read, answered or told of stays what will be, or comes.
LEMMA ComesKept ==
  ASSUME RevertComes, UNCHANGED reverted, stale => stale', RevertRead => RevertRead', UndoWaits => UndoWaits' \/ RevertRead',
         \A to \in 0 .. MaxId : RevertAt(staged, Len(staged), to)' =>
            RevertAt(staged, Len(staged), to) \/ to = reverted \/ (to = 0 /\ UndoWaits')
  PROVE  RevertComes'
BY DEF RevertComes

\* The boundary stays going to be read while its read, or its event, is there.
LEMMA ReadKept ==
  ASSUME UNCHANGED up,
         \A e \in ToSet(bus) : e.type = "connected" \/ e.type \in Reverts => e \in ToSet(bus'),
         \A r \in ToSet(reads) : r.kind # "tail" => \E x \in ToSet(reads') : x.kind # "tail"
  PROVE  RevertRead => RevertRead'
BY DEF RevertRead

\* New input that commits a revert here waits with it; the user's other steps leave it.
LEMMA UserReverts ==
  ASSUME Typed, RevertsTold, RevertComes, Typed',
         \/ \E s : Types(s) \/ Runs(s)
         \/ \E s \in Sends : Asks(s) /\ ToSet(sending') = ToSet(sending) \cup {s}
                             /\ sending' # <<>> /\ sending'[1] = IF sending = <<>> THEN s ELSE sending[1]
  PROVE  RevertsTold' /\ RevertComes'
<1>1. ASSUME NEW s, Types(s) PROVE RevertsTold' /\ RevertComes'
  <2>1. UNCHANGED <<reverted, stale, bus, reads, up>> /\ s.phase = "queued" /\ s.kind = "prompt"
    BY <1>1 DEF Types
  <2>2. RevertsTold'
    BY <1>1, <2>1, RevertsKept DEF Types, RevertsTold
  <2>3. \A to : RevertAt(staged, Len(staged), to)' <=> to = revert'
    BY <1>1, ShowsFlushed DEF Types
  <2>4. RevertRead => RevertRead'
    BY <2>1, ReadKept
  <2>5. UndoWaits => UndoWaits'
    BY <1>1 DEF Types, UndoWaits
  <2>6. revert # 0 => revert' = 0 /\ UndoWaits'
    BY <1>1 DEF Types, UndoWaits
  <2>7. revert = 0 => RevertAt(staged, Len(staged), revert')
    BY <1>1 DEF Types
  <2> QED BY <2>1, <2>2, <2>3, <2>4, <2>5, <2>6, <2>7, ComesKept
<1>2. ASSUME NEW s, Runs(s) PROVE RevertsTold' /\ RevertComes'
  <2>1. UNCHANGED <<reverted, stale, bus, reads, up>> /\ s.phase = "queued" /\ s.kind = "command"
    BY <1>2 DEF Runs
  <2>2. RevertsTold'
    BY <1>2, <2>1, RevertsKept DEF Runs, RevertsTold
  <2>4. RevertRead => RevertRead'
    BY <2>1, ReadKept
  <2>5. UndoWaits => UndoWaits'
    BY <1>2 DEF Runs, UndoWaits
  <2>6. revert # 0 => UndoWaits'
    BY <1>2 DEF Runs, UndoWaits
  <2>7. CASE revert # 0 /\ staged' = <<>> /\ revert' = 0
    <3>1. \A to : RevertAt(staged, Len(staged), to)' <=> to = revert'
      BY <2>7, ShowsFlushed
    <3> QED BY <2>1, <2>2, <2>4, <2>5, <2>6, <2>7, <3>1, ComesKept
  <2>8. CASE UNCHANGED <<rows, revert, staged>>
    BY <2>1, <2>2, <2>4, <2>5, <2>8, RevertSame, ComesKept
  <2> QED BY <1>2, <2>7, <2>8 DEF Runs
<1>3. ASSUME NEW s \in Sends, Asks(s), ToSet(sending') = ToSet(sending) \cup {s}, sending' # <<>>,
             sending'[1] = IF sending = <<>> THEN s ELSE sending[1]
      PROVE  RevertsTold' /\ RevertComes'
  <2>1. /\ UNCHANGED <<reverted, stale, bus, reads, up, revert, staged>> /\ s.phase = "queued"
        /\ s.kind = "unrevert" => s.id = 0
    BY <1>3 DEF Asks, serviceVars
  <2>2. RevertsTold'
    BY <1>3, <2>1, RevertsKept DEF RevertsTold
  <2>4. RevertRead => RevertRead'
    BY <2>1, ReadKept
  <2>5. UndoWaits => UndoWaits'
    BY <1>3 DEF UndoWaits
  <2> QED BY <2>1, <2>2, <2>4, <2>5, RevertSame, ComesKept
<1> QED
  BY <1>1, <1>2, <1>3

\* Input taken leaves no boundary, and tells so if one was staged.
LEMMA AdmitsReverts ==
  ASSUME Typed, RevertsTold, RevertComes, NEW id \in Ids, Admits(id)
  PROVE  RevertsTold' /\ RevertComes'
<1>0. /\ ~Has(id) /\ Admit(id) /\ bus \in Seq(Events)
      /\ UNCHANGED <<rows, revert, staged, outbox, turn, reads, up>>
  BY DEF Admits, Typed, WiresTyped
<1>1. /\ reverted' = 0 /\ stale' = (stale \/ (reverted # 0 /\ Overtaken))
      /\ CommitEvent.type = "committed"
      /\ EnqueuedEvent(id).type = "enqueued"
      /\ EnqueuedEvent(id) \in Events /\ (reverted # 0 => CommitEvent \in Events)
      /\ up => /\ bus' = bus \o InputEvents(id)
               /\ ToSet(bus') = ToSet(bus) \cup {EnqueuedEvent(id)} \cup
                                  (IF reverted = 0 THEN {} ELSE {CommitEvent})
      /\ ~up => bus' = bus /\ bus = <<>>
  BY <1>0, AdmitParts
<1>2. ~stale' => ~stale /\ (reverted = 0 \/ ~Overtaken)
  BY <1>1
<1>3. (~stale => \A r \in ToSet(reads) : r.kind # "tail" /\ r.served => r.revert = reverted)'
  BY <1>0, <1>1, <1>2, NotOvertaken DEF RevertsTold
<1>4. (~stale /\ sending # <<>> /\ sending[1].kind \in {"revert", "unrevert"} /\ sending[1].phase = "taken" =>
         sending[1].id = reverted)'
  <2>1. CASE sending' = sending
    BY <1>1, <1>2, <2>1, NotOvertaken DEF RevertsTold
  <2>2. CASE Reaches /\ sending[1].kind \in {"prompt", "command"}
    BY <2>2 DEF Reaches
  <2> QED BY <2>1, <2>2 DEF Admits
<1>5. (\A s \in ToSet(sending) : s.kind = "unrevert" => s.id = 0)'
  BY DEF Admits, Reaches, RevertsTold
<1>6. LastTold(bus', 0)
  <2>1. CASE ~up
    <3>1. DOMAIN bus' = {}
      BY <1>1, <2>1, EmptySet
    <3> QED BY <3>1 DEF LastTold
  <2>2. CASE up /\ reverted = 0
    <3> DEFINE q == <<EnqueuedEvent(id)>>
    <3>1. q \in Seq(Events) /\ ToSet(q) = {EnqueuedEvent(id)}
      BY <1>1, OneSet
    <3>2. bus' = bus \o q
      BY <1>1, <2>2 DEF InputEvents
    <3> HIDE DEF q
    <3>3. LastTold(bus, 0) /\ \A f \in ToSet(q) : f.type \notin Reverts
      BY <1>1, <2>2, <3>1 DEF RevertsTold, Reverts
    <3> QED BY <1>0, <3>1, <3>2, <3>3, LastToldMore
  <2>3. CASE up /\ reverted # 0
    <3> DEFINE q == <<CommitEvent, EnqueuedEvent(id)>>
    <3>1. /\ q \in Seq(Events) /\ ToSet(q) = {CommitEvent, EnqueuedEvent(id)} /\ DOMAIN q = {1, 2}
          /\ q[1] = CommitEvent /\ q[2] = EnqueuedEvent(id)
      BY <1>1, <2>3, TwoSet
    <3>2. bus' = bus \o q
      BY <1>1, <2>3 DEF InputEvents
    <3> HIDE DEF q
    <3>3. LastTold(q, 0) /\ \E f \in ToSet(q) : f.type \in Reverts
      BY <1>1, <3>1 DEF LastTold, Reverts, RevertTold
    <3> QED BY <1>0, <3>1, <3>2, <3>3, LastToldMore
  <2> QED BY <2>1, <2>2, <2>3
<1>7. RevertsTold'
  <2>1. LastTold(bus, reverted)'
    BY <1>1, <1>6 DEF LastTold
  <2> QED BY <1>3, <1>4, <1>5, <2>1 DEF RevertsTold
<1>8. RevertComes'
  <2> SUFFICES ASSUME ~stale', ~RevertRead', NEW to \in 0 .. MaxId, RevertAt(staged, Len(staged), to)' PROVE to = 0
    BY <1>1 DEF RevertComes
  <2>1. up /\ reverted = 0
    BY <1>0, <1>1 DEF RevertRead, Reverts
  <2>2. ~RevertRead
    BY <1>0, <1>1, <2>1 DEF RevertRead
  <2>3. RevertAt(staged, Len(staged), to)
    BY <1>0, RevertSame
  <2> QED BY <1>2, <2>1, <2>2, <2>3 DEF RevertComes
<1> QED
  BY <1>7, <1>8

\* A moved boundary is told of, or will be read.
LEMMA BoundsReverts ==
  ASSUME Typed, RevertsTold, NEW e \in Events, Bounds(e)
  PROVE  RevertsTold' /\ RevertComes'
<1>0. /\ e.type \in {"staged", "cleared"} /\ reverted' = RevertTold(e) /\ stale' = (stale \/ Overtaken)
      /\ UNCHANGED <<rows, revert, staged, outbox, reads, up>> /\ e.type \in Reverts
  BY DEF Bounds, Reverts
<1>1. Told(e, {})
  BY BoundsTold
<1>2. (~stale => \A r \in ToSet(reads) : r.kind # "tail" /\ r.served => r.revert = reverted)'
  BY <1>0, NotOvertaken
<1>3. (~stale /\ sending # <<>> /\ sending[1].kind \in {"revert", "unrevert"} /\ sending[1].phase = "taken" =>
         sending[1].id = reverted)'
  <2>1. CASE sending' = sending
    BY <1>0, <2>1, NotOvertaken
  <2>2. CASE /\ Reaches
             /\ \/ sending[1].kind = "revert" /\ reverted' = sending[1].id
                \/ sending[1].kind = "unrevert" /\ reverted' = 0
    <3>1. sending[1] \in ToSet(sending)
      BY <2>2 DEF Reaches
    <3> QED BY <2>2, <3>1 DEF Reaches, RevertsTold
  <2> QED BY <2>1, <2>2 DEF Bounds
<1>4. (\A s \in ToSet(sending) : s.kind = "unrevert" => s.id = 0)'
  BY DEF Bounds, Reaches, RevertsTold
<1>5. LastTold(bus, reverted)'
  <2>1. LastTold(bus', reverted')
    BY <1>0, <1>1, LastToldTold
  <2> QED BY <2>1 DEF LastTold
<1>6. RevertRead'
  BY <1>0, <1>1 DEF Told, RevertRead
<1> QED
  BY <1>2, <1>3, <1>4, <1>5, <1>6 DEF RevertsTold, RevertComes

\* An event about something else changes no boundary.
LEMMA ToldReverts ==
  ASSUME Typed, RevertsTold, RevertComes, UNCHANGED <<rows, revert, staged, sending, reads, reverted, stale>>,
         NEW e \in Events, NEW gone, Told(e, gone), e.type \notin Reverts
  PROVE  RevertsTold' /\ RevertComes'
<1>1. LastTold(bus', reverted)
  BY LastToldTold DEF RevertsTold
<1>2. RevertsTold'
  BY <1>1, RevertsKept
<1>3. RevertRead => RevertRead'
  <2>1. ToSet(bus) \subseteq ToSet(bus') /\ up' = up
    BY DEF Told
  <2> QED BY <2>1, ReadKept
<1>4. UndoWaits => UndoWaits'
  BY DEF UndoWaits
<1> QED
  BY <1>2, <1>3, <1>4, RevertSame, ComesKept

\* Nor does a delivery, a cancel or the end of a turn.
LEMMA ServiceReverts ==
  ASSUME Typed, RevertsTold, RevertComes, Ends \/ (\E id \in Ids : Cancels(id) \/ Delivers(id))
  PROVE  RevertsTold' /\ RevertComes'
<1>1. CASE Ends
  <2>1. "ended" \notin Reverts
    BY DEF Reverts
  <2> QED BY <1>1, <2>1, ToldReverts DEF Ends, Told
<1>2. ASSUME NEW id \in Ids, Cancels(id) PROVE RevertsTold' /\ RevertComes'
  <2> DEFINE e == Event("cancelled", id, {id})
  <2>1. Told(e, {id}) /\ e \in Events /\ e.type \notin Reverts
    BY <1>2 DEF Cancels, Told, Reverts
  <2>2. UNCHANGED <<rows, revert, staged, sending, reads, reverted, stale>>
    BY <1>2 DEF Cancels
  <2> HIDE DEF e
  <2> QED BY <2>1, <2>2, ToldReverts
<1>3. ASSUME NEW id \in Ids, Delivers(id) PROVE RevertsTold' /\ RevertComes'
  <2> DEFINE e == Event("delivered", id, {id})
  <2>1. Told(e, {}) /\ e \in Events /\ e.type \notin Reverts
    BY <1>3 DEF Delivers, Told, Reverts
  <2>2. UNCHANGED <<rows, revert, staged, sending, reads, reverted, stale>>
    BY <1>3 DEF Delivers
  <2> HIDE DEF e
  <2> QED BY <2>1, <2>2, ToldReverts
<1> QED
  BY <1>1, <1>2, <1>3

\* The answer to a revert is the boundary, unless overtaken.
LEMMA AnswersReverts ==
  ASSUME InOrder, Typed, RevertsTold, RevertComes, Typed', Answers
  PROVE  RevertsTold' /\ RevertComes'
<1>0. /\ sending # <<>> /\ sending' = Tail(sending) /\ ToSet(sending) = ToSet(sending') \cup {sending[1]}
      /\ sending[1].phase = "taken" /\ UNCHANGED <<reads, bus, up, reverted, stale>>
  BY DEF Answers
<1>1. sending' # <<>> => sending'[1].phase = "queued"
  BY <1>0, HeadQueued
<1>2. RevertsTold'
  BY <1>0, <1>1, RevertsKept DEF RevertsTold
<1>3. RevertRead => RevertRead'
  BY <1>0, ReadKept
<1>4. UndoWaits => UndoWaits'
  BY <1>0 DEF UndoWaits
<1>5. CASE UNCHANGED <<rows, revert, staged>>
  BY <1>0, <1>2, <1>3, <1>4, <1>5, RevertSame, ComesKept
<1>6. CASE sending[1].kind \in {"revert", "unrevert"} /\ staged' = <<>> /\ revert' = sending[1].id
  <2>1. \A to : RevertAt(staged, Len(staged), to)' <=> to = revert'
    BY <1>6, ShowsFlushed
  <2>2. ~stale => revert' = reverted
    BY <1>0, <1>6 DEF RevertsTold
  <2>3. CASE stale
    BY <1>0, <1>2, <2>3 DEF RevertComes
  <2>4. CASE ~stale
    BY <1>0, <1>2, <1>3, <1>4, <2>1, <2>2, <2>4, ComesKept
  <2> QED BY <2>3, <2>4
<1> QED
  BY <1>5, <1>6 DEF Answers

\* A failed send that committed the revert here reads it again.
LEMMA FailsReverts ==
  ASSUME InOrder, Typed, RevertsTold, RevertComes, Typed', Fails
  PROVE  RevertsTold' /\ RevertComes'
<1>0. /\ sending # <<>> /\ sending' = Tail(sending) /\ ToSet(sending) = ToSet(sending') \cup {sending[1]}
      /\ UNCHANGED <<bus, up, reverted, stale>>
      /\ IF sending[1].undo THEN ToSet(reads') = ToSet(reads) \cup {Read("row"), Read("tail")} ELSE reads' = reads
  BY DEF Fails
<1>1. sending' # <<>> => sending'[1].phase = "queued"
  BY <1>0, HeadQueued
<1>2. /\ ~Read("row").served /\ Read("row").kind = "row" /\ Read("tail").kind = "tail"
  BY ReadIs DEF Kinds
<1>3. RevertsTold'
  BY <1>0, <1>1, <1>2, RevertsKept DEF RevertsTold
<1>4. RevertRead => RevertRead'
  BY <1>0, <1>2, ReadKept
<1>5. UndoWaits => UndoWaits' \/ RevertRead'
  BY <1>0, <1>2 DEF UndoWaits, RevertRead
<1>6. \A to \in 0 .. MaxId : RevertAt(staged, Len(staged), to)' => RevertAt(staged, Len(staged), to)
  <2>1. CASE UNCHANGED <<outbox, rows, revert, staged>>
    BY <2>1, RevertSame
  <2>2. CASE staged' = <<>> /\ RevertAt(staged, Len(staged), revert')
    BY <2>2, ShowsFlushed
  <2> QED BY <2>1, <2>2 DEF Fails
<1> QED
  BY <1>0, <1>3, <1>4, <1>5, <1>6, ComesKept

\* An event about the revert stages the boundary it tells of.
LEMMA HandlesReverts ==
  ASSUME Typed, RevertsTold, RevertComes, NEW e \in Events, Handles(e)
  PROVE  RevertsTold' /\ RevertComes'
<1>0. /\ bus # <<>> /\ e = bus[1] /\ bus' = Tail(bus) /\ ToSet(bus) = ToSet(bus') \cup {e}
      /\ UNCHANGED <<reverted, stale, sending, up>> /\ bus \in Seq(Events)
      /\ ToSet(reads') = ToSet(reads) \cup (CASE e.type = "ended" -> {Read("row")}
                                              [] e.type = "connected" -> {Read("list")}
                                              [] OTHER -> {})
      /\ \A to : RevertAt(staged, Len(staged), to)' =>
           IF e.type \in Reverts THEN to = RevertTold(e) ELSE RevertAt(staged, Len(staged), to)
  BY DEF Handles, Typed, WiresTyped
<1>1. /\ ~Read("row").served /\ Read("row").kind = "row" /\ ~Read("list").served /\ Read("list").kind = "list"
  BY ReadIs DEF Kinds
<1>2. /\ LastTold(bus', reverted)
      /\ e.type \in Reverts => RevertTold(e) = reverted \/ \E f \in ToSet(bus') : f.type \in Reverts
  BY <1>0, LastToldTail DEF RevertsTold
<1>3. RevertsTold'
  <2>1. \A r \in ToSet(reads') : r \in ToSet(reads) \/ ~r.served
    BY <1>0, <1>1
  <2> QED BY <1>0, <1>2, <2>1, RevertsKept
<1>4. RevertComes'
  <2> SUFFICES ASSUME ~stale, ~RevertRead', NEW to \in 0 .. MaxId, RevertAt(staged, Len(staged), to)'
               PROVE  to = reverted \/ (to = 0 /\ UndoWaits')
    BY <1>0 DEF RevertComes
  <2>1. UndoWaits' <=> UndoWaits
    BY <1>0 DEF UndoWaits
  <2>2. up /\ e.type # "connected" /\ (\A f \in ToSet(bus') : f.type # "connected" /\ f.type \notin Reverts)
        /\ \A r \in ToSet(reads) : r.kind = "tail"
    BY <1>0, <1>1 DEF RevertRead
  <2>3. CASE e.type \in Reverts
    BY <1>0, <1>2, <2>2, <2>3
  <2>4. CASE e.type \notin Reverts
    <3>1. ~RevertRead
      BY <1>0, <2>2, <2>4 DEF RevertRead
    <3> QED BY <1>0, <2>1, <2>4, <3>1 DEF RevertComes
  <2> QED BY <2>3, <2>4
<1> QED
  BY <1>3, <1>4

\* A read that comes back is the boundary, unless overtaken; the client's other steps leave it.
LEMMA ClientReverts ==
  ASSUME Typed, RevertsTold, RevertComes, Typed',
         \/ Flushes \/ Settles \/ Misses \/ Loses \/ Connects
         \/ (\E r, g : Serves(r, g)) \/ \E r : Applies(r)
  PROVE  RevertsTold' /\ RevertComes'
<1>0. /\ UNCHANGED <<sending, reverted>> /\ (stale => stale') /\ LastTold(bus, reverted) /\ (UndoWaits' <=> UndoWaits)
      /\ Read("tail").kind = "tail"
  <2>1. UNCHANGED <<sending, reverted>> /\ (stale' \/ stale' = stale)
    <3>1. CASE Flushes \/ Settles \/ Misses \/ Loses \/ Connects
      BY <3>1 DEF Flushes, Settles, Misses, Loses, Connects
    <3>2. CASE \E r, g : Serves(r, g)
      BY <3>2 DEF Serves
    <3>3. CASE \E r : Applies(r)
      BY <3>3 DEF Applies
    <3> QED BY <3>1, <3>2, <3>3
  <2> QED BY <2>1, ReadIs DEF RevertsTold, UndoWaits, Kinds
<1>1. ASSUME LastTold(bus', reverted),
             \A r \in ToSet(reads') : r \in ToSet(reads) \/ r.kind = "tail" \/ r.revert = reverted
      PROVE  RevertsTold'
  BY <1>0, <1>1, RevertsKept
<1>2. ASSUME RevertRead => RevertRead',
             \A to \in 0 .. MaxId : RevertAt(staged, Len(staged), to)' => RevertAt(staged, Len(staged), to)
      PROVE  RevertComes'
  BY <1>0, <1>2, ComesKept
<1>3. CASE Flushes
  <2>1. \A to : RevertAt(staged, Len(staged), to)' <=> to = revert'
    BY <1>3, ShowsFlushed DEF Flushes
  <2>2. RevertAt(staged, Len(staged), revert') /\ UNCHANGED <<bus, reads, up>>
    BY <1>3 DEF Flushes
  <2> QED BY <1>0, <1>1, <1>2, <2>1, <2>2, ReadKept
<1>4. CASE Settles
  <2>1. UNCHANGED <<bus, up, revert, staged>> /\ ToSet(reads') = ToSet(reads) \cup {Read("tail")}
    BY <1>4 DEF Settles
  <2> QED BY <1>0, <1>1, <1>2, <2>1, ReadKept, RevertSame
<1>5. CASE Misses
  <2>1. UNCHANGED bus /\ stale' /\ ToSet(reads') \subseteq ToSet(reads) \cup {Read("tail")}
    BY <1>5 DEF Misses
  <2>2. RevertsTold'
    BY <1>0, <1>1, <2>1
  <2> QED BY <2>1, <2>2 DEF RevertComes
<1>6. CASE Loses
  <2>1. DOMAIN bus' = {} /\ UNCHANGED reads /\ ~up'
    BY <1>6, EmptySet DEF Loses
  <2>2. LastTold(bus', reverted)
    BY <2>1 DEF LastTold
  <2> QED BY <1>1, <2>1, <2>2 DEF RevertComes, RevertRead
<1>7. CASE Connects
  <2>1. DOMAIN bus' = {1} /\ UNCHANGED reads /\ bus'[1].type = "connected"
    BY <1>7 DEF Connects
  <2>2. LastTold(bus', reverted)
    BY <2>1 DEF LastTold, Reverts
  <2>3. RevertRead'
    BY <2>1 DEF RevertRead, ToSet
  <2> QED BY <1>1, <2>1, <2>2, <2>3 DEF RevertComes
<1>8. ASSUME NEW r, NEW g, Serves(r, g) PROVE RevertsTold' /\ RevertComes'
  <2>1. /\ UNCHANGED <<bus, up, revert, staged>> /\ g.kind = r.kind /\ (r.kind # "tail" => g.revert = reverted)
        /\ ToSet(reads') \subseteq ToSet(reads) \cup {g} /\ g \in ToSet(reads') /\ ToSet(reads) \subseteq ToSet(reads') \cup {r}
    BY <1>8 DEF Serves
  <2> QED BY <1>0, <1>1, <1>2, <2>1, ReadKept, RevertSame
<1>9. ASSUME NEW r, Applies(r) PROVE RevertsTold' /\ RevertComes'
  <2>1. /\ UNCHANGED <<bus, up>> /\ r \in ToSet(reads) /\ r.served /\ ToSet(reads) \subseteq ToSet(reads') \cup {r}
        /\ ToSet(reads') \subseteq ToSet(reads) \cup {Read("tail")}
    BY <1>9 DEF Applies
  <2>2. RevertsTold'
    BY <1>0, <1>1, <2>1
  <2>3. ~stale /\ r.kind # "tail" => r.revert = reverted
    BY <2>1 DEF RevertsTold
  <2>4. CASE r.kind = "tail"
    <3>1. RevertRead => RevertRead'
      BY <2>1, <2>4, ReadKept
    <3>2. \A to \in 0 .. MaxId : RevertAt(staged, Len(staged), to)' => RevertAt(staged, Len(staged), to)
      BY <1>9, <2>4 DEF Applies
    <3> QED BY <1>2, <2>2, <3>1, <3>2
  <2>5. CASE r.kind # "tail"
    <3>1. \A to \in 0 .. MaxId : RevertAt(staged, Len(staged), to)' => to = r.revert
      <4>1. CASE staged' = <<>> /\ revert' = r.revert
        BY <4>1, ShowsFlushed
      <4>2. CASE \A to : RevertAt(staged, Len(staged), to)' => to = r.revert
        BY <4>2
      <4> QED BY <1>9, <2>5, <4>1, <4>2 DEF Applies
    <3>2. reverted' = reverted /\ (~stale' => ~stale)
      BY <1>0
    <3>3. RevertComes'
      BY <2>3, <2>5, <3>1, <3>2 DEF RevertComes
    <3> QED BY <2>2, <3>3
  <2> QED BY <2>4, <2>5
<1> QED
  BY <1>3, <1>4, <1>5, <1>6, <1>7, <1>8, <1>9

-----------------------------------------------------------------------------
(* What comes *)

\* A commit told of, and more events after it.
LEMMA EndMore ==
  ASSUME NEW b \in Seq(Events), NEW q \in Seq(Events), NEW held, NEW on, NEW more, NEW then,
         EndFollows(b, held, on), more \subseteq held, on => then,
         \A f \in ToSet(q), id \in more : ~(f.type = "committed" /\ ~(id < f.id))
  PROVE  EndFollows(b \o q, more, then)
<1> DEFINE c == b \o q
           n == Len(b)
<1>1. /\ n \in Nat /\ DOMAIN b = 1 .. n /\ DOMAIN q = 1 .. Len(q) /\ DOMAIN b \subseteq DOMAIN c
      /\ \A i \in DOMAIN b : c[i] = b[i]
      /\ \A i \in DOMAIN c : i \in DOMAIN b \/ (i - n \in DOMAIN q /\ c[i] = q[i - n])
  BY ConcatParts
<1> HIDE DEF c, n
<1> SUFFICES ASSUME NEW k \in DOMAIN c, NEW id \in more, c[k].type = "committed", ~(id < c[k].id)
             PROVE  then \/ \E j \in DOMAIN c : k < j /\ c[j].type = "ended"
  BY DEF EndFollows, c
<1>2. k \in DOMAIN b
  BY <1>1 DEF ToSet
<1> QED
  BY <1>1, <1>2 DEF EndFollows

\* After the first event is handled: a commit that takes a message is followed by the end of a turn.
LEMMA EndTail ==
  ASSUME NEW b \in Seq(Events), b # <<>>, NEW held, NEW on, EndFollows(b, held, on)
  PROVE  /\ EndFollows(Tail(b), held, on)
         /\ \A id \in held : b[1].type = "committed" /\ ~(id < b[1].id) =>
              on \/ \E f \in ToSet(Tail(b)) : f.type = "ended"
<1> DEFINE t == Tail(b)
<1>1. /\ 1 \in DOMAIN b /\ Len(b) \in Nat /\ DOMAIN b = 1 .. Len(b) /\ DOMAIN t = 1 .. Len(b) - 1
      /\ \A k \in DOMAIN t : t[k] = b[k + 1] /\ k + 1 \in DOMAIN b
      /\ \A k \in DOMAIN b : k # 1 => k - 1 \in DOMAIN t /\ t[k - 1] = b[k]
  BY TailParts
<1> HIDE DEF t
<1>2. EndFollows(t, held, on)
  <2> SUFFICES ASSUME NEW k \in DOMAIN t, NEW id \in held, t[k].type = "committed", ~(id < t[k].id), ~on
               PROVE  \E j \in DOMAIN t : k < j /\ t[j].type = "ended"
    BY DEF EndFollows
  <2>1. PICK j \in DOMAIN b : k + 1 < j /\ b[j].type = "ended"
    BY <1>1 DEF EndFollows
  <2>2. j # 1 /\ k < j - 1
    BY <1>1, <2>1
  <2> QED BY <1>1, <2>1, <2>2
<1>3. ASSUME NEW id \in held, b[1].type = "committed", ~(id < b[1].id), ~on
      PROVE  \E f \in ToSet(t) : f.type = "ended"
  <2>1. PICK j \in DOMAIN b : 1 < j /\ b[j].type = "ended"
    BY <1>1, <1>3 DEF EndFollows
  <2> QED BY <1>1, <2>1 DEF ToSet
<1> QED
  BY <1>2, <1>3 DEF t

\* One more event does not undo it.
LEMMA EndTold ==
  ASSUME Typed, NEW e \in Events, NEW gone, Told(e, gone), EndFollows(bus, ToSet(log), turn),
         \/ turn' = turn /\ ToSet(log') \subseteq ToSet(log) /\ e.type # "committed"
         \/ e.type = "ended"
  PROVE  EndFollows(bus', ToSet(log'), turn')
<1>1. bus \in Seq(Events)
  BY DEF Typed, WiresTyped
<1>2. CASE up
  <2> DEFINE q == <<e>>
             n == Len(bus)
  <2>1. q \in Seq(Events) /\ ToSet(q) = {e} /\ DOMAIN q = {1} /\ q[1] = e /\ 1 \in 1 .. Len(q)
    BY OneSet
  <2>2. bus' = bus \o q
    BY <1>2 DEF Told
  <2> HIDE DEF q
  <2>3. CASE turn' = turn /\ ToSet(log') \subseteq ToSet(log) /\ e.type # "committed"
    BY <1>1, <2>1, <2>2, <2>3, EndMore
  <2>4. CASE e.type = "ended"
    <3>1. /\ n \in Nat /\ DOMAIN bus = 1 .. n /\ n + 1 \in DOMAIN bus'
          /\ bus'[n + 1] = e
          /\ \A i \in DOMAIN bus' : i \in 1 .. n \/ (i - n \in DOMAIN q /\ bus'[i] = q[i - n])
      BY <1>1, <2>1, <2>2, ConcatParts
    <3> HIDE DEF n
    <3>2. \A k \in DOMAIN bus' : bus'[k].type = "committed" => k < n + 1
      BY <2>1, <2>4, <3>1
    <3> QED BY <2>4, <3>1, <3>2 DEF EndFollows
  <2> QED BY <2>3, <2>4
<1>3. CASE ~up
  <2>1. DOMAIN bus' = {}
    BY <1>3, EmptySet DEF Told
  <2> QED BY <2>1 DEF EndFollows
<1> QED
  BY <1>2, <1>3

\* What is staged after a commit.
LEMMA MendedMore ==
  ASSUME NEW us \in Seq(Proper), NEW q \in Seq(Proper), NEW held, Mended(us, held),
         \A u \in ToSet(q), id \in held : ~(u.op = "drop" /\ ~(id < u.id))
  PROVE  Mended(us \o q, held)
<1> DEFINE c == us \o q
           n == Len(us)
<1>1. /\ n \in Nat /\ DOMAIN us = 1 .. n /\ DOMAIN us \subseteq DOMAIN c
      /\ \A i \in DOMAIN us : c[i] = us[i]
      /\ \A i \in DOMAIN c : i \in DOMAIN us \/ (i - n \in DOMAIN q /\ c[i] = q[i - n])
  BY ConcatParts
<1> HIDE DEF c, n
<1> SUFFICES ASSUME NEW k \in DOMAIN c, NEW id \in held, c[k].op = "drop", ~(id < c[k].id)
             PROVE  \E j \in DOMAIN c : k < j /\ c[j].op = "merge" /\ id \in ToSet(c[j].page)
  BY DEF Mended, c
<1>2. k \in DOMAIN us
  BY <1>1 DEF ToSet
<1>3. PICK j \in DOMAIN us : k < j /\ us[j].op = "merge" /\ id \in ToSet(us[j].page)
  BY <1>1, <1>2 DEF Mended
<1> QED
  BY <1>1, <1>3

\* A page staged brings back what it lists.
LEMMA MendedMerge ==
  ASSUME NEW us \in Seq(Proper), NEW u \in Proper, u.op = "merge", NEW held, Mended(us, held \ ToSet(u.page))
  PROVE  Mended(us \o <<u>>, held)
<1> DEFINE q == <<u>>
           c == us \o q
           n == Len(us)
<1>0. q \in Seq(Proper) /\ DOMAIN q = {1} /\ q[1] = u /\ Len(q) = 1
  BY OneSet
<1>1. /\ n \in Nat /\ DOMAIN us = 1 .. n /\ DOMAIN us \subseteq DOMAIN c
      /\ \A i \in DOMAIN us : c[i] = us[i]
      /\ n + 1 \in DOMAIN c /\ c[n + 1] = u
      /\ \A i \in DOMAIN c : i \in DOMAIN us \/ (i - n \in DOMAIN q /\ c[i] = q[i - n])
  <2> HIDE DEF q
  <2>1. 1 \in 1 .. Len(q)
    BY <1>0
  <2>2. /\ n \in Nat /\ DOMAIN us = 1 .. n /\ DOMAIN c = 1 .. n + Len(q) /\ DOMAIN q = 1 .. Len(q)
        /\ \A i \in 1 .. n : c[i] = us[i]
        /\ \A i \in 1 .. Len(q) : c[n + i] = q[i] /\ n + i \in DOMAIN c
        /\ \A i \in DOMAIN c : i \in 1 .. n \/ (i - n \in 1 .. Len(q) /\ c[i] = q[i - n])
    <3>1. q \in Seq(Proper)
      BY <1>0
    <3> QED BY <3>1, ConcatParts
  <2> HIDE DEF c, n
  <2> QED BY <1>0, <2>1, <2>2
<1> HIDE DEF c, n, q
<1> SUFFICES ASSUME NEW k \in DOMAIN c, NEW id \in held, c[k].op = "drop", ~(id < c[k].id)
             PROVE  \E j \in DOMAIN c : k < j /\ c[j].op = "merge" /\ id \in ToSet(c[j].page)
  BY DEF Mended, c, q
<1>2. k \in DOMAIN us
  BY <1>0, <1>1
<1>3. CASE id \in ToSet(u.page)
  BY <1>1, <1>2, <1>3
<1>4. CASE id \notin ToSet(u.page)
  <2>1. PICK j \in DOMAIN us : k < j /\ us[j].op = "merge" /\ id \in ToSet(us[j].page)
    BY <1>1, <1>2, <1>4 DEF Mended
  <2> QED BY <1>1, <2>1
<1> QED
  BY <1>3, <1>4

\* A row that is here, or staged, is shown by a flush.
LEMMA FlushBrings ==
  ASSUME Typed, DropsTold, DropsMended, ~stale, ~TailComes, NEW id \in ToSet(log), ~PageHas(id),
         id \in ToSet(rows) \/ \E u \in ToSet(staged) : Brings(u, id)
  PROVE  Shows(staged, id)
<1>1. staged \in Seq(Proper)
  BY DEF Typed, RowsTyped
<1>2. \A k \in DOMAIN staged : staged[k] \in ToSet(staged)
  BY DEF ToSet
<1>3. Mended(staged, {m \in ToSet(log) : ~PageHas(m)})
  BY DEF DropsMended
<1>4. ASSUME NEW k \in DOMAIN staged, Takes(staged[k], id)
      PROVE  \E j \in DOMAIN staged : k < j /\ Brings(staged[j], id)
  <2>1. CASE staged[k].op = "remove" /\ staged[k].id = id
    BY <1>2, <2>1 DEF DropsTold, Dropped, Keeps
  <2>2. CASE staged[k].op = "drop" /\ ~(id < staged[k].id)
    BY <1>3, <2>2 DEF Mended, Brings
  <2> QED BY <1>4, <2>1, <2>2 DEF Takes
<1> QED
  BY <1>1, <1>4, ShowsBrought

\* Commits stay mended while the log only shrinks and what comes still comes.
LEMMA MendKept ==
  ASSUME DropsMended, EndFollows(bus', ToSet(log'), turn'), stale => stale', TailComes => TailComes',
         ToSet(log') \subseteq ToSet(log),
         \A id \in ToSet(log') : PageHas(id) => PageHas(id)',
         staged' = staged \/ DOMAIN staged' = {}
  PROVE  DropsMended'
<1>1. ASSUME ~stale', ~TailComes' PROVE Mended(staged', {id \in ToSet(log') : ~PageHas(id)'})
  <2>1. Mended(staged, {id \in ToSet(log) : ~PageHas(id)})
    BY <1>1 DEF DropsMended
  <2> QED BY <2>1 DEF Mended
<1>2. (EndFollows(bus, ToSet(log), turn))'
  BY DEF EndFollows
<1>3. (~stale /\ ~TailComes => Mended(staged, {id \in ToSet(log) : ~PageHas(id)}))'
  BY <1>1 DEF Mended
<1> QED
  BY <1>2, <1>3 DEF DropsMended

\* The newest page is going to be read: the rest need not be said.
LEMMA MendsComing ==
  ASSUME UndoSends', EndFollows(bus', ToSet(log'), turn'), stale' \/ TailComes'
  PROVE  Mends'
<1>1. (EndFollows(bus, ToSet(log), turn))'
  BY DEF EndFollows
<1> QED
  BY <1>1 DEF Mends, DropsMended, RowsCome

\* The newest page stays going to be read while what reads it is there.
LEMMA TailKept ==
  ASSUME turn => turn', settling => settling', UNCHANGED up,
         \A e \in ToSet(bus) : e.type \in {"ended", "connected"} => e \in ToSet(bus'),
         \A r \in ToSet(reads) : r.kind = "list" \/ (r.kind = "tail" /\ ~r.served) =>
           \E x \in ToSet(reads') : x.kind = r.kind /\ (r.kind = "tail" => ~x.served)
  PROVE  TailComes => TailComes'
BY DEF TailComes

\* Messages held stay shown, or come, while what brings them does.
LEMMA RowsKept ==
  ASSUME RowsCome, stale => stale', TailComes => TailComes', InputComes => InputComes' \/ TailComes',
         ToSet(log') \subseteq ToSet(log), gaveUp \subseteq gaveUp', slipped \subseteq slipped',
         withdrawn \subseteq withdrawn',
         \A id \in ToSet(log') : RowComes(id) /\ ~stale' /\ ~TailComes' /\ ~InputComes' =>
           RowComes(id)' \/ id \in (gaveUp' \cap slipped') \cup withdrawn'
  PROVE  RowsCome'
BY DEF RowsCome

\* The user's flushes show what was staged; a commit made here waits with its input.
LEMMA UserMends ==
  ASSUME Typed, DropsTold, Mends, Typed',
         \/ \E s : Types(s) \/ Runs(s)
         \/ \E s \in Sends : Asks(s) /\ ToSet(sending') = ToSet(sending) \cup {s}
  PROVE  Mends'
<1>0. UndoSends /\ DropsMended /\ RowsCome
  BY DEF Mends
<1>1. ASSUME NEW s, s.phase = "queued", s.undo => s.kind \in {"prompt", "command"},
             ToSet(sending') = ToSet(sending) \cup {s},
             UNCHANGED <<settling, log, inbox, turn, reads, bus, up, gaveUp, slipped, stale, withdrawn>>,
             \/ UNCHANGED <<rows, staged>>
             \/ DOMAIN staged' = {} /\ (s.undo \/ \A id \in Ids : Shows(staged, id) => id \in ToSet(rows'))
      PROVE  Mends'
  <2>1. UndoSends'
    BY <1>0, <1>1 DEF UndoSends
  <2>2. (TailComes <=> TailComes') /\ (InputComes => InputComes') /\ (s.undo => InputComes')
        /\ \A id : PageHas(id)' <=> PageHas(id)
    BY <1>1 DEF TailComes, InputComes, UndoWaits, PageHas
  <2>3. EndFollows(bus', ToSet(log'), turn')
    BY <1>0, <1>1 DEF DropsMended
  <2>4. DropsMended'
    BY <1>0, <1>1, <2>2, <2>3, MendKept
  <2>5. ASSUME NEW id \in ToSet(log), RowComes(id), ~stale, ~TailComes, ~InputComes' PROVE RowComes(id)'
    <3>1. CASE UNCHANGED <<rows, staged>>
      BY <1>1, <2>2, <2>5, <3>1 DEF RowComes
    <3>2. CASE PageHas(id) \/ \E e \in ToSet(bus) : Enqueues(e, id)
      BY <1>1, <2>2, <3>2 DEF RowComes
    <3>3. CASE /\ ~(PageHas(id) \/ \E e \in ToSet(bus) : Enqueues(e, id))
               /\ \A m \in Ids : Shows(staged, m) => m \in ToSet(rows')
      <4>1. id \in Ids
        BY SetTyped DEF Typed, ServiceTyped
      <4>2. Shows(staged, id)
        BY <1>0, <2>5, <3>3, FlushBrings DEF RowComes
      <4> QED BY <3>3, <4>1, <4>2 DEF RowComes
    <3> QED BY <1>1, <2>2, <2>5, <3>1, <3>2, <3>3
  <2>6. RowsCome'
    BY <1>0, <1>1, <2>2, <2>5, RowsKept
  <2> QED BY <2>1, <2>4, <2>6 DEF Mends
<1>2. ASSUME NEW s, Types(s) PROVE Mends'
  <2>1. DOMAIN staged' = {}
    BY <1>2, EmptySet DEF Types
  <2>2. s.undo \/ \A id \in Ids : Shows(staged, id) => id \in ToSet(rows')
    BY <1>2 DEF Types
  <2> QED BY <1>1, <1>2, <2>1, <2>2 DEF Types
<1>3. ASSUME NEW s, Runs(s) PROVE Mends'
  <2>1. s.undo => revert # 0
    BY <1>3 DEF Runs
  <2>2. CASE revert = 0 /\ UNCHANGED <<rows, revert, staged>>
    BY <1>1, <1>3, <2>2 DEF Runs
  <2>3. CASE revert # 0 /\ staged' = <<>>
    <3>1. DOMAIN staged' = {} /\ s.undo
      BY <1>3, <2>3, EmptySet DEF Runs
    <3> QED BY <1>1, <1>3, <3>1 DEF Runs
  <2> QED BY <1>3, <2>2, <2>3 DEF Runs
<1>4. ASSUME NEW s \in Sends, Asks(s), ToSet(sending') = ToSet(sending) \cup {s} PROVE Mends'
  BY <1>1, <1>4 DEF Asks, serviceVars
<1> QED
  BY <1>2, <1>3, <1>4

\* A send that reached the service leaves no commit of its own waiting but new input.
LEMMA AdmitsMends ==
  ASSUME Typed, Mends, NEW id \in Ids, Admits(id)
  PROVE  Mends'
<1>0. /\ UndoSends /\ DropsMended /\ ~Has(id) /\ Admit(id) /\ bus \in Seq(Events)
      /\ UNCHANGED <<rows, revert, staged, outbox, settling, turn, reads, up>>
  BY DEF Mends, Admits, Typed, WiresTyped
<1>1. /\ ToSet(log') = ToSet(log) \ Going /\ Going \subseteq ToSet(log) /\ inbox' # <<>>
      /\ stale' = (stale \/ (reverted # 0 /\ Overtaken))
      /\ CommitEvent.type = "committed" /\ CommitEvent.id = reverted
      /\ EnqueuedEvent(id).type = "enqueued"
      /\ EnqueuedEvent(id) \in Events /\ (reverted # 0 => CommitEvent \in Events)
      /\ up => /\ bus' = bus \o InputEvents(id)
               /\ ToSet(bus') = ToSet(bus) \cup {EnqueuedEvent(id)} \cup
                                  (IF reverted = 0 THEN {} ELSE {CommitEvent})
      /\ ~up => bus' = bus /\ bus = <<>>
  BY <1>0, AdmitParts
<1>2. UndoSends'
  <2>1. CASE sending' = sending
    BY <1>0, <2>1 DEF UndoSends
  <2>2. CASE Reaches
    BY <1>0, <2>2 DEF UndoSends, Reaches
  <2> QED BY <2>1, <2>2 DEF Admits
<1>3. EndFollows(bus', ToSet(log'), turn')
  <2>1. CASE ~up
    <3>1. DOMAIN bus' = {}
      BY <1>1, <2>1, EmptySet
    <3> QED BY <3>1 DEF EndFollows
  <2>2. CASE up
    <3>1. \A f \in ToSet(InputEvents(id)), m \in ToSet(log') : ~(f.type = "committed" /\ ~(m < f.id))
      <4>1. CASE reverted = 0
        <5>1. ToSet(<<EnqueuedEvent(id)>>) = {EnqueuedEvent(id)}
          BY <1>1, OneSet
        <5> QED BY <1>1, <4>1, <5>1 DEF InputEvents
      <4>2. CASE reverted # 0
        <5>1. ToSet(<<CommitEvent, EnqueuedEvent(id)>>) = {CommitEvent, EnqueuedEvent(id)}
          BY <1>1, <4>2, TwoSet
        <5>2. \A m \in ToSet(log') : m < reverted
          BY <1>1, <4>2 DEF Going
        <5> QED BY <1>1, <4>2, <5>1, <5>2 DEF InputEvents
      <4> QED BY <4>1, <4>2
    <3>2. InputEvents(id) \in Seq(Events)
      BY <1>1, OneSet, TwoSet DEF InputEvents
    <3>3. /\ EndFollows(bus, ToSet(log), turn) /\ ToSet(log') \subseteq ToSet(log) /\ (turn => turn')
          /\ bus' = bus \o InputEvents(id)
      BY <1>0, <1>1, <2>2 DEF DropsMended
    <3>4. EndFollows(bus \o InputEvents(id), ToSet(log'), turn')
      BY <1>0, <3>1, <3>2, <3>3, EndMore
    <3> QED BY <3>3, <3>4
  <2> QED BY <2>1, <2>2
<1>4. TailComes => TailComes'
  <2>1. \A e \in ToSet(bus) : e \in ToSet(bus')
    BY <1>1
  <2> QED BY <1>0, <2>1, TailKept
<1>5. DropsMended'
  <2>1. \A m : PageHas(m) <=> PageHas(m)'
    BY <1>0 DEF PageHas
  <2>2. (stale => stale') /\ ToSet(log') \subseteq ToSet(log)
    BY <1>1
  <2> QED BY <1>0, <1>3, <1>4, <2>1, <2>2, MendKept
<1>6. RowsCome'
  BY <1>1 DEF RowsCome, InputComes
<1> QED
  BY <1>2, <1>5, <1>6 DEF Mends

\* A moved boundary takes no message.
LEMMA BoundsMends ==
  ASSUME Typed, Mends, NEW e \in Events, Bounds(e)
  PROVE  Mends'
<1>0. /\ UndoSends /\ DropsMended /\ RowsCome /\ e.type \in {"staged", "cleared"} /\ (stale => stale')
      /\ UNCHANGED <<rows, revert, staged, outbox, settling, log, inbox, turn, reads, up, gaveUp, withdrawn>>
  BY DEF Mends, Bounds
<1>1. Told(e, {})
  BY BoundsTold
<1>2. slipped \subseteq slipped' /\ \A f \in ToSet(bus) : f \in ToSet(bus')
  BY <1>1 DEF Told
<1>3. UndoSends' /\ (UndoWaits => UndoWaits')
  <2>1. CASE sending' = sending
    BY <1>0, <2>1 DEF UndoSends, UndoWaits
  <2>2. CASE Reaches /\ sending[1].kind \in {"revert", "unrevert"}
    <3>1. ~sending[1].undo /\ ~sending'[1].undo
      BY <1>0, <2>2 DEF UndoSends, Reaches, Sends
    <3> QED BY <1>0, <2>2, <3>1 DEF UndoSends, UndoWaits, Reaches
  <2> QED BY <2>1, <2>2 DEF Bounds
<1>4. EndFollows(bus', ToSet(log'), turn')
  BY <1>0, <1>1, EndTold DEF DropsMended
<1>5. /\ TailComes => TailComes'
      /\ \A m : PageHas(m) <=> PageHas(m)'
  BY <1>0, <1>2, TailKept DEF PageHas
<1>6. DropsMended'
  BY <1>0, <1>4, <1>5, MendKept
<1>7. RowsCome'
  <2>1. InputComes => InputComes'
    BY <1>0, <1>3 DEF InputComes
  <2>2. \A m : RowComes(m) => RowComes(m)'
    BY <1>0, <1>2, <1>5 DEF RowComes
  <2> QED BY <1>0, <1>2, <1>5, <2>1, <2>2, RowsKept
<1> QED
  BY <1>3, <1>6, <1>7 DEF Mends

\* A delivery starts a turn, whose end reads the newest page; a cancel excuses what is off the screen.
LEMMA ServiceMends ==
  ASSUME Typed, Mends, (\E id \in Ids : Cancels(id)) \/ (\E h \in Ids : Delivers(h)) \/ Ends
  PROVE  Mends'
<1>0. UndoSends /\ DropsMended /\ RowsCome
  BY DEF Mends
<1>1. ASSUME NEW id \in Ids, Cancels(id) PROVE Mends'
  <2> DEFINE e == Event("cancelled", id, {id})
  <2>1. /\ Told(e, {id}) /\ e.type = "cancelled" /\ e \in Events
        /\ UNCHANGED <<rows, staged, sending, settling, log, turn, reads, up, gaveUp, stale>>
        /\ withdrawn' = withdrawn \cup (ToSet(log) \ ToSet(rows))
    BY <1>1 DEF Cancels, Told
  <2> HIDE DEF e
  <2>2. slipped \subseteq slipped' /\ \A f \in ToSet(bus) : f \in ToSet(bus')
    BY <2>1 DEF Told
  <2>3. UndoSends'
    BY <1>0, <2>1 DEF UndoSends
  <2>4. EndFollows(bus', ToSet(log'), turn')
    BY <1>0, <2>1, EndTold DEF DropsMended
  <2>5. /\ TailComes => TailComes'
        /\ \A m : PageHas(m) <=> PageHas(m)'
    BY <2>1, <2>2, TailKept DEF PageHas
  <2>6. DropsMended'
    BY <1>0, <2>1, <2>4, <2>5, MendKept
  <2>7. RowsCome'
    BY <2>1 DEF RowsCome, RowComes
  <2> QED BY <2>3, <2>6, <2>7 DEF Mends
<1>2. ASSUME NEW h \in Ids, Delivers(h) PROVE Mends'
  <2>1. turn' /\ UNCHANGED sending
    BY <1>2 DEF Delivers
  <2>2. UndoSends' /\ TailComes' /\ EndFollows(bus', ToSet(log'), turn')
    BY <1>0, <2>1 DEF UndoSends, TailComes, EndFollows
  <2> QED BY <2>2, MendsComing
<1>3. CASE Ends
  <2> DEFINE e == Event("ended", 0, {})
  <2>1. Told(e, {}) /\ e.type = "ended" /\ e \in Events /\ UNCHANGED <<sending, up>>
    BY <1>3 DEF Ends, Told
  <2> HIDE DEF e
  <2>2. UndoSends' /\ TailComes'
    BY <1>0, <2>1 DEF UndoSends, TailComes, Told
  <2>3. EndFollows(bus', ToSet(log'), turn')
    BY <1>0, <2>1, EndTold DEF DropsMended
  <2> QED BY <2>2, <2>3, MendsComing
<1> QED
  BY <1>1, <1>2, <1>3

\* A commit staged comes before the end of the turn whose page mends it.
LEMMA HandlesMends ==
  ASSUME Typed, Mends, NEW e \in Events, Handles(e)
  PROVE  Mends'
<1>0. /\ UndoSends /\ DropsMended /\ RowsCome /\ bus \in Seq(Events) /\ staged \in Seq(Proper)
      /\ bus # <<>> /\ e = bus[1] /\ bus' = Tail(bus) /\ ToSet(bus) = ToSet(bus') \cup {e}
      /\ staged' = staged \o Folded(e) /\ Folded(e) \in Seq(Proper)
      /\ ToSet(staged') = ToSet(staged) \cup ToSet(Folded(e))
      /\ settling' = (settling \/ e.type = "ended")
      /\ ToSet(reads') = ToSet(reads) \cup (CASE e.type = "ended" -> {Read("row")}
                                              [] e.type = "connected" -> {Read("list")}
                                              [] OTHER -> {})
      /\ UNCHANGED <<rows, sending, log, inbox, turn, up, gaveUp, slipped, stale, withdrawn>>
  BY DEF Mends, Handles, Typed, WiresTyped, RowsTyped
<1>1. /\ Read("row").kind = "row" /\ Read("list").kind = "list"
      /\ e.type \in {"enqueued", "delivered", "cancelled", "committed"} => e.id \in Ids
  <2>1. e \in ToSet(bus)
    BY <1>0
  <2> QED BY <2>1, ReadIs DEF Kinds, Typed, WiresTyped
<1>2. /\ \A u \in ToSet(Folded(e)) : u.op = "drop" => e.type = "committed" /\ u.id = e.id
      /\ \A id : FoldBrings(e, id) => \E u \in ToSet(Folded(e)) : Brings(u, id)
  BY <1>1, FoldedIs
<1>3. /\ EndFollows(bus', ToSet(log'), turn')
      /\ \A id \in ToSet(log) : e.type = "committed" /\ ~(id < e.id) =>
           turn \/ \E f \in ToSet(bus') : f.type = "ended"
  <2>1. EndFollows(bus, ToSet(log), turn)
    BY <1>0 DEF DropsMended
  <2>2. /\ EndFollows(Tail(bus), ToSet(log), turn)
        /\ \A id \in ToSet(log) : bus[1].type = "committed" /\ ~(id < bus[1].id) =>
             turn \/ \E f \in ToSet(Tail(bus)) : f.type = "ended"
    BY <1>0, <2>1, EndTail
  <2> QED BY <1>0, <2>2
<1>4. TailComes => TailComes'
  <2>1. CASE e.type = "ended"
    BY <1>0, <2>1 DEF TailComes
  <2>2. CASE e.type = "connected"
    <3>1. Read("list") \in ToSet(reads')
      BY <1>0, <2>2
    <3> QED BY <1>1, <3>1 DEF TailComes
  <2>3. CASE e.type \notin {"ended", "connected"}
    BY <1>0, <2>3 DEF TailComes
  <2> QED BY <2>1, <2>2, <2>3
<1>5. \A id : PageHas(id) => PageHas(id)'
  BY <1>0 DEF PageHas
<1>6. DropsMended'
  <2>1. ASSUME ~stale', ~TailComes' PROVE Mended(staged', {id \in ToSet(log') : ~PageHas(id)'})
    <3> DEFINE held == {id \in ToSet(log) : ~PageHas(id)}
    <3>1. Mended(staged, held)
      BY <1>0, <1>4, <2>1 DEF DropsMended
    <3>2. \A u \in ToSet(Folded(e)), id \in held : ~(u.op = "drop" /\ ~(id < u.id))
      BY <1>0, <1>2, <1>3, <2>1 DEF TailComes
    <3>3. {id \in ToSet(log') : ~PageHas(id)'} \subseteq held
      BY <1>0, <1>5
    <3> HIDE DEF held
    <3>4. Mended(staged', held)
      BY <1>0, <3>1, <3>2, MendedMore
    <3> QED BY <3>3, <3>4 DEF Mended
  <2>2. (~stale /\ ~TailComes => Mended(staged, {id \in ToSet(log) : ~PageHas(id)}))'
    BY <2>1 DEF Mended
  <2>3. (EndFollows(bus, ToSet(log), turn))'
    BY <1>3 DEF EndFollows
  <2> QED BY <2>2, <2>3 DEF DropsMended
<1>7. RowsCome'
  <2>1. InputComes => InputComes'
    BY <1>0 DEF InputComes, UndoWaits
  <2>2. ASSUME NEW id, RowComes(id) PROVE RowComes(id)'
    <3>1. CASE Enqueues(e, id)
      <4>1. \E u \in ToSet(staged') : Brings(u, id)
        BY <1>0, <1>2, <3>1 DEF Enqueues, FoldBrings
      <4> QED BY <4>1 DEF RowComes, Brings
    <3>2. CASE ~Enqueues(e, id)
      <4>1. CASE id \in ToSet(rows) \/ PageHas(id)
        BY <1>0, <1>5, <4>1 DEF RowComes
      <4>2. CASE \E f \in ToSet(bus) : Enqueues(f, id)
        BY <1>0, <3>2, <4>2 DEF RowComes
      <4>3. CASE \E u \in ToSet(staged) : Brings(u, id)
        <5>1. \E u \in ToSet(staged') : Brings(u, id)
          BY <1>0, <4>3
        <5> QED BY <5>1 DEF RowComes, Brings
      <4> QED BY <2>2, <4>1, <4>2, <4>3 DEF RowComes
    <3> QED BY <3>1, <3>2
  <2> QED BY <1>0, <1>4, <2>1, <2>2, RowsKept
<1>8. UndoSends'
  BY <1>0 DEF UndoSends
<1> QED
  BY <1>6, <1>7, <1>8 DEF Mends

\* A flush, of an answer or of a failed send.
LEMMA AnswersMends ==
  ASSUME Typed, DropsTold, Mends, Answers
  PROVE  Mends'
<1>0. /\ UndoSends /\ DropsMended /\ RowsCome /\ sending[1].phase = "taken"
      /\ ToSet(sending) = ToSet(sending') \cup {sending[1]}
      /\ UNCHANGED <<settling, log, inbox, turn, reads, bus, up, gaveUp, slipped, stale, withdrawn>>
      /\ \/ UNCHANGED <<rows, staged>>
         \/ staged' = <<>> /\ \A id \in Ids : Shows(staged, id) => id \in ToSet(rows')
  BY DEF Mends, Answers
<1>1. UndoSends' /\ (UndoWaits => UndoWaits')
  BY <1>0 DEF UndoSends, UndoWaits
<1>2. (TailComes <=> TailComes') /\ (InputComes => InputComes') /\ \A id : PageHas(id)' <=> PageHas(id)
  BY <1>0, <1>1 DEF TailComes, InputComes, PageHas
<1>3. DropsMended'
  <2>1. EndFollows(bus', ToSet(log'), turn')
    BY <1>0 DEF DropsMended
  <2>2. staged' = staged \/ DOMAIN staged' = {}
    BY <1>0, EmptySet
  <2> QED BY <1>0, <1>2, <2>1, <2>2, MendKept
<1>4. ASSUME NEW id \in ToSet(log), RowComes(id), ~stale, ~TailComes PROVE RowComes(id)'
  <2>1. CASE UNCHANGED <<rows, staged>>
    BY <1>0, <1>2, <1>4, <2>1 DEF RowComes
  <2>2. CASE PageHas(id) \/ \E e \in ToSet(bus) : Enqueues(e, id)
    BY <1>0, <1>2, <2>2 DEF RowComes
  <2>3. CASE /\ ~(PageHas(id) \/ \E e \in ToSet(bus) : Enqueues(e, id))
             /\ \A m \in Ids : Shows(staged, m) => m \in ToSet(rows')
    <3>1. id \in Ids
      BY SetTyped DEF Typed, ServiceTyped
    <3>2. Shows(staged, id)
      BY <1>0, <1>4, <2>3, FlushBrings DEF RowComes
    <3> QED BY <2>3, <3>1, <3>2 DEF RowComes
  <2> QED BY <1>0, <2>1, <2>2, <2>3
<1>5. RowsCome'
  BY <1>0, <1>2, <1>4, RowsKept
<1> QED
  BY <1>1, <1>3, <1>5 DEF Mends

\* A failed send takes back its own row, and reads the page if it committed a revert.
LEMMA FailsMends ==
  ASSUME Typed, Known, DropsTold, Mends, Fails
  PROVE  Mends'
<1> DEFINE s == sending[1]
<1>0. /\ UndoSends /\ DropsMended /\ RowsCome /\ EchoComes
      /\ ToSet(sending) = ToSet(sending') \cup {s}
      /\ IF s.undo THEN ToSet(reads') = ToSet(reads) \cup {Read("row"), Read("tail")} ELSE reads' = reads
      /\ gaveUp' = gaveUp \cup ({s.id} \ {0})
      /\ UNCHANGED <<settling, log, inbox, turn, bus, up, slipped, stale, withdrawn>>
  BY DEF Mends, Fails, Known
<1>1. UndoSends' /\ EndFollows(bus', ToSet(log'), turn')
  BY <1>0 DEF UndoSends, DropsMended
<1>2. CASE s.undo
  <2>1. Read("tail") \in ToSet(reads') /\ Read("tail").kind = "tail" /\ ~Read("tail").served
    BY <1>0, <1>2, ReadIs DEF Kinds
  <2>2. TailComes'
    BY <2>1 DEF TailComes
  <2> QED BY <1>1, <2>2, MendsComing
<1>3. CASE ~s.undo
  <2>1. (TailComes <=> TailComes') /\ (InputComes => InputComes') /\ \A id : PageHas(id)' <=> PageHas(id)
    BY <1>0, <1>3 DEF TailComes, InputComes, PageHas, UndoWaits
  <2>2. \/ UNCHANGED <<rows, staged>>
        \/ /\ staged' = <<>> /\ s.id \in outbox
           /\ \A id \in Ids : id \in ToSet(rows') <=> Shows(staged, id) /\ id # s.id
    BY DEF Fails
  <2>3. DropsMended'
    <3>1. staged' = staged \/ DOMAIN staged' = {}
      BY <2>2, EmptySet
    <3> QED BY <1>0, <1>1, <2>1, <3>1, MendKept
  <2>4. ASSUME NEW id \in ToSet(log), RowComes(id), ~stale, ~TailComes
        PROVE  RowComes(id)' \/ id \in (gaveUp' \cap slipped') \cup withdrawn'
    <3>1. id \in Ids /\ Has(id)
      BY SetTyped DEF Typed, ServiceTyped, Has
    <3>2. CASE UNCHANGED <<rows, staged>>
      BY <1>0, <2>1, <2>4, <3>2 DEF RowComes
    <3>3. CASE PageHas(id) \/ \E e \in ToSet(bus) : Enqueues(e, id)
      BY <1>0, <2>1, <3>3 DEF RowComes
    <3>4. CASE ~(PageHas(id) \/ \E e \in ToSet(bus) : Enqueues(e, id)) /\ ~UNCHANGED <<rows, staged>>
      <4>1. CASE id = s.id
        <5>1. id \in outbox /\ id \in slipped
          BY <1>0, <2>2, <3>1, <3>4, <4>1 DEF EchoComes
        <5>2. id # 0
          BY <3>1 DEF Ids
        <5> QED BY <1>0, <4>1, <5>1, <5>2
      <4>2. CASE id # s.id
        <5>1. Shows(staged, id)
          BY <1>0, <2>4, <3>4, FlushBrings DEF RowComes
        <5> QED BY <2>2, <3>1, <3>4, <4>2, <5>1 DEF RowComes
      <4> QED BY <4>1, <4>2
    <3> QED BY <3>2, <3>3, <3>4
  <2>5. RowsCome'
    BY <1>0, <2>1, <2>4, RowsKept
  <2> QED BY <1>1, <2>3, <2>5 DEF Mends
<1> QED
  BY <1>2, <1>3

\* A flush shows what was staged; a page read brings what the service holds.
LEMMA ClientMends ==
  ASSUME Typed, DropsTold, Mends,
         \/ Flushes \/ Settles \/ Misses \/ Loses \/ Connects
         \/ (\E r, g : Serves(r, g)) \/ \E r : Applies(r)
  PROVE  Mends'
<1>0. /\ UndoSends /\ DropsMended /\ RowsCome /\ EndFollows(bus, ToSet(log), turn)
      /\ staged \in Seq(Proper) /\ Read("tail").kind = "tail" /\ ~Read("tail").served
  BY ReadIs DEF Mends, DropsMended, Typed, RowsTyped, Kinds
<1>1. ASSUME UNCHANGED <<sending, log, turn, bus>> PROVE UndoSends' /\ EndFollows(bus', ToSet(log'), turn')
  BY <1>0, <1>1 DEF UndoSends
<1>2. ASSUME staged' = <<>>, \A id \in Ids : id \in ToSet(rows') <=> Shows(staged, id),
             UNCHANGED <<sending, settling, log, inbox, turn, reads, bus, up, gaveUp, slipped, stale, withdrawn>>
      PROVE  Mends'
  <2>1. (TailComes <=> TailComes') /\ (InputComes <=> InputComes') /\ \A id : PageHas(id)' <=> PageHas(id)
    BY <1>2 DEF TailComes, InputComes, PageHas, UndoWaits
  <2>2. DropsMended'
    <3>1. DOMAIN staged' = {}
      BY <1>2, EmptySet
    <3> QED BY <1>0, <1>1, <1>2, <2>1, <3>1, MendKept
  <2>3. ASSUME NEW id \in ToSet(log), RowComes(id), ~stale, ~TailComes PROVE RowComes(id)'
    <3>1. CASE PageHas(id) \/ \E e \in ToSet(bus) : Enqueues(e, id)
      BY <1>2, <2>1, <3>1 DEF RowComes
    <3>2. CASE ~(PageHas(id) \/ \E e \in ToSet(bus) : Enqueues(e, id))
      <4>1. id \in Ids
        BY SetTyped DEF Typed, ServiceTyped
      <4>2. Shows(staged, id)
        BY <1>0, <2>3, <3>2, FlushBrings DEF RowComes
      <4> QED BY <1>2, <4>1, <4>2 DEF RowComes
    <3> QED BY <3>1, <3>2
  <2>4. RowsCome'
    BY <1>0, <1>2, <2>1, <2>3, RowsKept
  <2> QED BY <1>1, <1>2, <2>2, <2>4 DEF Mends
<1>3. CASE Flushes
  BY <1>2, <1>3 DEF Flushes
<1>4. CASE Settles
  <2>1. Read("tail") \in ToSet(reads') /\ UNCHANGED <<sending, log, turn, bus>>
    BY <1>4 DEF Settles
  <2>2. TailComes'
    BY <1>0, <2>1 DEF TailComes
  <2> QED BY <1>1, <2>1, <2>2, MendsComing
<1>5. CASE Misses
  BY <1>1, <1>5, MendsComing DEF Misses
<1>6. CASE Loses
  <2>1. UNCHANGED sending /\ ~up' /\ DOMAIN bus' = {}
    BY <1>6, EmptySet DEF Loses
  <2>2. UndoSends' /\ TailComes' /\ EndFollows(bus', ToSet(log'), turn')
    BY <1>0, <2>1 DEF UndoSends, TailComes, EndFollows
  <2> QED BY <2>2, MendsComing
<1>7. CASE Connects
  <2>1. UNCHANGED sending /\ DOMAIN bus' = {1} /\ bus'[1].type = "connected"
    BY <1>7 DEF Connects
  <2>2. UndoSends' /\ TailComes' /\ EndFollows(bus', ToSet(log'), turn')
    BY <1>0, <2>1 DEF UndoSends, TailComes, EndFollows, ToSet
  <2> QED BY <2>2, MendsComing
<1>8. ASSUME NEW r, NEW g, Serves(r, g) PROVE Mends'
  <2>1. /\ UNCHANGED <<rows, staged, sending, settling, log, inbox, turn, bus, up, gaveUp, slipped, stale, withdrawn>>
        /\ ~r.served /\ g.kind = r.kind /\ g.served /\ (r.kind = "tail" => g.page = Page)
        /\ g \in ToSet(reads') /\ ToSet(reads) \subseteq ToSet(reads') \cup {r}
    BY <1>8 DEF Serves
  <2>2. UndoSends' /\ EndFollows(bus', ToSet(log'), turn')
    BY <1>1, <2>1
  <2>3. \A id : PageHas(id) => PageHas(id)'
    BY <2>1 DEF PageHas
  <2>4. CASE r.kind = "tail"
    <3>1. ToSet(log) \subseteq ToSet(Page)
      BY PageIs DEF Typed
    <3>2. \A id \in ToSet(log') : PageHas(id)'
      BY <2>1, <2>4, <3>1 DEF PageHas
    <3>3. (~stale /\ ~TailComes => Mended(staged, {id \in ToSet(log) : ~PageHas(id)}))'
      BY <3>2 DEF Mended
    <3>4. (EndFollows(bus, ToSet(log), turn))'
      BY <2>2 DEF EndFollows
    <3>5. RowsCome'
      BY <3>2 DEF RowsCome, RowComes
    <3> QED BY <2>2, <3>3, <3>4, <3>5 DEF Mends, DropsMended
  <2>5. CASE r.kind # "tail"
    <3>1. TailComes => TailComes'
      BY <2>1, <2>5, TailKept
    <3>2. DropsMended'
      BY <1>0, <2>1, <2>2, <2>3, <3>1, MendKept
    <3>3. \A id : RowComes(id) => RowComes(id)'
      BY <2>1, <2>3 DEF RowComes
    <3>4. InputComes => InputComes'
      BY <2>1 DEF InputComes, UndoWaits
    <3>5. RowsCome'
      BY <1>0, <2>1, <3>1, <3>3, <3>4, RowsKept
    <3> QED BY <2>2, <3>2, <3>5 DEF Mends
  <2> QED BY <2>4, <2>5
<1>9. ASSUME NEW r, Applies(r) PROVE Mends'
  <2>1. /\ UNCHANGED <<sending, settling, log, inbox, turn, bus, up, gaveUp, slipped, stale, withdrawn>>
        /\ r.served /\ ToSet(reads) \subseteq ToSet(reads') \cup {r}
    BY <1>9 DEF Applies
  <2>2. UndoSends' /\ EndFollows(bus', ToSet(log'), turn')
    BY <1>1, <2>1
  <2>3. CASE r.kind = "list"
    <3>1. Read("tail") \in ToSet(reads')
      BY <1>9, <2>3 DEF Applies
    <3>2. TailComes'
      BY <1>0, <3>1 DEF TailComes
    <3> QED BY <2>2, <3>2, MendsComing
  <2>4. ASSUME NEW u \in Proper, u.op \in {"merge", "revert"}, u.op = "merge" => u.page = r.page,
               r.kind = "tail" => u.op = "merge", r.kind # "list",
               staged' = staged \o <<u>>, ToSet(staged') = ToSet(staged) \cup {u}, UNCHANGED rows
        PROVE  Mends'
    <3>1. TailComes => TailComes'
      BY <2>1, <2>4, TailKept
    <3>2. \A id : PageHas(id) => PageHas(id)' \/ (u.op = "merge" /\ id \in ToSet(u.page))
      BY <2>1, <2>4 DEF PageHas
    <3>3. DropsMended'
      <4>1. ASSUME ~stale', ~TailComes' PROVE Mended(staged', {id \in ToSet(log') : ~PageHas(id)'})
        <5> DEFINE held == {id \in ToSet(log) : ~PageHas(id)'}
        <5>1. Mended(staged, {id \in ToSet(log) : ~PageHas(id)})
          BY <1>0, <2>1, <3>1, <4>1 DEF DropsMended
        <5>2. CASE u.op = "merge"
          <6>1. Mended(staged, held \ ToSet(u.page))
            BY <3>2, <5>1 DEF Mended
          <6> HIDE DEF held
          <6>2. Mended(staged \o <<u>>, held)
            BY <1>0, <5>2, <6>1, MendedMerge
          <6> QED BY <2>1, <2>4, <6>2 DEF held
        <5>3. CASE u.op = "revert"
          <6>1. Mended(staged, held)
            BY <3>2, <5>1, <5>3 DEF Mended
          <6>2. <<u>> \in Seq(Proper) /\ ToSet(<<u>>) = {u}
            BY OneSet
          <6> HIDE DEF held
          <6>3. \A x \in ToSet(<<u>>), id \in held : ~(x.op = "drop" /\ ~(id < x.id))
            BY <5>3, <6>2
          <6>4. Mended(staged \o <<u>>, held)
            BY <1>0, <6>1, <6>2, <6>3, MendedMore
          <6> QED BY <2>1, <2>4, <6>4 DEF held
        <5> QED BY <2>4, <5>2, <5>3
      <4>2. (~stale /\ ~TailComes => Mended(staged, {id \in ToSet(log) : ~PageHas(id)}))'
        BY <4>1 DEF Mended
      <4>3. (EndFollows(bus, ToSet(log), turn))'
        BY <2>2 DEF EndFollows
      <4> QED BY <4>2, <4>3 DEF DropsMended
    <3>4. ASSUME NEW id, RowComes(id) PROVE RowComes(id)'
      <4>1. CASE id \in ToSet(rows) \/ \E e \in ToSet(bus) : Enqueues(e, id)
        BY <2>1, <2>4, <4>1 DEF RowComes
      <4>2. CASE PageHas(id) \/ \E x \in ToSet(staged) : Brings(x, id)
        <5>1. PageHas(id)' \/ \E x \in ToSet(staged') : Brings(x, id)
          BY <2>4, <3>2, <4>2 DEF Brings
        <5> QED BY <5>1 DEF RowComes, Brings
      <4> QED BY <3>4, <4>1, <4>2 DEF RowComes
    <3>5. InputComes => InputComes'
      BY <2>1 DEF InputComes, UndoWaits
    <3>6. RowsCome'
      BY <1>0, <2>1, <3>1, <3>4, <3>5, RowsKept
    <3> QED BY <2>2, <3>3, <3>6 DEF Mends
  <2>5. CASE r.kind = "tail"
    <3>1. /\ Merge(r.page).op = "merge" /\ Merge(r.page).page = r.page /\ Merge(r.page) \in Proper
          /\ staged' = staged \o <<Merge(r.page)>> /\ ToSet(staged') = ToSet(staged) \cup {Merge(r.page)}
          /\ UNCHANGED rows
      BY <1>9, <2>5 DEF Applies
    <3> QED BY <2>4, <2>5, <3>1
  <2>6. CASE r.kind = "row"
    <3>1. /\ SetRevert(r.revert).op = "revert" /\ SetRevert(r.revert) \in Proper
          /\ staged' = staged \o <<SetRevert(r.revert)>> /\ ToSet(staged') = ToSet(staged) \cup {SetRevert(r.revert)}
          /\ UNCHANGED rows
      BY <1>9, <2>6 DEF Applies
    <3> QED BY <2>4, <2>6, <3>1
  <2>7. r.kind \in {"tail", "row", "list"}
    BY <1>9 DEF Applies
  <2> QED BY <2>3, <2>5, <2>6, <2>7
<1> QED
  BY <1>3, <1>4, <1>5, <1>6, <1>7, <1>8, <1>9

-----------------------------------------------------------------------------
(* The invariant holds *)

\* The session as first read.
LEMMA InitShown == Init => Shown
<1> SUFFICES ASSUME Init PROVE Shown
  OBVIOUS
<1>0. /\ 1 \in Ids /\ 2 \in Ids /\ MaxId \in Nat /\ 3 <= MaxId + 1 /\ {0, 2} \subseteq 0 .. MaxId
      /\ MaxCommands \in Nat /\ MaxFaults \in Nat /\ MaxReads \in Nat
  BY PromptsBounds DEF Ids
<1>1. /\ log = rows /\ taken = rows /\ revert \in {0, 2} /\ reverted = revert
      /\ staged = <<>> /\ outbox = {} /\ sending = <<>> /\ settling = FALSE
      /\ inbox = <<>> /\ turn = FALSE
      /\ reads = <<>> /\ bus = <<>> /\ up = TRUE /\ late = {}
      /\ next = 3 /\ commands = 0 /\ faults = 0
      /\ mine = {} /\ gaveUp = {} /\ slipped = {} /\ stale = FALSE /\ withdrawn = {}
  BY DEF Init
<1>2. rows \in Seq(Ids) /\ ToSet(rows) = {1, 2} /\ IsInjective(rows)
  <2>1. rows = <<1, 2>>
    BY DEF Init
  <2>2. /\ rows \in Seq(Ids) /\ ToSet(rows) = {1, 2} /\ DOMAIN rows = {1, 2} /\ rows[1] = 1 /\ rows[2] = 2
    BY <1>0, <2>1, TwoSet
  <2> QED BY <2>2 DEF IsInjective
<1>3. /\ ToSet(staged) = {} /\ DOMAIN staged = {} /\ Len(staged) = 0
      /\ ToSet(sending) = {} /\ DOMAIN sending = {}
      /\ ToSet(inbox) = {} /\ DOMAIN inbox = {}
      /\ ToSet(reads) = {} /\ DOMAIN reads = {} /\ Len(reads) = 0
      /\ ToSet(bus) = {} /\ DOMAIN bus = {}
  BY <1>1, EmptySet
<1>4. Typed
  <2>1. RowsTyped
    BY <1>0, <1>1, <1>2 DEF RowsTyped
  <2>2. ServiceTyped
    <3>1. inbox \in Seq(Ids) /\ IsInjective(inbox) /\ IsInjective(log) /\ turn \in BOOLEAN
      <4>1. IsInjective(inbox)
        BY <1>3 DEF IsInjective
      <4>2. IsInjective(log)
        BY <1>1, <1>2
      <4>3. inbox \in Seq(Ids)
        BY <1>1
      <4>4. turn \in BOOLEAN
        BY <1>1
      <4> QED BY <4>1, <4>2, <4>3, <4>4
    <3>2. log \in Seq(Ids) /\ taken \in Seq(Ids) /\ IsInjective(taken) /\ reverted \in 0 .. MaxId
      BY <1>0, <1>1, <1>2
    <3>3. ToSet(log) \cap ToSet(inbox) = {} /\ ToSet(log) \cup ToSet(inbox) \subseteq ToSet(taken)
      BY <1>1, <1>3
    <3> QED BY <3>1, <3>2, <3>3 DEF ServiceTyped
  <2>3. SendsTyped
    <3>1. CommandsQueued = {} /\ Cardinality({}) = 0
      BY <1>3, FS_EmptySet DEF CommandsQueued
    <3>2. next \in 1 .. MaxId + 1 /\ sending \in Seq(Sends)
      BY <1>0, <1>1
    <3> QED BY <1>0, <1>1, <1>3, <3>1, <3>2 DEF SendsTyped
  <2>4. WiresTyped
    <3>1. reads \in Seq(Reads) /\ bus \in Seq(Events) /\ Len(reads) <= MaxReads
      BY <1>0, <1>1, <1>3
    <3>2. settling \in BOOLEAN /\ up \in BOOLEAN /\ (~up => bus = <<>>)
      BY <1>1
    <3> QED BY <1>3, <3>1, <3>2 DEF WiresTyped
  <2>5. RestTyped
    <3>1. commands \in 0 .. MaxCommands /\ faults \in 0 .. MaxFaults
      BY <1>0, <1>1
    <3>2. /\ late \subseteq Ids /\ mine \subseteq Ids /\ gaveUp \subseteq Ids /\ slipped \subseteq Ids
          /\ withdrawn \subseteq Ids
      BY <1>1
    <3>3. stale \in BOOLEAN
      BY <1>1
    <3> QED BY <3>1, <3>2, <3>3 DEF RestTyped
  <2> QED BY <2>1, <2>2, <2>3, <2>4, <2>5 DEF Typed
<1>5. Known
  BY <1>1, <1>2, <1>3 DEF Known, Unsent, Sourced, OutboxKept, EchoComes, Has
<1>6. DropsTold
  BY <1>1, <1>2, <1>3 DEF DropsTold, EchoFirst, Dropped, Has, Keeps
<1>7. RevertsTold
  BY <1>1, <1>3 DEF RevertsTold, LastTold
<1>8. RevertComes
  BY <1>1, <1>3 DEF RevertComes, RevertAt, Sets
<1>9. Mends
  BY <1>1, <1>2, <1>3 DEF Mends, UndoSends, DropsMended, EndFollows, Mended, RowsCome, RowComes
<1> QED
  BY <1>4, <1>5, <1>6, <1>7, <1>8, <1>9 DEF Shown

\* Nothing changes.
LEMMA StutterShown == Shown /\ UNCHANGED vars => Shown'
<1> SUFFICES ASSUME Shown, UNCHANGED vars PROVE Shown'
  OBVIOUS
<1>0. UNCHANGED <<rows, revert, staged, outbox, sending, settling, reads, log, inbox, reverted, turn, bus, up, late,
                  next, commands, faults, taken, mine, gaveUp, slipped, stale, withdrawn>>
  BY DEF vars, clientVars, serviceVars, userVars
<1>1. Typed'
  <2>1. RowsTyped' /\ ServiceTyped' /\ WiresTyped' /\ RestTyped'
    BY <1>0 DEF Shown, Typed, RowsTyped, ServiceTyped, WiresTyped, RestTyped
  <2>2. SendsTyped'
    BY <1>0 DEF Shown, Typed, SendsTyped, CommandsQueued
  <2> QED BY <2>1, <2>2 DEF Typed
<1>2. Known'
  BY <1>0 DEF Shown, Known, Unsent, Sourced, OutboxKept, EchoComes, Has, Waits, Brings, Enqueues
<1>3. DropsTold'
  <2>1. EchoFirst(bus') /\ \A id : Keeps(id)' <=> Keeps(id)
    BY <1>0 DEF Shown, DropsTold, EchoFirst, Keeps
  <2>2. \A id : Shows(staged, id)' <=> Shows(staged, id)
    BY <1>0, ShowsSame
  <2> QED BY <1>0, <2>1, <2>2, DropsKept DEF Shown
<1>4. RevertsTold'
  BY <1>0 DEF Shown, RevertsTold, LastTold
<1>5. RevertComes'
  <2>1. \A to : RevertAt(staged, Len(staged), to)' <=> RevertAt(staged, Len(staged), to)
    BY <1>0, RevertSame
  <2>2. (RevertRead' <=> RevertRead) /\ (UndoWaits' <=> UndoWaits)
    BY <1>0 DEF RevertRead, UndoWaits
  <2> QED BY <1>0, <2>1, <2>2 DEF Shown, RevertComes
<1>6. Mends'
  <2>1. /\ UndoSends' /\ (TailComes' <=> TailComes) /\ (InputComes' <=> InputComes)
        /\ \A id : (PageHas(id)' <=> PageHas(id)) /\ (RowComes(id)' <=> RowComes(id))
    BY <1>0 DEF Shown, Mends, UndoSends, TailComes, InputComes, UndoWaits, PageHas, RowComes, Brings, Enqueues
  <2>2. DropsMended'
    <3>1. EndFollows(bus', ToSet(log'), turn')
      BY <1>0 DEF Shown, Mends, DropsMended
    <3> QED BY <1>0, <2>1, <3>1, MendKept DEF Shown, Mends
  <2>3. RowsCome'
    BY <1>0, <2>1, RowsKept DEF Shown, Mends
  <2> QED BY <2>1, <2>2, <2>3 DEF Mends
<1> QED
  BY <1>1, <1>2, <1>3, <1>4, <1>5, <1>6 DEF Shown

\* The user's steps keep the invariant.
LEMMA UserShown ==
  ASSUME InOrder, Shown, Prompt \/ Command \/ Unrevert \/ \E id \in Ids : Revert(id)
  PROVE  Shown'
<1>0. Typed /\ Known /\ DropsTold /\ RevertsTold /\ RevertComes /\ Mends
  BY DEF Shown
<1>1. CASE Prompt
  <2>1. Typed' /\ \E s : Types(s)
    BY <1>0, <1>1, TypesParts
  <2>2. PICK s : Types(s)
    BY <2>1
  <2>3. Known' /\ DropsTold' /\ RevertsTold' /\ RevertComes' /\ Mends'
    BY <1>0, <2>1, <2>2, TypesKnown, UserDrops, UserReverts, UserMends
  <2> QED BY <2>1, <2>3 DEF Shown
<1>2. CASE Command
  <2>1. Typed' /\ \E s : Runs(s)
    BY <1>0, <1>2, RunsParts
  <2>2. PICK s : Runs(s)
    BY <2>1
  <2>3. Known' /\ DropsTold' /\ RevertsTold' /\ RevertComes' /\ Mends'
    BY <1>0, <2>1, <2>2, RunsKnown, UserDrops, UserReverts, UserMends
  <2> QED BY <2>1, <2>3 DEF Shown
<1>3. CASE Unrevert \/ \E id \in Ids : Revert(id)
  <2>1. PICK s \in Sends : Asks(s)
    BY <1>3, AsksParts
  <2>2. /\ Typed' /\ ToSet(sending') = ToSet(sending) \cup {s}
        /\ sending' # <<>> /\ sending'[1] = IF sending = <<>> THEN s ELSE sending[1]
    BY <1>0, <2>1, AsksTyped
  <2>3. Known' /\ DropsTold' /\ Mends'
    BY <1>0, <2>1, <2>2, AsksKnown, UserDrops, UserMends
  <2>4. RevertsTold' /\ RevertComes'
    BY <1>0, <2>1, <2>2, UserReverts
  <2> QED BY <2>2, <2>3, <2>4 DEF Shown
<1> QED
  BY <1>1, <1>2, <1>3

\* The service's and the other clients' steps keep it.
LEMMA ServiceShown ==
  ASSUME InOrder, Shown,
         \/ PromptTaken \/ CommandTaken \/ OtherPrompt \/ (\E id \in Ids : LateTaken(id))
         \/ RevertTaken \/ UnrevertTaken \/ (\E id \in Ids : OtherRevert(id))
         \/ (\E id \in Ids : OtherCancel(id)) \/ Deliver \/ EndTurn
  PROVE  Shown'
<1>0. Typed /\ Known /\ DropsTold /\ RevertsTold /\ RevertComes /\ Mends
  BY DEF Shown
<1>1. CASE PromptTaken \/ CommandTaken \/ OtherPrompt \/ \E id \in Ids : LateTaken(id)
  <2>1. Typed' /\ \E id \in Ids : Admits(id)
    BY <1>0, <1>1, AdmitsParts
  <2>2. PICK id \in Ids : Admits(id)
    BY <2>1
  <2>3. Known' /\ DropsTold' /\ RevertsTold' /\ RevertComes' /\ Mends'
    BY <1>0, <2>1, <2>2, AdmitsKnown, AdmitsDrops, AdmitsReverts, AdmitsMends
  <2> QED BY <2>1, <2>3 DEF Shown
<1>2. CASE RevertTaken \/ UnrevertTaken \/ \E id \in Ids : OtherRevert(id)
  <2>1. Typed' /\ \E e \in Events : Bounds(e)
    BY <1>0, <1>2, BoundsParts
  <2>2. PICK e \in Events : Bounds(e)
    BY <2>1
  <2>3. Known' /\ DropsTold' /\ RevertsTold' /\ RevertComes' /\ Mends'
    BY <1>0, <2>1, <2>2, BoundsKnown, ServiceDrops, BoundsReverts, BoundsMends
  <2> QED BY <2>1, <2>3 DEF Shown
<1>3. ASSUME NEW id \in Ids, OtherCancel(id) PROVE Shown'
  <2>1. Typed' /\ Cancels(id)
    BY <1>0, <1>3, CancelsParts
  <2>2. Known' /\ DropsTold' /\ RevertsTold' /\ RevertComes' /\ Mends'
    BY <1>0, <2>1, ServiceKnown, CancelsDrops, ServiceReverts, ServiceMends
  <2> QED BY <2>1, <2>2 DEF Shown
<1>4. CASE Deliver
  <2>1. Typed' /\ \E h \in Ids : Delivers(h)
    BY <1>0, <1>4, DeliversParts
  <2>2. Known' /\ DropsTold' /\ RevertsTold' /\ RevertComes' /\ Mends'
    BY <1>0, <2>1, ServiceKnown, ServiceDrops, ServiceReverts, ServiceMends
  <2> QED BY <2>1, <2>2 DEF Shown
<1>5. CASE EndTurn
  <2>1. Typed' /\ Ends
    BY <1>0, <1>5, EndsParts
  <2>2. Known' /\ DropsTold' /\ RevertsTold' /\ RevertComes' /\ Mends'
    BY <1>0, <2>1, ServiceKnown, ServiceDrops, ServiceReverts, ServiceMends
  <2> QED BY <2>1, <2>2 DEF Shown
<1> QED
  BY <1>1, <1>2, <1>3, <1>4, <1>5

\* The client's steps keep it.
LEMMA ClientShown ==
  ASSUME InOrder, Shown,
         \/ Answered \/ (\E arrives \in BOOLEAN : SendFailed(arrives)) \/ OnEvent \/ Flush \/ Settle
         \/ BusLost \/ Reconnect \/ ReadStep
  PROVE  Shown'
<1>0. Typed /\ Known /\ DropsTold /\ RevertsTold /\ RevertComes /\ Mends
  BY DEF Shown
<1>1. CASE Answered
  <2>1. Typed' /\ Answers
    BY <1>0, <1>1, AnswersParts
  <2>2. Known' /\ DropsTold' /\ RevertsTold' /\ RevertComes' /\ Mends'
    BY <1>0, <2>1, AnswersKnown, ClientDrops, AnswersReverts, AnswersMends
  <2> QED BY <2>1, <2>2 DEF Shown
<1>2. ASSUME NEW arrives \in BOOLEAN, SendFailed(arrives) PROVE Shown'
  <2>1. Typed' /\ Fails
    BY <1>0, <1>2, FailsParts
  <2>2. Known' /\ DropsTold' /\ RevertsTold' /\ RevertComes' /\ Mends'
    BY <1>0, <2>1, FailsKnown, ClientDrops, FailsReverts, FailsMends
  <2> QED BY <2>1, <2>2 DEF Shown
<1>3. CASE OnEvent
  <2>1. Typed' /\ \E e \in Events : Handles(e)
    BY <1>0, <1>3, HandlesParts
  <2>2. Known' /\ DropsTold' /\ RevertsTold' /\ RevertComes' /\ Mends'
    BY <1>0, <2>1, HandlesKnown, HandlesDrops, HandlesReverts, HandlesMends
  <2> QED BY <2>1, <2>2 DEF Shown
<1>4. ASSUME Typed',
             \/ Flushes \/ Settles \/ Misses \/ Loses \/ Connects
             \/ (\E r, g : Serves(r, g)) \/ \E r : Applies(r)
      PROVE  Shown'
  BY <1>0, <1>4, ClientKnown, ClientDrops, ClientReverts, ClientMends DEF Shown
<1>5. CASE Flush \/ Settle
  BY <1>0, <1>4, <1>5, FlushesParts, SettlesParts
<1>6. CASE BusLost \/ Reconnect
  BY <1>0, <1>4, <1>6, LosesParts, ConnectsParts
<1>7. CASE ReadStep
  <2>1. PICK i \in DOMAIN reads : ReadServed(i) \/ ReadBack(i) \/ ReadFailed(i)
    BY <1>7 DEF ReadStep
  <2>2. CASE ReadServed(i)
    BY <1>0, <1>4, <2>2, ServesParts
  <2>3. CASE ReadBack(i)
    BY <1>0, <1>4, <2>3, AppliesParts
  <2>4. CASE ReadFailed(i)
    BY <1>0, <1>4, <2>4, MissesParts
  <2> QED BY <2>1, <2>2, <2>3, <2>4
<1> QED
  BY <1>1, <1>2, <1>3, <1>5, <1>6, <1>7

\* The inductive invariant of what is shown, told of and still to come.
THEOREM ShownHolds == Spec => []Shown
<1>1. InOrder /\ Shown /\ [Next]_vars => Shown'
  <2> SUFFICES ASSUME InOrder, Shown, [Next]_vars PROVE Shown'
    OBVIOUS
  <2>1. CASE UNCHANGED vars
    BY <2>1, StutterShown
  <2> QED
    BY <2>1, UserShown, ServiceShown, ClientShown DEF Next, User, SendStep
<1> QED
  BY <1>1, InitShown, InOrderHolds, PTL DEF Spec

-----------------------------------------------------------------------------
(* What it says *)

\* Every variable of the session keeps its type: rows, log and inbox without repeats
\* (store.ts, foldMessages and mergeProjection), and no more ids than were minted.
THEOREM PromptsTypeHolds == Spec => []TypeOK
<1>1. Shown => TypeOK
  <2> SUFFICES ASSUME Shown PROVE TypeOK
    OBVIOUS
  <2>1. RowsTyped /\ ServiceTyped /\ SendsTyped /\ WiresTyped /\ RestTyped
    BY DEF Shown, Typed
  <2>2. staged \in Seq(Updates)
    <3>1. staged \in Seq(Proper) /\ Proper \subseteq Updates
      BY <2>1 DEF RowsTyped, Proper
    <3>2. Len(staged) \in Nat /\ DOMAIN staged = 1 .. Len(staged) /\ \A k \in DOMAIN staged : staged[k] \in Updates
      BY <3>1, LenProperties, ElementOfSeq
    <3>3. \E n \in Nat : staged \in [1 .. n -> Updates]
      <4>1. staged \in [1 .. Len(staged) -> Updates]
        <5>1. staged = [k \in 1 .. Len(staged) |-> staged[k]]
          BY <3>1, LenProperties
        <5> QED BY <3>2, <5>1
      <4> QED BY <3>2, <4>1
    <3> QED BY <3>3, SeqDef
  <2>3. IsInjective(log \o inbox)
    BY <2>1, ConcatApart DEF ServiceTyped
  <2> QED BY <2>1, <2>2, <2>3 DEF TypeOK, RowsTyped, ServiceTyped, SendsTyped, WiresTyped, RestTyped
<1> QED
  BY <1>1, ShownHolds, PTL

\* A prompt on its way out is on screen, and stays there through every flush: no commit,
\* page or echo takes it (store.ts prompt and flush, dropReverted's outbox).
THEOREM OptimisticShownHolds == Spec => []OptimisticShown
<1>1. Shown => OptimisticShown
  <2> SUFFICES ASSUME Shown PROVE OptimisticShown
    OBVIOUS
  <2>1. Typed /\ Known /\ RowsTyped
    BY DEF Shown, Typed
  <2>2. \A id \in outbox : id \in Ids /\ id \in ToSet(rows) /\ Shows(staged, id)
    BY <2>1, ShownKnown DEF Known, OutboxKept
  <2>3. \A id \in outbox : id \in ToSet(Flushed(staged).rows)
    BY <2>1, <2>2, FlushedAll
  <2> QED BY <2>2, <2>3 DEF OptimisticShown
<1> QED
  BY <1>1, ShownHolds, PTL

\* Once quiet, nothing is staged, waits or comes.
LEMMA QuietIs ==
  ASSUME Typed, Quiet
  PROVE  /\ ToSet(staged) = {} /\ ToSet(sending) = {} /\ ToSet(reads) = {} /\ ToSet(bus) = {}
         /\ ToSet(inbox) = {} /\ up
         /\ ~TailComes /\ ~InputComes /\ ~RevertRead /\ ~UndoWaits
         /\ \A id : Shows(staged, id) <=> id \in ToSet(rows)
         /\ \A to : RevertAt(staged, Len(staged), to) <=> to = revert
<1>1. /\ ToSet(staged) = {} /\ ToSet(sending) = {} /\ ToSet(reads) = {} /\ ToSet(bus) = {} /\ ToSet(inbox) = {}
      /\ up /\ ~turn /\ ~settling /\ inbox = <<>> /\ Len(staged) = 0
  BY EmptySet DEF Quiet
<1>2. ~TailComes /\ ~InputComes /\ ~RevertRead /\ ~UndoWaits
  BY <1>1 DEF TailComes, InputComes, RevertRead, UndoWaits
<1>3. \A id : Shows(staged, id) <=> id \in ToSet(rows)
  BY <1>1 DEF Shows, ShowsAt, Comes, Stays
<1>4. \A to : RevertAt(staged, Len(staged), to) <=> to = revert
  BY <1>1 DEF RevertAt, Sets
<1> QED
  BY <1>1, <1>2, <1>3, <1>4

\* Once nothing is on its way, the screen and the service agree: no row the service
\* never took, none missing, none it dropped, and one boundary, but for what RowsAgree
\* excuses (foldMessages, settle, dropReverted and the rollback of runSend).
THEOREM RowsAgreeHolds == Spec => []RowsAgree
<1>1. Shown => RowsAgree
  <2> SUFFICES ASSUME Shown PROVE RowsAgree
    OBVIOUS
  <2>0. /\ Typed /\ Known /\ DropsTold /\ RevertComes /\ Mends
        /\ rows \in Seq(Ids) /\ log \in Seq(Ids) /\ revert \in 0 .. MaxId
    BY DEF Shown, Typed, RowsTyped, ServiceTyped
  <2>1. RejectedGone
    <3> SUFFICES ASSUME NEW id \in ToSet(rows), id \notin ToSet(taken)
                 PROVE  \E i \in Pending("prompt") : sending[i].id = id
      BY DEF RejectedGone
    <3>1. PICK s \in ToSet(sending) : s.kind = "prompt" /\ s.id = id
      BY <2>0 DEF Known, Sourced, Has, Waits
    <3>2. PICK i \in DOMAIN sending : sending[i] = s
      BY <3>1 DEF ToSet
    <3> QED BY <3>1, <3>2 DEF Pending
  <2>2. NothingLost
    <3> SUFFICES ASSUME Quiet, ~stale, NEW id \in ToSet(log)
                 PROVE  Contains(rows, id) \/ id \in (gaveUp \cap slipped) \cup withdrawn
      BY DEF NothingLost
    <3>1. RowComes(id) \/ id \in (gaveUp \cap slipped) \cup withdrawn
      BY <2>0, QuietIs DEF Mends, RowsCome
    <3>2. RowComes(id) => id \in ToSet(rows)
      BY <2>0, QuietIs DEF RowComes, PageHas
    <3> QED BY <2>0, <3>1, <3>2, ContainsIs
  <2>3. NothingLeft
    <3> SUFFICES ASSUME Quiet, NEW id \in ToSet(rows), id \notin slipped PROVE id \in ToSet(log)
      BY DEF NothingLeft
    <3>1. id \in Ids /\ Has(id)
      BY <2>0, QuietIs, SetTyped DEF Known, Sourced, Waits
    <3>2. ~Dropped(id)
      BY <2>0, <3>1, QuietIs DEF DropsTold
    <3> QED BY <2>0, <3>1, <3>2, QuietIs DEF Dropped, Keeps
  <2>4. RevertAgrees
    BY <2>0, QuietIs DEF RevertAgrees, RevertComes
  <2> QED BY <2>1, <2>2, <2>3, <2>4 DEF RowsAgree
<1> QED
  BY <1>1, ShownHolds, PTL

=============================================================================
