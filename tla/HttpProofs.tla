----------------------------- MODULE HttpProofs -----------------------------
(***************************************************************************)
(* Theorems about Http, for any requests, Macs and bounds: its typing, that *)
(* the phone holds one connection, and that a request is done, and run once *)
(* at most, wherever it can be.                                             *)
(***************************************************************************)
EXTENDS Http, FiniteSetTheorems, TLAPS

-----------------------------------------------------------------------------
(* The inductive invariant *)

OnStream == {"write", "head", "body"}

\* The requests that have asked for a connection, and those that cannot ask for another.
Past == {r \in Requests : req[r].phase \notin {"idle", "key"}}
Twice == {r \in Past : ~(req[r].phase = "dial" /\ req[r].tries = 1)}

Dialled == {c \in Conns : link[c] # "none"}

\* Connections are dialled in turn, and two for a request at most: one is always left.
Dials ==
  \E k \in 0 .. MaxConns : Dialled = 1 .. k /\ k <= Cardinality(Past) + Cardinality(Twice)

\* Whatever is dialled or open is cached, or closed once its dial is done.
Closes ==
  /\ \A c \in closing : link[c] = "dialing"
  /\ \A c \in told : link[c] = "dead"
  /\ \A c \in Conns : link[c] \in {"dialing", "open", "silent"} => c = cache \/ c \in closing

\* A request that dials, or has a stream, has a connection.
Staged ==
  \A r \in Requests : req[r].phase \in OnStream \cup {"dial"} => req[r].conn # 0 /\ req[r].tries # 0

\* Only a stream the phone has opened reaches the daemon, which sends it to a service it
\* found, and the phone opens no other for a request after that.
Heard ==
  \A x \in BiStreams :
    /\ serving[x].at # "none" =>
         \/ req[x[1]].phase \in Settled
         \/ req[x[1]].phase \in OnStream /\ req[x[1]].tries = x[2]
    /\ serving[x].at \in {"sent", "running", "body"} => serving[x].by # 0

\* The daemon has seen one stream of a request at most.
OneExchange ==
  \A x, y \in BiStreams :
    x[1] = y[1] /\ serving[x].at # "none" /\ serving[y].at # "none" => x = y

\* Request r has no retry left, and its connection is lost, or to be closed.
Last(r) == req[r].phase \in OnStream \/ (req[r].phase = "dial" /\ req[r].tries = 2)
Lost(r) == link[req[r].conn] \in {"silent", "dead"} \/ req[r].conn \in closing

\* Whatever makes a request fail is something that broke while it was under way.
Causes == \A r \in Requests : (Last(r) /\ Lost(r)) \/ req[r].back = "cut" => req[r].met

\* A service that is lost while it runs a request strikes the request.
Strikes ==
  \A x \in BiStreams :
    UnderWay(x[1]) /\ serving[x].at \in {"running", "body"} /\ serving[x].by # service =>
      req[x[1]].met

Early == {"none", "resolving", "waiting", "again", "sent"}

\* The service runs a request when an exchange of it is sent, which never goes back.
Ran ==
  /\ runs \in [Requests -> {0, 1}]
  /\ \A r \in Requests :
       (\A x \in BiStreams : x[1] = r => serving[x].at \in Early) => runs[r] = 0

\* A second look is at the service that was started, unless it joined an older probe.
Looks ==
  \A x \in BiStreams : serving[x].at = "again" =>
    x \in joined \/ (probe.on /\ probe.of = service /\ service # 0)

\* Inductive together with TypeOK.
Course ==
  /\ Dials /\ Closes /\ Staged /\ Heard /\ OneExchange /\ Causes /\ Strikes /\ Ran /\ Looks
  /\ FailsForCause /\ StartServes

-----------------------------------------------------------------------------
(* The parts of the typing *)

Links == [Conns -> {"none", "dialing", "open", "silent", "dead"}]
Fetched == [phase : Phases, mac : Macs \cup {NoMac}, conn : Conns \cup {0}, tries : 0 .. 2,
            gone : BOOLEAN, back : {"nothing", "head", "all", "cut"}, met : BOOLEAN]
Fetches == [Requests -> Fetched]
Exchanges == [BiStreams -> [at : {"none", "resolving", "waiting", "again", "sent",
                                  "running", "body", "refused", "over"},
                            by : Services \cup {0}]]

LinkTyped ==
  /\ paired \in Macs \cup {NoMac}
  /\ cache \in Conns \cup {0} /\ (cache # 0 => link[cache] # "none")
  /\ link \in Links
  /\ remote \in [Conns -> Macs \cup {NoMac}]
  /\ closing \subseteq Conns /\ told \subseteq Conns

ServiceTyped ==
  /\ cached \in Services \cup {0} /\ fresh \in BOOLEAN
  /\ probe \in [on : BOOLEAN, of : Services \cup {0}]
  /\ starting \in BOOLEAN
  /\ service \in Services \cup {0} /\ spawned \in Services \cup {0}

ServingTyped ==
  /\ serving \in Exchanges
  /\ \A x \in BiStreams : serving[x].at = "waiting" => starting

LEMMA TypedParts == TypeOK <=> LinkTyped /\ req \in Fetches /\ ServingTyped /\ ServiceTyped
  BY DEF TypeOK, LinkTyped, Fetches, Fetched, ServingTyped, ServiceTyped, Links, Exchanges

-----------------------------------------------------------------------------
(* What a step may change: a disjunct for each action that changes it *)

DaemonPart ==
  \/ \E x \in BiStreams : DaemonStep(x)
  \/ ProbeBack \/ StartDone \/ StartFailed \/ AnswerAges \/ ServiceStops \/ ServiceStarts

LEMMA DaemonSteps ==
  ASSUME Next
  PROVE  UNCHANGED <<daemonVars, service, spawned, historyVars>> \/ DaemonPart
<1>1. CASE GoOffline \/ Unpair
  BY <1>1 DEF GoOffline, Unpair, Detach
<1>2. CASE ConnStep
  BY <1>2 DEF ConnStep, DialDone, DialFailed, LinkLost, IdleTimeout, ClosedTold
<1>3. ASSUME NEW m \in Macs, Pair(m)
      PROVE  UNCHANGED <<daemonVars, service, spawned, historyVars>>
  BY <1>3 DEF Pair
<1>4. ASSUME NEW r \in Requests, FetchStep(r)
      PROVE  UNCHANGED <<daemonVars, service, spawned, historyVars>>
  BY <1>4 DEF FetchStep, Fetch, OpenHttp, StreamOpened, StreamFailed, Wrote, WriteFailed,
              HeadBack, HeadFailed, BodyBack, Abort
<1>5. \/ GoOffline \/ Unpair \/ (\E m \in Macs : Pair(m)) \/ ConnStep
      \/ (\E r \in Requests : FetchStep(r)) \/ (\E x \in BiStreams : DaemonStep(x))
      \/ ProbeBack \/ StartDone \/ StartFailed \/ AnswerAges \/ ServiceStops \/ ServiceStarts
  BY DEF Next
<1> QED
  BY <1>1, <1>2, <1>3, <1>4, <1>5, Zenon DEF DaemonPart

LEMMA StreamParts ==
  /\ \A x \in BiStreams : x[1] \in Requests /\ x[2] \in 1 .. 2
  /\ \A x, y \in BiStreams : x[1] = y[1] /\ x[2] = y[2] => x = y
  BY DEF BiStreams

-----------------------------------------------------------------------------
(* Requests *)

LEMMA MeetFacts ==
  ASSUME req \in Fetches, NEW S
  PROVE  /\ Meet(S) \in Fetches
         /\ \A r \in Requests :
              /\ Meet(S)[r].phase = req[r].phase /\ Meet(S)[r].conn = req[r].conn
              /\ Meet(S)[r].tries = req[r].tries /\ Meet(S)[r].back = req[r].back
              /\ Meet(S)[r].met = (req[r].met \/ r \in S)
  BY ZenonT(20) DEF Fetches, Fetched, Meet

LEMMA SettleFacts ==
  ASSUME req \in Fetches, NEW r \in Requests, NEW p \in Settled, Settle(r, p)
  PROVE  /\ req' \in Fetches
         /\ \A q \in Requests \ {r} : req'[q] = req[q]
         /\ req'[r].phase = p /\ req'[r].back = "nothing"
         /\ req'[r].met <=> (p = "failed" /\ req[r].met)
<1> DEFINE caused == p = "failed" /\ req[r].met
<1>1. req' = [req EXCEPT ![r] = [Idle EXCEPT !.phase = p, !.met = caused]]
  BY Zenon DEF Settle
<1>2. caused \in BOOLEAN /\ (caused <=> p = "failed" /\ req[r].met)
  OBVIOUS
<1> HIDE DEF caused
<1> DEFINE rest == [Idle EXCEPT !.phase = p, !.met = caused]
<1>3. rest \in Fetched
  <2>1. /\ p \in Phases /\ NoMac \in Macs \cup {NoMac} /\ 0 \in Conns \cup {0} /\ 0 \in 0 .. 2
        /\ FALSE \in BOOLEAN /\ "nothing" \in {"nothing", "head", "all", "cut"} /\ caused \in BOOLEAN
    BY <1>2 DEF Phases
  <2> DEFINE conns == Conns \cup {0}
             macs == Macs \cup {NoMac}
  <2> HIDE DEF conns, macs
  <2> QED BY <2>1 DEF Idle, Fetched
<1>4. rest.phase = p /\ rest.back = "nothing" /\ rest.met = caused
  BY DEF Idle
<1> HIDE DEF rest
<1>5. req' = [req EXCEPT ![r] = rest]
  BY <1>1 DEF rest
<1>6. req' \in Fetches /\ req'[r] = rest /\ \A q \in Requests \ {r} : req'[q] = req[q]
  BY <1>3, <1>5 DEF Fetches, Fetched
<1> QED
  BY <1>2, <1>4, <1>6

LEMMA GotoFacts ==
  ASSUME req \in Fetches, NEW r \in Requests, NEW p \in Phases, Goto(r, p)
  PROVE  /\ req' \in Fetches
         /\ \A q \in Requests \ {r} : req'[q] = req[q]
         /\ req'[r].phase = p /\ req'[r].conn = req[r].conn /\ req'[r].tries = req[r].tries
         /\ req'[r].back = req[r].back /\ req'[r].met = req[r].met
  BY DEF Fetches, Fetched, Goto

\* A connection is left for a request that may ask for one, the next one in turn.
LEMMA FreshLeft ==
  ASSUME TypeOK, Dials, NEW r \in Requests \ Twice
  PROVE  \E k \in 0 .. MaxConns - 1 :
           /\ Dialled = 1 .. k /\ k <= Cardinality(Past) + Cardinality(Twice)
           /\ Fresh = k + 1 /\ Fresh \in Conns /\ link[Fresh] = "none"
<1> USE HttpBounds
<1>1. PICK k \in 0 .. MaxConns : Dialled = 1 .. k /\ k <= Cardinality(Past) + Cardinality(Twice)
  BY DEF Dials
<1>2. /\ IsFiniteSet(Requests) /\ Cardinality(Requests) \in Nat
      /\ Past \subseteq Requests /\ Twice \subseteq Requests /\ Twice # Requests
  BY FS_CardinalityType DEF Past, Twice
<1>3. /\ Cardinality(Past) \in Nat /\ Cardinality(Past) <= Cardinality(Requests)
      /\ Cardinality(Twice) \in Nat /\ Cardinality(Twice) < Cardinality(Requests)
  BY <1>2, FS_CardinalityType, FS_Subset
<1>4. k < MaxConns
  BY <1>1, <1>2, <1>3
<1>5. k + 1 \in Conns /\ link[k + 1] = "none" /\ \A b \in 1 .. (k + 1) - 1 : link[b] # "none"
  BY <1>1, <1>4 DEF Dialled, Conns
<1>6. /\ Fresh \in Conns /\ link[Fresh] = "none"
      /\ \A b \in 1 .. Fresh - 1 : link[b] # "none"
  BY <1>5 DEF Fresh
<1>7. Fresh = k + 1
  BY <1>1, <1>5, <1>6 DEF Dialled, Conns
<1> QED
  BY <1>1, <1>4, <1>6, <1>7

LEMMA StrikeFacts ==
  ASSUME req \in Fetches, Strike
  PROVE  /\ req' \in Fetches
         /\ \A r \in Requests :
              /\ req'[r].phase = req[r].phase /\ req'[r].conn = req[r].conn
              /\ req'[r].tries = req[r].tries /\ req'[r].back = req[r].back
              /\ req'[r].met <=> (req[r].met \/ UnderWay(r))
<1> DEFINE S == {r \in Requests : UnderWay(r)}
<1>1. req' = Meet(S) /\ \A r \in Requests : r \in S <=> UnderWay(r)
  BY DEF Strike
<1> HIDE DEF S
<1> QED
  BY <1>1, MeetFacts

\* The daemon's reply leaves the phone's end of the exchange as it is, but for what came back.
Answered(x, answer) ==
  /\ req' \in Fetches /\ UNCHANGED linkVars
  /\ \A q \in Requests :
       /\ req'[q].phase = req[q].phase /\ req'[q].conn = req[q].conn
       /\ req'[q].tries = req[q].tries /\ req'[q].met = req[q].met
       /\ req'[q].back = req[q].back \/ (q = x[1] /\ Alive(x) /\ req'[q].back = answer)

LEMMA ReplyFacts ==
  ASSUME req \in Fetches, NEW x \in BiStreams, NEW from, NEW answer \in {"head", "all", "cut"},
         NEW next, Reply(x, from, answer, next)
  PROVE  Answered(x, answer) /\ serving[x].at = from
<1>0. x[1] \in Requests
  BY StreamParts
<1>1. CASE Alive(x)
  BY <1>0, <1>1 DEF Reply, Fetches, Fetched, Answered
<1>2. CASE ~Alive(x)
  BY <1>2 DEF Reply, Answered
<1> QED
  BY <1>1, <1>2

\* The daemon's steps are no more than that for the phone.
LEMMA DaemonReplies ==
  ASSUME req \in Fetches, NEW x \in BiStreams, DaemonStep(x)
  PROVE  /\ req' \in Fetches /\ UNCHANGED linkVars
         /\ \A q \in Requests :
              /\ req'[q].phase = req[q].phase /\ req'[q].conn = req[q].conn
              /\ req'[q].tries = req[q].tries /\ req'[q].met = req[q].met
              /\ \/ req'[q].back = req[q].back
                 \/ req'[q].back \in {"head", "all"}
                 \/ /\ q = x[1] /\ Alive(x) /\ ~Served(x) /\ serving[x].at = "body"
                    /\ req'[q].back = "cut"
<1>1. CASE Accept(x) \/ Forward(x)
  BY <1>1 DEF Accept, Forward
<1>2. CASE ReplyHead(x) \/ ReplyBody(x) \/ Heartbeat(x) \/ Refuse(x)
  <2>1. PICK from \in {"running", "body", "refused"}, answer \in {"head", "all"},
             next \in {"body", "over"} : Reply(x, from, answer, next)
    BY <1>2 DEF ReplyHead, ReplyBody, Heartbeat, Refuse
  <2>2. Answered(x, answer)
    BY <2>1, ReplyFacts, Zenon
  <2> QED BY <2>2 DEF Answered
<1>3. CASE UpstreamLost(x)
  <2>1. ~Served(x)
    BY <1>3 DEF UpstreamLost
  <2>2. CASE Reply(x, "running", "all", "over")
    <3>1. Answered(x, "all")
      BY <2>2, ReplyFacts, Zenon
    <3> QED BY <3>1 DEF Answered
  <2>3. CASE Reply(x, "body", "cut", "over")
    <3>1. Answered(x, "cut") /\ serving[x].at = "body"
      BY <2>3, ReplyFacts, Zenon
    <3> QED BY <2>1, <3>1 DEF Answered
  <2> QED
    BY <1>3, <2>2, <2>3 DEF UpstreamLost
<1> QED
  BY <1>1, <1>2, <1>3 DEF DaemonStep

\* A step of r's own fetch that neither dials nor drops a connection: r goes on along its
\* connection or is let go of.  It fails only for want of the connection, or on a cut.
Advances(r) ==
  /\ req'[r].conn = req[r].conn /\ req'[r].tries = req[r].tries /\ req'[r].back = req[r].back
  /\ req[r].met => req'[r].met
  /\ \/ req'[r].phase = req[r].phase
     \/ req[r].phase = "idle" /\ req'[r].phase = "key"
     \/ /\ req[r].phase = "dial" /\ req'[r].phase = "write"
        /\ LinkOf(r) \in {"open", "silent"} /\ (LinkOf(r) = "silent" => req'[r].met)
     \/ req[r].phase \in OnStream /\ req'[r].phase \in OnStream
LetGo(r) ==
  /\ req[r].phase \in OnStream \cup {"dial"} /\ req'[r].phase \in Settled /\ req'[r].back = "nothing"
  /\ req'[r].phase = "failed" =>
       /\ req'[r].met <=> req[r].met
       /\ (Last(r) /\ LinkOf(r) = "dead") \/ req[r].back = "cut"

Plain(r) ==
  /\ UNCHANGED linkVars /\ req' \in Fetches
  /\ \A q \in Requests \ {r} : req'[q] = req[q]
  /\ Advances(r) \/ LetGo(r)

LEMMA FetchFacts ==
  ASSUME req \in Fetches, paired \in Macs \cup {NoMac}, Staged, NEW r \in Requests, FetchStep(r)
  PROVE  OpenHttp(r) \/ (StreamFailed(r) /\ req[r].tries = 1) \/ Plain(r)
<1>1. CASE Fetch(r)
  <2>0. "key" \in Phases /\ req' = [req EXCEPT ![r].phase = "key", ![r].mac = paired]
    BY <1>1 DEF Fetch, Phases
  <2>1. req' \in Fetches /\ \A q \in Requests \ {r} : req'[q] = req[q]
    <3> DEFINE next == [req[r] EXCEPT !.phase = "key", !.mac = paired]
    <3>1. next \in Fetched
      BY <2>0 DEF Fetches, Fetched
    <3>2. req' = [req EXCEPT ![r] = next]
      BY <2>0
    <3> HIDE DEF next
    <3> QED BY <3>1, <3>2 DEF Fetches, Fetched
  <2>2. Advances(r)
    BY <1>1 DEF Fetch, Fetches, Fetched, Advances
  <2> QED BY <1>1, <2>1, <2>2 DEF Fetch, Plain
<1>2. CASE StreamOpened(r)
  <2>1. CASE req[r].gone
    BY <1>2, <2>1, SettleFacts DEF StreamOpened, LetGo, Settled, Plain
  <2>2. CASE ~req[r].gone
    <3>1. req' \in Fetches /\ \A q \in Requests \ {r} : req'[q] = req[q]
      BY <1>2, <2>2 DEF StreamOpened, Fetches, Fetched, Phases
    <3>2. Advances(r)
      BY <1>2, <2>2 DEF StreamOpened, Fetches, Fetched, Advances
    <3> QED BY <1>2, <3>1, <3>2 DEF StreamOpened, Plain
  <2> QED BY <2>1, <2>2
<1>3. CASE StreamFailed(r) /\ req[r].tries # 1
  <2>1. Settle(r, Ended(r)) /\ UNCHANGED linkVars /\ req[r].phase = "dial" /\ LinkOf(r) = "dead"
    BY <1>3 DEF StreamFailed, linkVars
  <2>2. Ended(r) \in Settled /\ Last(r)
    BY <1>3, <2>1 DEF Ended, Settled, Last, Staged, Fetches, Fetched
  <2> QED BY <2>1, <2>2, SettleFacts DEF LetGo, Plain
<1>4. CASE Wrote(r) \/ HeadBack(r)
  <2>1. PICK p \in {"head", "body"} : Goto(r, p)
    BY <1>4 DEF Wrote, HeadBack
  <2>2. p \in Phases /\ req[r].phase \in OnStream /\ p \in OnStream /\ UNCHANGED linkVars
    BY <1>4 DEF Wrote, HeadBack, OnStream, Phases
  <2> QED BY <2>1, <2>2, GotoFacts DEF Advances, Plain
<1>5. CASE WriteFailed(r) \/ HeadFailed(r)
  <2>1. /\ Settle(r, "failed") /\ req[r].phase \in OnStream /\ UNCHANGED linkVars
        /\ LinkOf(r) = "dead" \/ req[r].back = "cut"
    BY <1>5 DEF WriteFailed, HeadFailed, OnStream
  <2>2. "failed" \in Settled /\ Last(r)
    BY <2>1 DEF Settled, Last
  <2> QED BY <2>1, <2>2, SettleFacts DEF LetGo, Plain
<1>6. CASE BodyBack(r)
  <2>1. PICK p \in {"done", "short"} : Settle(r, p)
    BY <1>6 DEF BodyBack
  <2>2. p \in Settled /\ p # "failed" /\ req[r].phase \in OnStream /\ UNCHANGED linkVars
    BY <1>6 DEF BodyBack, OnStream, Settled
  <2> QED BY <2>1, <2>2, SettleFacts DEF LetGo, Plain
<1>7. CASE Abort(r)
  <2>1. CASE req[r].phase \in {"key", "dial"}
    <3>0. req' = [req EXCEPT ![r].gone = TRUE]
      BY <1>7, <2>1 DEF Abort
    <3>1. req' \in Fetches /\ \A q \in Requests \ {r} : req'[q] = req[q]
      BY <3>0, ZenonT(20) DEF Fetches, Fetched
    <3>2. Advances(r)
      BY <1>7, <2>1 DEF Abort, Fetches, Fetched, Advances
    <3> QED BY <1>7, <3>1, <3>2 DEF Abort, Plain
  <2>2. CASE req[r].phase \notin {"key", "dial"}
    <3>1. Settle(r, "aborted") /\ req[r].phase \in OnStream /\ UNCHANGED linkVars
      BY <1>7, <2>2 DEF Abort, UnderWay, OnStream, Fetches, Fetched, Phases
    <3> QED BY <3>1, SettleFacts DEF LetGo, Settled, Plain
  <2> QED BY <2>1, <2>2
<1> QED
  BY <1>1, <1>2, <1>3, <1>4, <1>5, <1>6, <1>7 DEF FetchStep

\* The phone's side of a step.
PhonePart ==
  \/ UNCHANGED linkVars /\ (UNCHANGED req \/ Strike)
  \/ (\E m \in Macs \cup {paired, NoMac} : Detach(m))
  \/ ConnStep
  \/ (\E r \in Requests : OpenHttp(r))
  \/ (\E r \in Requests : StreamFailed(r) /\ req[r].tries = 1)
  \/ (\E r \in Requests : Plain(r))
  \/ (\E x \in BiStreams : DaemonStep(x))

LEMMA PhoneSteps ==
  ASSUME req \in Fetches, paired \in Macs \cup {NoMac}, Staged, Next
  PROVE  PhonePart
<1>1. CASE GoOffline \/ Unpair
  BY <1>1 DEF GoOffline, Unpair, PhonePart
<1>2. CASE ConnStep
  BY <1>2 DEF PhonePart
<1>3. ASSUME NEW m \in Macs, Pair(m) PROVE PhonePart
  BY <1>3 DEF Pair, PhonePart
<1>4. ASSUME NEW r \in Requests, FetchStep(r) PROVE PhonePart
  BY <1>4, FetchFacts DEF PhonePart
<1>5. ASSUME NEW x \in BiStreams, DaemonStep(x) PROVE PhonePart
  BY <1>5 DEF PhonePart
<1>6. CASE ProbeBack \/ StartDone \/ StartFailed \/ AnswerAges \/ ServiceStops \/ ServiceStarts
  BY <1>6 DEF ProbeBack, StartDone, StartFailed, AnswerAges, ServiceStops, ServiceStarts, PhonePart
<1>7. \/ GoOffline \/ Unpair \/ (\E m \in Macs : Pair(m)) \/ ConnStep
      \/ (\E r \in Requests : FetchStep(r)) \/ (\E x \in BiStreams : DaemonStep(x))
      \/ ProbeBack \/ StartDone \/ StartFailed \/ AnswerAges \/ ServiceStops \/ ServiceStarts
  BY DEF Next
<1> QED
  BY <1>1, <1>2, <1>3, <1>4, <1>5, <1>6, <1>7, Zenon

-----------------------------------------------------------------------------
(* The phone's connections *)

\* What a request is charged for only grows, whoever takes the step.
LEMMA DialsKept ==
  ASSUME Dials, Dialled' = Dialled, Past' \subseteq Requests,
         Past \subseteq Past', Twice \subseteq Twice', Twice' \subseteq Requests
  PROVE  Dials'
<1> USE HttpBounds
<1>1. PICK k \in 0 .. MaxConns : Dialled = 1 .. k /\ k <= Cardinality(Past) + Cardinality(Twice)
  BY DEF Dials
<1>2. IsFiniteSet(Past') /\ IsFiniteSet(Twice')
  BY FS_Subset
<1>3. Cardinality(Past) \in Nat /\ Cardinality(Past') \in Nat /\ Cardinality(Past) <= Cardinality(Past')
  BY <1>2, FS_Subset, FS_CardinalityType
<1>4. Cardinality(Twice) \in Nat /\ Cardinality(Twice') \in Nat
      /\ Cardinality(Twice) <= Cardinality(Twice')
  BY <1>2, FS_Subset, FS_CardinalityType
<1>5. Dialled' = 1 .. k /\ k <= Cardinality(Past') + Cardinality(Twice')
  BY <1>1, <1>3, <1>4
<1> QED
  BY <1>5 DEF Dials

\* A step in which every request keeps its phase, conn and tries.
LEMMA SamePhases ==
  ASSUME \A r \in Requests : /\ req'[r].phase = req[r].phase
                             /\ req'[r].tries = req[r].tries
  PROVE  Past' = Past /\ Twice' = Twice
  BY DEF Past, Twice

\* A step of r that dials no connection, and charges it no less.
LEMMA Charged ==
  ASSUME NEW r \in Requests, \A q \in Requests \ {r} : req'[q] = req[q],
         r \in Past => r \in Past', r \in Twice => r \in Twice'
  PROVE  /\ Past \subseteq Past' /\ Twice \subseteq Twice'
         /\ Past' \subseteq Requests /\ Twice' \subseteq Requests
  BY DEF Past, Twice

\* A step keeps the connections that are dialled, or dials the next one.
LEMMA DialsNext ==
  ASSUME TypeOK, Dials, Staged, Next
  PROVE  Dials'
<1> USE HttpBounds
<1>0. /\ req \in Fetches /\ paired \in Macs \cup {NoMac} /\ link \in Links
      /\ cache # 0 => link[cache] # "none"
  BY TypedParts DEF LinkTyped
<1>1. CASE UNCHANGED linkVars /\ UNCHANGED req
  BY <1>1 DEF Dials, Dialled, Past, Twice, linkVars
<1>2. CASE UNCHANGED linkVars /\ Strike
  <2>1. Dialled' = Dialled /\ Past' = Past /\ Twice' = Twice
    BY <1>0, <1>2, StrikeFacts, SamePhases DEF linkVars, Dialled
  <2> QED BY <2>1 DEF Dials
<1>3. ASSUME NEW m, Detach(m) PROVE Dials'
  <2>1. Past' = Past /\ Twice' = Twice
    BY <1>0, <1>3, StrikeFacts, SamePhases DEF Detach
  <2>2. Dialled' = Dialled
    BY <1>0, <1>3 DEF Detach, Dropped, Dialled, Links
  <2> QED BY <2>1, <2>2 DEF Dials
<1>4. CASE ConnStep
  <2>1. PICK c \in Conns : DialDone(c) \/ DialFailed(c) \/ LinkLost(c) \/ IdleTimeout(c)
                           \/ ClosedTold(c)
    BY <1>4 DEF ConnStep
  <2>2. UNCHANGED req \/ Strike
    BY <2>1 DEF DialDone, DialFailed, LinkLost, IdleTimeout, ClosedTold
  <2>3. Past' = Past /\ Twice' = Twice
    BY <1>0, <2>2, StrikeFacts, SamePhases DEF Past, Twice
  <2>4. Dialled' = Dialled
    BY <1>0, <2>1 DEF DialDone, DialFailed, LinkLost, IdleTimeout, ClosedTold, Dialled, Links
  <2> QED BY <2>3, <2>4 DEF Dials
<1>5. ASSUME NEW r \in Requests, OpenHttp(r) PROVE Dials'
  <2>1. req[r].phase = "key" /\ r \notin Past /\ r \notin Twice
    BY <1>5 DEF OpenHttp, Past, Twice
  <2>2. /\ req'[r].phase = "dial" /\ req'[r].tries = 1 /\ \A q \in Requests \ {r} : req'[q] = req[q]
    BY <1>0, <1>5 DEF OpenHttp, Fetches, Fetched
  <2>3. Past' = Past \cup {r} /\ Twice' = Twice
    BY <2>1, <2>2 DEF Past, Twice
  <2>4. CASE cache # 0
    <3>1. Dialled' = Dialled
      BY <1>5, <2>4 DEF OpenHttp, Dialled
    <3> QED BY <2>3, <3>1, DialsKept DEF Past, Twice
  <2>5. CASE cache = 0
    <3>1. PICK k \in 0 .. MaxConns - 1 :
            /\ Dialled = 1 .. k /\ k <= Cardinality(Past) + Cardinality(Twice)
            /\ Fresh = k + 1 /\ Fresh \in Conns /\ link[Fresh] = "none"
      BY <2>1, FreshLeft
    <3>2. Dialled' = Dialled \cup {k + 1}
      BY <1>0, <1>5, <2>5, <3>1 DEF OpenHttp, Redial, Dialled, Links
    <3>3. Dialled' = 1 .. k + 1 /\ k + 1 \in 0 .. MaxConns
      BY <3>1, <3>2
    <3>4. IsFiniteSet(Past) /\ IsFiniteSet(Twice) /\ Cardinality(Twice) \in Nat
          /\ Cardinality(Past) \in Nat /\ Cardinality(Past \cup {r}) = Cardinality(Past) + 1
      BY <2>1, FS_Subset, FS_AddElement, FS_CardinalityType DEF Past, Twice
    <3>5. k + 1 <= Cardinality(Past') + Cardinality(Twice')
      BY <2>3, <3>1, <3>4
    <3> QED BY <3>3, <3>5 DEF Dials
  <2> QED BY <2>4, <2>5
<1>6. ASSUME NEW r \in Requests, StreamFailed(r), req[r].tries = 1 PROVE Dials'
  <2>1. req[r].phase = "dial" /\ r \in Past /\ r \notin Twice
    BY <1>6 DEF StreamFailed, Past, Twice
  <2>2. PICK S : req' = [Meet(S) EXCEPT ![r].tries = 2, ![r].conn = Fresh]
    BY <1>6 DEF StreamFailed
  <2>3. /\ req'[r].phase = "dial" /\ req'[r].tries = 2
        /\ \A q \in Requests \ {r} : req'[q].phase = req[q].phase /\ req'[q].tries = req[q].tries
    BY <1>0, <2>1, <2>2, MeetFacts DEF Fetches, Fetched
  <2>4. Past' = Past /\ Twice' = Twice \cup {r}
    BY <2>1, <2>3 DEF Past, Twice
  <2>5. PICK k \in 0 .. MaxConns - 1 :
          /\ Dialled = 1 .. k /\ k <= Cardinality(Past) + Cardinality(Twice)
          /\ Fresh = k + 1 /\ Fresh \in Conns /\ link[Fresh] = "none"
    BY <2>1, FreshLeft
  <2>6. Dialled' = Dialled \cup {k + 1}
    BY <1>0, <1>6, <2>5 DEF StreamFailed, Redial, Dropped, Dialled, Links
  <2>7. Dialled' = 1 .. k + 1 /\ k + 1 \in 0 .. MaxConns
    BY <2>5, <2>6
  <2>8. IsFiniteSet(Past) /\ IsFiniteSet(Twice) /\ Cardinality(Twice) \in Nat
        /\ Cardinality(Past) \in Nat /\ Cardinality(Twice \cup {r}) = Cardinality(Twice) + 1
    BY <2>1, FS_Subset, FS_AddElement, FS_CardinalityType DEF Past, Twice
  <2>9. k + 1 <= Cardinality(Past') + Cardinality(Twice')
    BY <2>4, <2>5, <2>8
  <2> QED BY <2>7, <2>9 DEF Dials
<1>7. ASSUME NEW r \in Requests, Plain(r) PROVE Dials'
  <2>1. Dialled' = Dialled
    BY <1>7 DEF Plain, linkVars, Dialled
  <2>2. (r \in Past => r \in Past') /\ (r \in Twice => r \in Twice')
    BY <1>7 DEF Plain, Advances, LetGo, Past, Twice, OnStream, Settled
  <2>3. /\ Past \subseteq Past' /\ Twice \subseteq Twice'
        /\ Past' \subseteq Requests /\ Twice' \subseteq Requests
    BY <1>7, <2>2, Charged DEF Plain
  <2> QED BY <2>1, <2>3, DialsKept
<1>8. ASSUME NEW x \in BiStreams, DaemonStep(x) PROVE Dials'
  <2>1. Past' = Past /\ Twice' = Twice
    BY <1>0, <1>8, DaemonReplies, SamePhases
  <2>2. Dialled' = Dialled
    BY <1>0, <1>8, DaemonReplies DEF linkVars, Dialled
  <2> QED BY <2>1, <2>2 DEF Dials
<1> QED
  BY <1>0, <1>1, <1>2, <1>3, <1>4, <1>5, <1>6, <1>7, <1>8, PhoneSteps DEF PhonePart

\* A connection is dropped from the cache only with its close, done or to be done.
LEMMA ClosesNext ==
  ASSUME TypeOK, Dials, Closes, Staged, Next
  PROVE  Closes' /\ cache' \in Conns \cup {0} /\ (cache' # 0 => link'[cache'] # "none")
         /\ link' \in Links /\ closing' \subseteq Conns /\ told' \subseteq Conns
         /\ remote' \in [Conns -> Macs \cup {NoMac}]
<1> DEFINE Goal == /\ Closes' /\ cache' \in Conns \cup {0} /\ (cache' # 0 => link'[cache'] # "none")
                   /\ link' \in Links /\ closing' \subseteq Conns /\ told' \subseteq Conns
                   /\ remote' \in [Conns -> Macs \cup {NoMac}]
<1>0. /\ req \in Fetches /\ LinkTyped /\ 0 \notin Conns
  BY TypedParts DEF Conns
<1>1. CASE UNCHANGED linkVars
  BY <1>0, <1>1 DEF Closes, linkVars, LinkTyped
<1>2. ASSUME NEW m, Detach(m) PROVE Goal
  BY <1>0, <1>2 DEF Detach, CloseLater, Dropped, Closes, LinkTyped, Links
<1>3. ASSUME NEW c \in Conns, DialDone(c) PROVE Goal
  BY <1>0, <1>3 DEF DialDone, Closes, LinkTyped, Links
<1>4. ASSUME NEW c \in Conns, DialFailed(c) PROVE Goal
  BY <1>0, <1>4 DEF DialFailed, Closes, LinkTyped, Links
<1>5. ASSUME NEW c \in Conns, LinkLost(c) PROVE Goal
  BY <1>0, <1>5 DEF LinkLost, Closes, LinkTyped, Links
<1>6. ASSUME NEW c \in Conns, IdleTimeout(c) PROVE Goal
  BY <1>0, <1>6 DEF IdleTimeout, Closes, LinkTyped, Links
<1>7. ASSUME NEW c \in Conns, ClosedTold(c) PROVE Goal
  BY <1>0, <1>7 DEF ClosedTold, Closes, LinkTyped, Links
<1>8. ASSUME NEW r \in Requests, OpenHttp(r) PROVE Goal
  <2>0. r \notin Twice
    BY <1>8 DEF OpenHttp, Past, Twice
  <2>1. Fresh \in Conns /\ link[Fresh] = "none"
    BY <2>0, FreshLeft
  <2>2. req[r].mac \in Macs \cup {NoMac}
    BY <1>0 DEF Fetches, Fetched
  <2> HIDE DEF Fresh
  <2> QED BY <1>0, <1>8, <2>1, <2>2 DEF OpenHttp, Redial, Closes, LinkTyped, Links
<1>9. ASSUME NEW r \in Requests, StreamFailed(r), req[r].tries = 1 PROVE Goal
  <2>1. Fresh \in Conns /\ link[Fresh] = "none"
    BY <1>9, FreshLeft DEF StreamFailed, Past, Twice
  <2>2. req[r].mac \in Macs \cup {NoMac}
    BY <1>0 DEF Fetches, Fetched
  <2>3. CloseLater /\ Redial(req[r].mac, Dropped) /\ UNCHANGED told
    BY <1>9 DEF StreamFailed
  <2> QED BY <1>0, <2>1, <2>2, <2>3 DEF Redial, CloseLater, Dropped, Closes, LinkTyped, Links
<1>10. PhonePart
  BY <1>0, PhoneSteps DEF LinkTyped
<1>11. CASE (\E r \in Requests : Plain(r)) \/ \E x \in BiStreams : DaemonStep(x)
  BY <1>0, <1>1, <1>11, DaemonReplies DEF Plain
<1> QED
  BY <1>1, <1>2, <1>3, <1>4, <1>5, <1>6, <1>7, <1>8, <1>9, <1>10, <1>11 DEF PhonePart, ConnStep

LEMMA FetchesNext ==
  ASSUME TypeOK, Dials, Staged, Next
  PROVE  req' \in Fetches /\ Staged'
<1> DEFINE Goal == req' \in Fetches /\ Staged'
<1>0. /\ req \in Fetches /\ LinkTyped /\ 0 \notin Conns
  BY TypedParts DEF Conns
<1>1. CASE UNCHANGED req
  BY <1>0, <1>1 DEF Staged
<1>2. CASE Strike
  BY <1>0, <1>2, StrikeFacts DEF Staged
<1>3. CASE ConnStep
  BY <1>1, <1>2, <1>3 DEF ConnStep, DialDone, DialFailed, LinkLost, IdleTimeout, ClosedTold
<1>4. ASSUME NEW m, Detach(m) PROVE Goal
  BY <1>2, <1>4 DEF Detach
<1>5. ASSUME NEW r \in Requests, OpenHttp(r) PROVE Goal
  <2>1. Fresh \in Conns
    BY <1>5, FreshLeft DEF OpenHttp, Past, Twice
  <2> DEFINE c == IF cache # 0 THEN cache ELSE Fresh
             next == [req[r] EXCEPT !.phase = "dial", !.tries = 1, !.conn = c]
  <2>2. c \in Conns
    BY <1>0, <2>1 DEF LinkTyped
  <2>3. req' = [req EXCEPT ![r] = next]
    BY <1>5 DEF OpenHttp
  <2> HIDE DEF c
  <2>4. next \in Fetched
    <3>1. "dial" \in Phases /\ 1 \in 0 .. 2 /\ c \in Conns \cup {0}
      BY <2>2 DEF Phases
    <3> QED BY <1>0, <3>1 DEF Fetches, Fetched
  <2>5. next.conn = c /\ next.tries = 1
    BY <1>0 DEF Fetches, Fetched
  <2> HIDE DEF next
  <2> QED BY <1>0, <2>2, <2>3, <2>4, <2>5 DEF Fetches, Fetched, Staged
<1>6. ASSUME NEW r \in Requests, StreamFailed(r), req[r].tries = 1 PROVE Goal
  <2>1. Fresh \in Conns
    BY <1>6, FreshLeft DEF StreamFailed, Past, Twice
  <2>2. PICK S : req' = [Meet(S) EXCEPT ![r].tries = 2, ![r].conn = Fresh]
    BY <1>6 DEF StreamFailed
  <2> HIDE DEF Fresh
  <2>3. Meet(S) \in Fetches /\ \A q \in Requests : Meet(S)[q].phase = req[q].phase
        /\ Meet(S)[q].conn = req[q].conn /\ Meet(S)[q].tries = req[q].tries
    BY <1>0, MeetFacts
  <2> DEFINE met == Meet(S)
  <2>4. req' = [met EXCEPT ![r].tries = 2, ![r].conn = Fresh]
    BY <2>2
  <2> HIDE DEF met
  <2>5. met \in Fetches /\ \A q \in Requests : met[q].phase = req[q].phase
        /\ met[q].conn = req[q].conn /\ met[q].tries = req[q].tries
    BY <2>3 DEF met
  <2>6. req' \in Fetches
    <3> DEFINE next == [met[r] EXCEPT !.tries = 2, !.conn = Fresh]
    <3>1. 2 \in 0 .. 2 /\ Fresh \in Conns \cup {0}
      BY <2>1
    <3>2. next \in Fetched
      BY <2>5, <3>1, ZenonT(20) DEF Fetches, Fetched
    <3>3. req' = [met EXCEPT ![r] = next]
      BY <2>4
    <3> HIDE DEF next
    <3> QED BY <2>5, <3>2, <3>3 DEF Fetches, Fetched
  <2>7. /\ req'[r].conn = Fresh /\ req'[r].tries = 2
        /\ \A q \in Requests \ {r} : req'[q].phase = req[q].phase
             /\ req'[q].conn = req[q].conn /\ req'[q].tries = req[q].tries
    BY <2>1, <2>4, <2>5 DEF Fetches, Fetched
  <2> QED BY <1>0, <2>1, <2>6, <2>7 DEF Staged
<1>7. ASSUME NEW r \in Requests, Plain(r) PROVE Goal
  BY <1>7 DEF Plain, Staged, Advances, LetGo, OnStream, Settled
<1>8. ASSUME NEW x \in BiStreams, DaemonStep(x) PROVE Goal
  BY <1>0, <1>8, DaemonReplies DEF Staged
<1> QED
  BY <1>0, <1>1, <1>2, <1>3, <1>4, <1>5, <1>6, <1>7, <1>8, PhoneSteps DEF PhonePart, LinkTyped

-----------------------------------------------------------------------------
(* Failures *)

\* A step only adds to what a request under way has met, brings none back, and leaves one
\* that has a stream the stream it has.
LEMMA MetGrows ==
  ASSUME TypeOK, Dials, Staged, Next, NEW r \in Requests
  PROVE  /\ UnderWay(r)' => UnderWay(r) \/ req[r].phase = "idle"
         /\ UnderWay(r)' /\ req[r].met => req'[r].met
         /\ req[r].phase \in Settled => req'[r].phase \in Settled
         /\ req[r].phase \in OnStream =>
              \/ req'[r].phase \in Settled
              \/ req'[r].phase \in OnStream /\ req'[r].tries = req[r].tries
<1> DEFINE Goal ==
      /\ UnderWay(r)' => UnderWay(r) \/ req[r].phase = "idle"
      /\ UnderWay(r)' /\ req[r].met => req'[r].met
      /\ req[r].phase \in Settled => req'[r].phase \in Settled
      /\ req[r].phase \in OnStream =>
           \/ req'[r].phase \in Settled
           \/ req'[r].phase \in OnStream /\ req'[r].tries = req[r].tries
<1>0. /\ req \in Fetches /\ LinkTyped
  BY TypedParts
<1>1. CASE UNCHANGED req
  BY <1>1 DEF UnderWay
<1>2. CASE Strike
  BY <1>0, <1>2, StrikeFacts DEF UnderWay
<1>3. CASE ConnStep
  BY <1>1, <1>2, <1>3 DEF ConnStep, DialDone, DialFailed, LinkLost, IdleTimeout, ClosedTold
<1>4. ASSUME NEW m, Detach(m) PROVE Goal
  BY <1>2, <1>4 DEF Detach
<1>5. ASSUME NEW q \in Requests, OpenHttp(q) PROVE Goal
  BY <1>0, <1>5 DEF OpenHttp, Fetches, Fetched, UnderWay, OnStream, Settled
<1>6. ASSUME NEW q \in Requests, StreamFailed(q), req[q].tries = 1 PROVE Goal
  <2>1. PICK S : req' = [Meet(S) EXCEPT ![q].tries = 2, ![q].conn = Fresh]
    BY <1>6 DEF StreamFailed
  <2>2. req[q].phase = "dial"
    BY <1>6 DEF StreamFailed
  <2> QED BY <1>0, <2>1, <2>2, MeetFacts DEF Fetches, Fetched, UnderWay, OnStream, Settled
<1>7. ASSUME NEW q \in Requests, Plain(q) PROVE Goal
  BY <1>7 DEF Plain, UnderWay, Advances, LetGo, OnStream, Settled
<1>8. ASSUME NEW x \in BiStreams, DaemonStep(x) PROVE Goal
  BY <1>0, <1>8, DaemonReplies DEF UnderWay
<1> QED
  BY <1>0, <1>1, <1>2, <1>3, <1>4, <1>5, <1>6, <1>7, <1>8, PhoneSteps DEF PhonePart, LinkTyped

\* A request that keeps its connection, phase and tries finds the connection no worse,
\* or has met what made it so.
LEMMA CausesNext ==
  ASSUME TypeOK, Dials, Closes, Staged, Heard, Causes, Strikes, Next
  PROVE  Causes'
<1>0. /\ req \in Fetches /\ LinkTyped /\ 0 \notin Conns
  BY TypedParts DEF Conns
<1>1. CASE UNCHANGED linkVars /\ UNCHANGED req
  BY <1>1 DEF Causes, Last, Lost, linkVars
<1>2. CASE UNCHANGED linkVars /\ Strike
  BY <1>0, <1>2, StrikeFacts DEF Causes, Last, Lost, linkVars
<1>3. ASSUME Strike, UNCHANGED closing \/ closing' \subseteq Conns PROVE Causes'
  <2>1. \A r \in Requests : Last(r) => UnderWay(r)
    BY DEF Last, UnderWay, OnStream, Settled
  <2> QED BY <1>0, <1>3, <2>1, StrikeFacts DEF Causes, Last
<1>4. ASSUME NEW m, Detach(m) PROVE Causes'
  <2>1. closing' \subseteq Conns
    BY <1>0, <1>4 DEF Detach, CloseLater, LinkTyped
  <2> QED BY <1>3, <1>4, <2>1 DEF Detach
<1>5. ASSUME NEW c \in Conns, DialDone(c) PROVE Causes'
  <2>1. ASSUME NEW r \in Requests, Last(r) /\ Lost(r)' PROVE Lost(r)
    <3>1. req[r].conn \in Conns
      BY <1>0, <2>1 DEF Last, Staged, OnStream, Fetches, Fetched
    <3> QED BY <1>0, <1>5, <2>1, <3>1 DEF DialDone, Lost, LinkTyped, Links
  <2> QED BY <1>5, <2>1 DEF DialDone, Causes, Last
<1>6. ASSUME NEW c \in Conns, IdleTimeout(c) PROVE Causes'
  <2>1. ASSUME NEW r \in Requests, Last(r) /\ Lost(r)' PROVE Lost(r)
    <3>1. req[r].conn \in Conns
      BY <1>0, <2>1 DEF Last, Staged, OnStream, Fetches, Fetched
    <3> QED BY <1>0, <1>6, <2>1, <3>1 DEF IdleTimeout, Lost, LinkTyped, Links
  <2> QED BY <1>6, <2>1 DEF IdleTimeout, Causes, Last
<1>7. ASSUME NEW c \in Conns, DialFailed(c) \/ LinkLost(c) PROVE Causes'
  <2>1. closing' \subseteq Conns /\ Strike
    BY <1>0, <1>7 DEF DialFailed, LinkLost, LinkTyped
  <2> QED BY <1>3, <2>1
<1>8. ASSUME NEW c \in Conns, ClosedTold(c) PROVE Causes'
  BY <1>8 DEF ClosedTold, Causes, Last, Lost
<1>9. ASSUME NEW r \in Requests, OpenHttp(r) PROVE Causes'
  <2>1. r \notin Twice
    BY <1>9 DEF OpenHttp, Past, Twice
  <2>2. Fresh \in Conns /\ link[Fresh] = "none"
    BY <2>1, FreshLeft
  <2>3. /\ req'[r].phase = "dial" /\ req'[r].tries = 1 /\ req'[r].back = req[r].back
        /\ req'[r].met = req[r].met /\ \A q \in Requests \ {r} : req'[q] = req[q]
    BY <1>0, <1>9 DEF OpenHttp, Fetches, Fetched
  <2>4. closing' = closing
        /\ \A c \in Conns : link'[c] = link[c] \/ link'[c] = "dialing"
    BY <1>0, <1>9, <2>2 DEF OpenHttp, Redial, LinkTyped, Links
  <2>5. ~Last(r)'
    BY <2>3 DEF Last, OnStream
  <2>6. ASSUME NEW q \in Requests \ {r}, Last(q)', Lost(q)' PROVE Last(q) /\ Lost(q)
    <3>1. Last(q) /\ req[q].conn \in Conns
      BY <1>0, <2>3, <2>6 DEF Last, Staged, OnStream, Fetches, Fetched
    <3> QED BY <2>3, <2>4, <2>6, <3>1 DEF Lost
  <2> QED BY <2>3, <2>5, <2>6 DEF Causes
<1>10. ASSUME NEW r \in Requests, StreamFailed(r), req[r].tries = 1 PROVE Causes'
  <2>1. Fresh \in Conns /\ link[Fresh] = "none"
    BY <1>10, FreshLeft DEF StreamFailed, Past, Twice
  <2> DEFINE S == Users(cache) \ {r}
  <2>2. /\ req' = [Meet(S) EXCEPT ![r].tries = 2, ![r].conn = Fresh]
        /\ CloseLater /\ Redial(req[r].mac, Dropped)
    BY <1>10 DEF StreamFailed
  <2>3. \A q \in Requests : Last(q) /\ q # r /\ req[q].conn = cache /\ cache # 0 => q \in S
    BY DEF Users, Last, UnderWay, OnStream, Settled
  <2> HIDE DEF S, Fresh
  <2>4. /\ req'[r].phase = req[r].phase /\ req'[r].back = req[r].back
        /\ req[r].met => req'[r].met /\ req'[r].conn = Fresh
        /\ \A q \in Requests \ {r} :
             /\ req'[q].phase = req[q].phase /\ req'[q].tries = req[q].tries
             /\ req'[q].conn = req[q].conn /\ req'[q].back = req[q].back
             /\ req'[q].met <=> (req[q].met \/ q \in S)
    BY <1>0, <2>1, <2>2, MeetFacts DEF Fetches, Fetched
  <2>5. /\ link'[Fresh] = "dialing" /\ Fresh \notin closing'
        /\ \A c \in Conns : c # cache /\ link'[c] \in {"silent", "dead"} => link'[c] = link[c]
        /\ \A c \in closing' : c = cache \/ c \in closing
    BY <1>0, <2>1, <2>2 DEF Redial, CloseLater, Dropped, Closes, LinkTyped, Links
  <2>6. req'[r].conn = Fresh
    BY <1>0, <2>1, <2>2, MeetFacts DEF Fetches, Fetched
  <2>7. ~Lost(r)'
    BY <2>5, <2>6 DEF Lost
  <2>8. ASSUME NEW q \in Requests \ {r}, Last(q)', Lost(q)' PROVE req'[q].met
    <3>1. Last(q) /\ req[q].conn \in Conns
      BY <1>0, <2>4, <2>8 DEF Last, Staged, OnStream, Fetches, Fetched
    <3>2. CASE req[q].conn = cache
      BY <1>0, <2>3, <2>4, <3>1, <3>2
    <3>3. CASE req[q].conn # cache
      <4>1. Lost(q)
        BY <2>4, <2>5, <2>8, <3>1, <3>3 DEF Lost
      <4> QED BY <2>4, <3>1, <4>1 DEF Causes
    <3> QED BY <3>2, <3>3
  <2> QED BY <2>4, <2>7, <2>8 DEF Causes
<1>11. ASSUME NEW r \in Requests, Plain(r) PROVE Causes'
  <2>1. /\ link' = link /\ closing' = closing /\ req' \in Fetches
        /\ Advances(r) \/ LetGo(r)
        /\ \A q \in Requests \ {r} : req'[q] = req[q]
    BY <1>11 DEF Plain, linkVars
  <2>2. ASSUME NEW q \in Requests \ {r} PROVE (Last(q)' => Last(q)) /\ (Lost(q)' => Lost(q))
    BY <2>1 DEF Last, Lost
  <2>3. CASE LetGo(r)
    BY <2>1, <2>2, <2>3 DEF LetGo, Causes, Last, OnStream, Settled
  <2>4. CASE Advances(r)
    <3>1. Lost(r)' => Lost(r)
      BY <2>1, <2>4 DEF Advances, Lost
    <3>2. Last(r)' /\ Lost(r)' => req'[r].met
      <4>1. CASE Last(r)
        BY <2>4, <3>1, <4>1 DEF Advances, Causes
      <4>2. CASE ~Last(r)
        BY <1>0, <2>4, <3>1, <4>2 DEF Advances, Last, Lost, LinkOf, Closes, OnStream
      <4> QED BY <4>1, <4>2
    <3> QED BY <2>1, <2>2, <2>4, <3>2 DEF Advances, Causes
  <2> QED BY <2>1, <2>3, <2>4
<1>12. ASSUME NEW x \in BiStreams, DaemonStep(x) PROVE Causes'
  <2>1. Alive(x) => UnderWay(x[1])
    BY DEF Alive, UnderWay, Settled
  <2> QED BY <1>0, <1>12, <2>1, DaemonReplies DEF Causes, Strikes, Served, Last, Lost, linkVars
<1>13. PhonePart
  BY <1>0, PhoneSteps DEF LinkTyped
<1> QED
  BY <1>1, <1>2, <1>4, <1>5, <1>6, <1>7, <1>8, <1>9, <1>10, <1>11, <1>12, <1>13 DEF PhonePart, ConnStep

\* A request fails for one of the causes.
LEMMA FailsNext ==
  ASSUME TypeOK, Dials, Staged, Causes, FailsForCause, Next
  PROVE  FailsForCause'
<1>0. /\ req \in Fetches /\ LinkTyped
  BY TypedParts
<1>1. CASE UNCHANGED req
  BY <1>1 DEF FailsForCause
<1>2. CASE Strike
  BY <1>0, <1>2, StrikeFacts DEF FailsForCause
<1>3. CASE ConnStep
  BY <1>1, <1>2, <1>3 DEF ConnStep, DialDone, DialFailed, LinkLost, IdleTimeout, ClosedTold
<1>4. ASSUME NEW m, Detach(m) PROVE FailsForCause'
  BY <1>2, <1>4 DEF Detach
<1>5. ASSUME NEW r \in Requests, OpenHttp(r) PROVE FailsForCause'
  BY <1>0, <1>5 DEF OpenHttp, Fetches, Fetched, FailsForCause
<1>6. ASSUME NEW r \in Requests, StreamFailed(r), req[r].tries = 1 PROVE FailsForCause'
  <2>1. PICK S : req' = [Meet(S) EXCEPT ![r].tries = 2, ![r].conn = Fresh]
    BY <1>6 DEF StreamFailed
  <2> QED BY <1>0, <2>1, MeetFacts DEF Fetches, Fetched, FailsForCause
<1>7. ASSUME NEW r \in Requests, Plain(r) PROVE FailsForCause'
  <2>1. req'[r].phase = "failed" => req'[r].met
    BY <1>7 DEF Plain, Advances, LetGo, Causes, Lost, LinkOf, FailsForCause, OnStream
  <2> QED BY <1>7, <2>1 DEF Plain, FailsForCause
<1>8. ASSUME NEW x \in BiStreams, DaemonStep(x) PROVE FailsForCause'
  BY <1>0, <1>8, DaemonReplies DEF FailsForCause
<1> QED
  BY <1>0, <1>1, <1>2, <1>3, <1>4, <1>5, <1>6, <1>7, <1>8, PhoneSteps DEF PhonePart, LinkTyped

-----------------------------------------------------------------------------
(* The daemon's exchanges *)

\* What a step makes of an exchange: it goes on, and comes closer to its end.
Onward(x) ==
  /\ serving'[x].at # "none" => serving[x].at # "none" \/ Alive(x)
  /\ serving'[x].at \in {"sent", "running", "body"} => serving'[x].by # 0
  /\ serving'[x].at \in {"running", "body"} =>
       \/ serving'[x].by = service' /\ service' = service
       \/ serving[x].at \in {"running", "body"} /\ serving'[x].by = serving[x].by
  /\ serving'[x].at \in Early => serving[x].at \in Early

\* What a step makes of the runs: one more for an exchange that is sent, or none.
Runs ==
  \/ runs' = runs
  \/ \E x \in BiStreams : /\ serving[x].at = "sent" /\ serving'[x].at \notin Early
                          /\ runs' = [runs EXCEPT ![x[1]] = @ + 1]

LEMMA ReplyOnward ==
  ASSUME TypeOK, Heard, Ran, NEW x \in BiStreams, NEW from \in {"running", "body", "refused"},
         NEW answer, NEW next \in {"body", "over"}, Reply(x, from, answer, next),
         from = "refused" => next = "over"
  PROVE  /\ ServingTyped' /\ ServiceTyped' /\ Runs
         /\ \A y \in BiStreams : Onward(y)
<1>0. serving \in Exchanges /\ ServingTyped /\ ServiceTyped
  BY TypedParts DEF ServingTyped
<1>1. /\ UNCHANGED <<cached, fresh, probe, starting, service, spawned, runs>>
      /\ serving[x].at = from
      /\ \/ serving' = [serving EXCEPT ![x].at = next]
         \/ serving' = [serving EXCEPT ![x] = [at |-> "over", by |-> 0]]
      /\ next = "over" => serving' = [serving EXCEPT ![x] = [at |-> "over", by |-> 0]]
  BY DEF Reply, Serve, Over, historyVars
<1>2. ServiceTyped'
  BY <1>0, <1>1 DEF ServiceTyped
<1>3. serving' \in Exchanges /\ \A y \in BiStreams \ {x} : serving'[y] = serving[y]
  BY <1>0, <1>1 DEF Exchanges
<1>4. \/ serving'[x].at = "over"
      \/ serving'[x].at = "body" /\ serving'[x].by = serving[x].by /\ from \in {"running", "body"}
  BY <1>0, <1>1 DEF Exchanges
<1>5. ServingTyped'
  BY <1>0, <1>1, <1>3, <1>4 DEF ServingTyped
<1>6. \A y \in BiStreams : Onward(y)
  BY <1>0, <1>1, <1>3, <1>4 DEF Onward, Heard, Early
<1> QED
  BY <1>1, <1>2, <1>5, <1>6 DEF Runs

LEMMA DaemonOnward ==
  ASSUME TypeOK, Heard, Ran, NEW x \in BiStreams, DaemonStep(x)
  PROVE  /\ ServingTyped' /\ ServiceTyped' /\ Runs
         /\ \A y \in BiStreams : Onward(y)
<1>0. serving \in Exchanges /\ ServingTyped /\ ServiceTyped
  BY TypedParts DEF ServingTyped
<1>1. CASE Accept(x)
  <2>1. /\ UNCHANGED <<cached, fresh, starting, service, spawned, runs>> /\ Alive(x)
        /\ probe' = probe \/ probe' = [on |-> TRUE, of |-> service]
        /\ \/ cached # 0 /\ serving' = [serving EXCEPT ![x] = [at |-> "sent", by |-> cached]]
           \/ serving' = [serving EXCEPT ![x].at = "resolving"]
        /\ serving[x].at = "none"
    BY <1>1 DEF Accept, Probed, Sent, Serve, historyVars
  <2>2. ServiceTyped'
    <3>1. TRUE \in BOOLEAN /\ service \in Services \cup {0}
      BY <1>0 DEF ServiceTyped
    <3>2. probe' \in [on : BOOLEAN, of : Services \cup {0}]
      <4>1. CASE probe' = probe
        BY <1>0, <4>1 DEF ServiceTyped
      <4>2. CASE probe' = [on |-> TRUE, of |-> service]
        BY <3>1, <4>2
      <4> QED BY <2>1, <4>1, <4>2
    <3> QED BY <1>0, <2>1, <3>2 DEF ServiceTyped
  <2>3. /\ serving' \in Exchanges /\ \A y \in BiStreams \ {x} : serving'[y] = serving[y]
        /\ serving'[x].at \in {"sent", "resolving"}
        /\ serving'[x].at = "sent" => serving'[x].by # 0
    BY <1>0, <2>1 DEF Exchanges, ServiceTyped
  <2>4. ServingTyped'
    BY <1>0, <2>1, <2>3 DEF ServingTyped
  <2>5. \A y \in BiStreams : Onward(y)
    BY <1>0, <2>1, <2>3 DEF Onward, Heard, Early
  <2> QED BY <2>1, <2>2, <2>4, <2>5 DEF Runs
<1>2. CASE Forward(x)
  <2>1. /\ UNCHANGED <<cached, fresh, probe, starting, service, spawned>>
        /\ serving[x].at = "sent"
        /\ \/ /\ serving' = [serving EXCEPT ![x].at = "running"] /\ service = serving[x].by
              /\ runs' = [runs EXCEPT ![x[1]] = @ + 1]
           \/ serving' = [serving EXCEPT ![x].at = "refused"] /\ runs' = runs
    BY <1>2 DEF Forward, Serve
  <2>2. ServiceTyped'
    BY <1>0, <2>1 DEF ServiceTyped
  <2>3. /\ serving' \in Exchanges /\ \A y \in BiStreams \ {x} : serving'[y] = serving[y]
        /\ serving'[x].by = serving[x].by /\ serving'[x].at \in {"running", "refused"}
        /\ serving'[x].at = "running" => service = serving[x].by
    BY <1>0, <2>1 DEF Exchanges
  <2>4. ServingTyped'
    BY <1>0, <2>1, <2>3 DEF ServingTyped
  <2>5. \A y \in BiStreams : Onward(y)
    BY <2>1, <2>3 DEF Onward, Heard, Early
  <2>6. Runs
    BY <2>1, <2>3 DEF Runs, Early
  <2> QED BY <2>2, <2>4, <2>5, <2>6
<1>3. CASE ReplyHead(x)
  BY <1>3, ReplyOnward DEF ReplyHead
<1>4. CASE ReplyBody(x)
  BY <1>4, ReplyOnward DEF ReplyBody
<1>5. CASE Heartbeat(x)
  BY <1>5, ReplyOnward DEF Heartbeat
<1>6. CASE Refuse(x)
  BY <1>6, ReplyOnward DEF Refuse
<1>7. CASE UpstreamLost(x)
  BY <1>7, ReplyOnward DEF UpstreamLost
<1> QED
  BY <1>1, <1>2, <1>3, <1>4, <1>5, <1>6, <1>7 DEF DaemonStep

\* What moves the exchanges of S to another point of their exchanges.
LEMMA ToFacts ==
  ASSUME serving \in Exchanges, NEW S,
         NEW at \in {"waiting", "again", "refused"}
  PROVE  /\ To(S, at) \in Exchanges
         /\ \A x \in BiStreams : x \in S => To(S, at)[x].at = at /\ To(S, at)[x].by = 0
         /\ \A x \in BiStreams : x \notin S => To(S, at)[x] = serving[x]
  BY DEF To, Exchanges

LEMMA StartOnward ==
  ASSUME TypeOK, Heard, Ran, StartDone \/ StartFailed
  PROVE  /\ ServingTyped' /\ ServiceTyped' /\ Runs
         /\ \A y \in BiStreams : Onward(y)
<1> USE HttpBounds
<1>0. serving \in Exchanges /\ ServingTyped /\ ServiceTyped
  BY TypedParts DEF ServingTyped
<1>1. PICK at \in {"again", "refused"} : serving' = To(Waiting, at)
  BY DEF StartDone, StartFailed
<1>2. /\ serving' \in Exchanges
      /\ \A x \in BiStreams : serving[x].at = "waiting" =>
           serving[x].at \in Early /\ serving'[x].at = at
      /\ \A x \in BiStreams : serving[x].at # "waiting" => serving'[x] = serving[x]
  <2>1. \A x \in BiStreams : x \in Waiting <=> serving[x].at = "waiting"
    BY DEF Waiting
  <2> HIDE DEF Waiting
  <2> QED BY <1>0, <1>1, <2>1, ToFacts DEF Early
<1>3. runs' = runs
  BY DEF StartDone, StartFailed, historyVars
<1>4. ServiceTyped'
  <2>1. CASE StartFailed
    BY <1>0, <2>1 DEF StartFailed, ServiceTyped
  <2>2. CASE StartDone
    <3>1. /\ service' \in Services \cup {0} /\ spawned' \in Services \cup {0}
          /\ cached' = cached /\ fresh' = FALSE /\ starting' = FALSE
          /\ probe' = probe \/ probe' = [on |-> TRUE, of |-> service']
      BY <1>0, <2>2 DEF StartDone, ServiceTyped, Services
    <3>2. TRUE \in BOOLEAN /\ FALSE \in BOOLEAN
      OBVIOUS
    <3>3. CASE probe' = probe
      BY <1>0, <3>1, <3>2, <3>3 DEF ServiceTyped
    <3>4. CASE probe' = [on |-> TRUE, of |-> service']
      <4>1. probe' \in [on : BOOLEAN, of : Services \cup {0}]
        BY <3>1, <3>2, <3>4
      <4> QED BY <1>0, <3>1, <3>2, <4>1 DEF ServiceTyped
    <3> QED BY <3>1, <3>3, <3>4
  <2> QED BY <2>1, <2>2
<1>5. ServingTyped'
  BY <1>2 DEF ServingTyped
<1>6. \A y \in BiStreams : Onward(y)
  BY <1>2, <1>3 DEF Onward, Heard, Early
<1> QED
  BY <1>3, <1>4, <1>5, <1>6 DEF Runs

LEMMA ProbeOnward ==
  ASSUME TypeOK, Heard, Ran, ProbeBack
  PROVE  /\ ServingTyped' /\ ServiceTyped' /\ Runs
         /\ \A y \in BiStreams : Onward(y)
<1> DEFINE answer == IF service = probe.of THEN probe.of ELSE 0
           first == {x \in BiStreams : serving[x].at = "resolving"}
           second == {x \in BiStreams : serving[x].at = "again"}
           starts == {x \in first : x[1] \in Tasks}
<1>0. serving \in Exchanges /\ ServingTyped /\ ServiceTyped
  BY TypedParts DEF ServingTyped
<1>1. /\ probe' = NoProbe /\ cached' = answer /\ fresh' = TRUE
      /\ runs' = runs /\ UNCHANGED <<service, spawned>>
  BY DEF ProbeBack
<1>2. answer \in Services \cup {0}
  BY <1>0 DEF ServiceTyped
<1>3. \A x \in BiStreams : /\ x \in first <=> serving[x].at = "resolving"
                           /\ x \in second <=> serving[x].at = "again"
  OBVIOUS
<1>4. \/ /\ answer # 0 /\ UNCHANGED <<starting, unserved>>
         /\ serving' = [x \in BiStreams |->
              IF x \in first \cup second THEN Sent(answer) ELSE serving[x]]
      \/ \E waits \in SUBSET first :
           /\ starting => waits = first
           /\ ~starting /\ starts = {} => waits = {}
           /\ serving' = [x \in BiStreams |->
                IF x \in first \cup second
                THEN [at |-> IF x \in waits THEN "waiting" ELSE "refused", by |-> 0]
                ELSE serving[x]]
           /\ starting' = (starting \/ starts # {})
  BY DEF ProbeBack
<1>5. starting' \in BOOLEAN
  BY <1>0, <1>4 DEF ServiceTyped
<1>6. ServiceTyped'
  <2>1. NoProbe \in [on : BOOLEAN, of : Services \cup {0}]
    BY DEF NoProbe
  <2> HIDE DEF answer
  <2> QED BY <1>0, <1>1, <1>2, <1>5, <2>1 DEF ServiceTyped
<1> HIDE DEF answer, first, second, starts
<1>7. CASE answer # 0 /\ UNCHANGED <<starting, unserved>>
           /\ serving' = [x \in BiStreams |->
                IF x \in first \cup second THEN Sent(answer) ELSE serving[x]]
  <2>1. serving' \in Exchanges
    BY <1>0, <1>2, <1>7 DEF Exchanges, Sent
  <2>2. \A x \in BiStreams :
          \/ serving[x].at \in {"resolving", "again"} /\ serving'[x].at = "sent" /\ serving'[x].by # 0
          \/ serving'[x] = serving[x]
    BY <1>3, <1>7 DEF Sent
  <2>3. ServingTyped'
    BY <1>0, <1>7, <2>1, <2>2 DEF ServingTyped
  <2>4. \A y \in BiStreams : Onward(y)
    BY <1>1, <2>2 DEF Onward, Heard, Early
  <2> QED BY <1>1, <1>6, <2>3, <2>4 DEF Runs
<1>8. ASSUME NEW waits \in SUBSET first, starting => waits = first,
             ~starting /\ starts = {} => waits = {}, starting' = (starting \/ starts # {}),
             serving' = [x \in BiStreams |->
               IF x \in first \cup second
               THEN [at |-> IF x \in waits THEN "waiting" ELSE "refused", by |-> 0]
               ELSE serving[x]]
      PROVE  ServingTyped' /\ \A y \in BiStreams : Onward(y)
  <2>1. serving' \in Exchanges
    BY <1>0, <1>8 DEF Exchanges
  <2>2. \A x \in BiStreams :
          \/ /\ serving[x].at \in {"resolving", "again"}
             /\ serving'[x].at = "refused" \/ (serving'[x].at = "waiting" /\ x \in waits)
          \/ serving'[x] = serving[x] /\ serving[x].at \notin {"resolving", "again"}
    BY <1>3, <1>8
  <2>3. \A x \in BiStreams : serving'[x].at = "waiting" => starting'
    BY <1>0, <1>8, <2>2 DEF ServingTyped
  <2>4. \A y \in BiStreams : Onward(y)
    BY <1>1, <2>2 DEF Onward, Heard, Early
  <2> QED BY <2>1, <2>3, <2>4 DEF ServingTyped
<1> QED
  BY <1>1, <1>4, <1>6, <1>7, <1>8 DEF Runs

LEMMA OnwardNext ==
  ASSUME TypeOK, Heard, Ran, Next
  PROVE  /\ ServingTyped' /\ ServiceTyped' /\ Runs
         /\ \A y \in BiStreams : Onward(y)
<1>0. serving \in Exchanges /\ ServingTyped /\ ServiceTyped
  BY TypedParts DEF ServingTyped
<1>1. CASE UNCHANGED <<daemonVars, service, spawned, historyVars>>
  <2>1. UNCHANGED <<serving, cached, fresh, probe, starting, service, spawned, runs>>
    BY <1>1 DEF daemonVars, historyVars
  <2> QED BY <1>0, <2>1 DEF ServingTyped, ServiceTyped, Runs, Onward, Heard
<1>2. CASE AnswerAges
  <2>1. UNCHANGED <<serving, cached, probe, starting, service, spawned, runs>> /\ fresh' = FALSE
    BY <1>2 DEF AnswerAges, historyVars
  <2>2. ServiceTyped'
    BY <1>0, <2>1 DEF ServiceTyped
  <2>3. ServingTyped' /\ Runs /\ \A y \in BiStreams : Onward(y)
    BY <1>0, <2>1 DEF ServingTyped, Runs, Onward, Heard
  <2> QED BY <2>2, <2>3
<1>3. CASE ServiceStops \/ ServiceStarts
  <2>1. /\ UNCHANGED <<serving, cached, fresh, probe, starting, runs>>
        /\ service' \in Services \cup {0} /\ spawned' \in Services \cup {0}
    BY <1>0, <1>3, HttpBounds DEF ServiceStops, ServiceStarts, daemonVars, historyVars, ServiceTyped, Services
  <2> QED BY <1>0, <2>1 DEF ServingTyped, ServiceTyped, Runs, Onward, Heard
<1> QED
  BY <1>1, <1>2, <1>3, DaemonSteps, DaemonOnward, StartOnward, ProbeOnward DEF DaemonPart

LEMMA HeardNext ==
  ASSUME TypeOK, Dials, Staged, Heard, Ran, Next
  PROVE  Heard'
<1> SUFFICES ASSUME NEW x \in BiStreams
             PROVE  /\ serving'[x].at # "none" =>
                         \/ req'[x[1]].phase \in Settled
                         \/ req'[x[1]].phase \in OnStream /\ req'[x[1]].tries = x[2]
                    /\ serving'[x].at \in {"sent", "running", "body"} => serving'[x].by # 0
  BY DEF Heard
<1>1. Onward(x) /\ x[1] \in Requests
  BY OnwardNext, StreamParts
<1>2. ASSUME serving'[x].at # "none"
      PROVE  \/ req[x[1]].phase \in Settled
             \/ req[x[1]].phase \in OnStream /\ req[x[1]].tries = x[2]
  BY <1>1, <1>2 DEF Onward, Heard, Alive, OnStream
<1> QED
  BY <1>1, <1>2, MetGrows DEF Onward

\* A stream that reaches the daemon is the one the phone has, and the first to do so.
LEMMA OneExchangeNext ==
  ASSUME TypeOK, Heard, OneExchange, Ran, Next
  PROVE  OneExchange'
<1> SUFFICES ASSUME NEW x \in BiStreams, NEW y \in BiStreams, x[1] = y[1],
                    serving'[x].at # "none", serving'[y].at # "none"
             PROVE  x = y
  BY DEF OneExchange
<1>1. /\ serving[x].at # "none" \/ Alive(x)
      /\ serving[y].at # "none" \/ Alive(y)
  BY OnwardNext DEF Onward
<1>2. ASSUME NEW u \in BiStreams, NEW v \in BiStreams, u[1] = v[1], Alive(u),
             serving[v].at # "none" \/ Alive(v)
      PROVE  u = v
  <2>1. req[u[1]].phase \in OnStream /\ req[u[1]].tries = u[2] /\ req[u[1]].phase \notin Settled
    BY <1>2 DEF Alive, OnStream, Settled
  <2>2. req[u[1]].tries = v[2]
    BY <1>2, <2>1 DEF Alive, Heard
  <2> QED BY <1>2, <2>1, <2>2, StreamParts
<1> QED
  BY <1>1, <1>2 DEF OneExchange

\* What runs is the one exchange of its request.
LEMMA RanNext ==
  ASSUME TypeOK, Heard, OneExchange, Ran, Next
  PROVE  Ran'
<1>1. Runs /\ \A x \in BiStreams : serving'[x].at \in Early => serving[x].at \in Early
  BY OnwardNext DEF Onward
<1>2. CASE runs' = runs
  BY <1>1, <1>2 DEF Ran
<1>3. ASSUME NEW x \in BiStreams, serving[x].at = "sent", serving'[x].at \notin Early,
             runs' = [runs EXCEPT ![x[1]] = @ + 1]
      PROVE  Ran'
  <2>1. x[1] \in Requests
    BY StreamParts
  <2>2. \A y \in BiStreams : y[1] = x[1] => serving[y].at \in Early
    BY <1>3 DEF OneExchange, Early
  <2>3. runs[x[1]] = 0
    BY <2>1, <2>2 DEF Ran
  <2>4. /\ runs' \in [Requests -> {0, 1}] /\ runs'[x[1]] = 1
        /\ \A r \in Requests \ {x[1]} : runs'[r] = runs[r]
    BY <1>3, <2>1, <2>3 DEF Ran
  <2> QED BY <1>1, <1>3, <2>4 DEF Ran
<1> QED
  BY <1>1, <1>2, <1>3 DEF Runs

\* The service that answers changes only while it is away, or by a stop.
LEMMA StrikesNext ==
  ASSUME TypeOK, Dials, Staged, Heard, Ran, Strikes, Next
  PROVE  Strikes'
<1>0. req \in Fetches
  BY TypedParts
<1>1. service' = service \/ service = 0 \/ Strike
  <2>1. CASE UNCHANGED <<daemonVars, service, spawned, historyVars>>
    BY <2>1
  <2>2. ASSUME NEW x \in BiStreams, DaemonStep(x) PROVE service' = service
    BY <2>2 DEF DaemonStep, Accept, Forward, ReplyHead, ReplyBody, Heartbeat, Refuse, UpstreamLost, Reply
  <2>3. CASE ProbeBack \/ StartDone \/ StartFailed \/ AnswerAges \/ ServiceStops \/ ServiceStarts
    BY <2>3 DEF ProbeBack, StartDone, StartFailed, AnswerAges, ServiceStops, ServiceStarts
  <2> QED BY <2>1, <2>2, <2>3, DaemonSteps DEF DaemonPart
<1>2. ASSUME NEW x \in BiStreams, UnderWay(x[1])', serving'[x].at \in {"running", "body"},
             serving'[x].by # service'
      PROVE  req'[x[1]].met
  <2>0. x[1] \in Requests
    BY StreamParts
  <2>1. serving[x].at \in {"running", "body"} /\ serving'[x].by = serving[x].by
    BY <1>2, OnwardNext DEF Onward
  <2>2. UnderWay(x[1])
    BY <1>2, <2>0, <2>1, MetGrows DEF Heard, OnStream, Settled
  <2>3. CASE service' = service \/ service = 0
    <3>1. req[x[1]].met
      BY <1>2, <2>1, <2>2, <2>3 DEF Strikes, Heard
    <3> QED BY <1>2, <2>0, <3>1, MetGrows
  <2>4. CASE Strike
    BY <1>0, <2>0, <2>2, <2>4, StrikeFacts
  <2> QED BY <1>1, <2>3, <2>4
<1> QED
  BY <1>2 DEF Strikes

\* A second look joins an older probe, or is at the service as it is.
LEMMA LooksNext ==
  ASSUME TypeOK, Looks, StartServes, Next
  PROVE  Looks' /\ StartServes'
<1>0. serving \in Exchanges /\ ServiceTyped
  BY TypedParts DEF ServingTyped
<1>1. CASE UNCHANGED <<daemonVars, service, spawned, historyVars>>
  BY <1>1 DEF Looks, StartServes, daemonVars, historyVars
<1>2. ASSUME NEW x \in BiStreams, DaemonStep(x) PROVE Looks' /\ StartServes'
  <2>1. UNCHANGED <<service, joined, unserved>>
    BY <1>2 DEF DaemonStep, Accept, Forward, ReplyHead, ReplyBody, Heartbeat, Refuse, UpstreamLost,
                Reply, historyVars
  <2>2. probe' = probe \/ ~probe.on
    BY <1>2 DEF DaemonStep, Accept, Probed, Forward, ReplyHead, ReplyBody, Heartbeat, Refuse,
                UpstreamLost, Reply
  <2>3. \A y \in BiStreams : serving'[y].at = "again" => serving[y].at = "again"
    BY <1>0, <1>2 DEF DaemonStep, Accept, Forward, ReplyHead, ReplyBody, Heartbeat, Refuse,
                UpstreamLost, Reply, Serve, Over, Sent, Exchanges
  <2> QED BY <2>1, <2>2, <2>3 DEF Looks, StartServes
<1>3. CASE ProbeBack
  <2>1. /\ UNCHANGED <<service, joined>>
        /\ \A y \in BiStreams : serving'[y].at # "again"
    BY <1>0, <1>3 DEF ProbeBack, Sent, Exchanges
  <2>2. unserved' = unserved
        \/ (service # probe.of /\ service # 0
            /\ unserved' = unserved \cup {x \in BiStreams : serving[x].at = "again"})
    BY <1>0, <1>3 DEF ProbeBack, ServiceTyped
  <2> QED BY <2>1, <2>2 DEF Looks, StartServes
<1>4. CASE StartDone
  <2>1. /\ service' # 0 /\ unserved' = unserved /\ (service # 0 => service' = service)
        /\ joined' = IF probe.on THEN joined \cup Waiting ELSE joined
        /\ probe' = IF Waiting = {} \/ probe.on THEN probe ELSE [on |-> TRUE, of |-> service']
    BY <1>0, <1>4 DEF StartDone, ServiceTyped, Services
  <2>2. \A y \in BiStreams : serving'[y].at = "again" => y \in Waiting \/ serving[y].at = "again"
    BY <1>4 DEF StartDone, To
  <2> QED BY <2>1, <2>2 DEF Looks, StartServes
<1>5. CASE StartFailed
  <2>1. UNCHANGED <<probe, service, joined, unserved>>
    BY <1>5 DEF StartFailed, historyVars
  <2>2. \A y \in BiStreams : serving'[y].at = "again" => serving[y].at = "again"
    BY <1>5 DEF StartFailed, To
  <2> QED BY <2>1, <2>2 DEF Looks, StartServes
<1>6. CASE AnswerAges
  BY <1>6 DEF AnswerAges, Looks, StartServes, historyVars
<1>7. CASE ServiceStops
  BY <1>7 DEF ServiceStops, Looks, StartServes, daemonVars
<1>8. CASE ServiceStarts
  BY <1>8 DEF ServiceStarts, Looks, StartServes, daemonVars, historyVars
<1> QED
  BY <1>1, <1>2, <1>3, <1>4, <1>5, <1>6, <1>7, <1>8, DaemonSteps DEF DaemonPart

-----------------------------------------------------------------------------
(* The theorems *)

LEMMA CourseInit == Init => TypeOK /\ Course
<1> SUFFICES ASSUME Init PROVE TypeOK /\ Course
  OBVIOUS
<1> USE HttpBounds
<1>1. /\ \A r \in Requests : req[r] = Idle /\ runs[r] = 0
      /\ \A x \in BiStreams : serving[x] = NoExchange
      /\ \A c \in Conns : link[c] = "none"
  BY DEF Init
<1>2. Idle \in Fetched
  BY DEF Idle, Phases, Fetched
<1>3. TypeOK
  BY <1>1, <1>2 DEF Init, TypeOK, NoExchange, NoProbe, Fetched
<1>4. Dials
  <2>1. Dialled = 1 .. 0 /\ 0 \in 0 .. MaxConns
    BY <1>1 DEF Dialled
  <2>2. Cardinality(Past) \in Nat /\ Cardinality(Twice) \in Nat
    BY FS_Subset, FS_CardinalityType DEF Past, Twice
  <2> QED BY <2>1, <2>2 DEF Dials
<1>5. /\ Closes /\ Staged /\ Heard /\ OneExchange /\ Causes /\ Strikes /\ Looks
      /\ FailsForCause /\ StartServes
  BY <1>1, StreamParts DEF Init, Closes, Staged, Heard, OneExchange, Causes, Strikes, Looks,
              FailsForCause, StartServes, Idle, NoExchange, Last, UnderWay, OnStream, Settled
<1>6. Ran
  BY <1>1 DEF Init, Ran
<1> QED
  BY <1>3, <1>4, <1>5, <1>6 DEF Course

LEMMA PairedNext ==
  ASSUME TypeOK, Next
  PROVE  paired' \in Macs \cup {NoMac}
<1>0. paired \in Macs \cup {NoMac}
  BY DEF TypeOK
<1>1. CASE GoOffline \/ Unpair
  BY <1>0, <1>1 DEF GoOffline, Unpair, Detach
<1>2. ASSUME NEW m \in Macs, Pair(m) PROVE paired' \in Macs \cup {NoMac}
  BY <1>2 DEF Pair
<1>3. CASE ConnStep
  BY <1>0, <1>3 DEF ConnStep, DialDone, DialFailed, LinkLost, IdleTimeout, ClosedTold
<1>4. ASSUME NEW r \in Requests, FetchStep(r) PROVE paired' = paired
  BY <1>4 DEF FetchStep, Fetch, OpenHttp, StreamOpened, StreamFailed, Wrote, WriteFailed, HeadBack,
              HeadFailed, BodyBack, Abort
<1>5. ASSUME NEW x \in BiStreams, DaemonStep(x) PROVE paired' = paired
  BY <1>5 DEF DaemonStep, Accept, Forward, ReplyHead, ReplyBody, Heartbeat, Refuse, UpstreamLost, Reply
<1>6. CASE ProbeBack \/ StartDone \/ StartFailed \/ AnswerAges \/ ServiceStops \/ ServiceStarts
  BY <1>0, <1>6 DEF ProbeBack, StartDone, StartFailed, AnswerAges, ServiceStops, ServiceStarts
<1>7. \/ GoOffline \/ Unpair \/ (\E m \in Macs : Pair(m)) \/ ConnStep
      \/ (\E r \in Requests : FetchStep(r)) \/ (\E x \in BiStreams : DaemonStep(x))
      \/ ProbeBack \/ StartDone \/ StartFailed \/ AnswerAges \/ ServiceStops \/ ServiceStarts
  BY DEF Next
<1> QED
  BY <1>0, <1>1, <1>2, <1>3, <1>4, <1>5, <1>6, <1>7

LEMMA CourseNext == ASSUME TypeOK, Course, [Next]_vars PROVE TypeOK' /\ Course'
<1>1. CASE Next
  <2>1. /\ Dials /\ Closes /\ Staged /\ Heard /\ OneExchange /\ Causes /\ Strikes /\ Ran /\ Looks
        /\ FailsForCause /\ StartServes
    BY DEF Course
  <2>2. paired' \in Macs \cup {NoMac}
    BY <1>1, PairedNext
  <2>3. LinkTyped'
    BY <1>1, <2>1, <2>2, ClosesNext DEF LinkTyped
  <2>4. req' \in Fetches /\ Staged'
    BY <1>1, <2>1, FetchesNext
  <2>5. ServingTyped' /\ ServiceTyped'
    BY <1>1, <2>1, OnwardNext
  <2>6. TypeOK'
    BY <2>3, <2>4, <2>5 DEF TypeOK, LinkTyped, ServingTyped, ServiceTyped, Fetches, Fetched, Links, Exchanges
  <2>7. Dials' /\ Closes' /\ Heard' /\ Causes'
    BY <1>1, <2>1, DialsNext, ClosesNext, HeardNext, CausesNext
  <2>8. Strikes' /\ OneExchange' /\ Ran' /\ Looks' /\ FailsForCause' /\ StartServes'
    BY <1>1, <2>1, StrikesNext, OneExchangeNext, RanNext, LooksNext, FailsNext
  <2> QED BY <2>4, <2>6, <2>7, <2>8 DEF Course
<1>2. CASE UNCHANGED vars
  <2>1. /\ UNCHANGED <<paired, cache, link, remote, closing, told, req>>
        /\ UNCHANGED <<serving, cached, fresh, probe, starting, service, spawned>>
        /\ UNCHANGED <<runs, joined, unserved>>
    BY <1>2 DEF vars, linkVars, daemonVars, historyVars
  <2>2. TypeOK'
    BY <2>1 DEF TypeOK
  <2>3. Dials' /\ Closes' /\ Staged' /\ FailsForCause'
    BY <2>1 DEF Course, Dials, Dialled, Past, Twice, Closes, Staged, FailsForCause
  <2>4. Causes'
    BY <2>1 DEF Course, Causes, Last, Lost
  <2>5. Strikes'
    BY <2>1 DEF Course, Strikes, UnderWay
  <2>6. Heard' /\ OneExchange' /\ Ran' /\ Looks' /\ StartServes'
    BY <2>1 DEF Course, Heard, OneExchange, Ran, Looks, StartServes
  <2> QED BY <2>2, <2>3, <2>4, <2>5, <2>6 DEF Course
<1> QED
  BY <1>1, <1>2

\* Whatever fails, is dropped or is retried, a request on the phone, its connection and
\* its exchange on the daemon keep in step.
THEOREM CourseKept == Spec => [](TypeOK /\ Course)
<1>1. Init => TypeOK /\ Course
  BY CourseInit
<1>2. TypeOK /\ Course /\ [Next]_vars => TypeOK' /\ Course'
  BY CourseNext
<1> QED
  BY <1>1, <1>2, PTL DEF Spec

\* Every variable keeps its type: a fresh connection is always left, a request waits only
\* while a start is in flight, and the cache never holds a connection nobody dialled.
THEOREM HttpTyped == Spec => []TypeOK
<1> QED
  BY CourseKept, PTL

\* The phone never holds an open connection but the cached one.
THEOREM OneConnectionHolds == Spec => []OneConnection
<1>1. TypeOK /\ Course => OneConnection
  BY DEF Course, Closes, OneConnection
<1> QED
  BY <1>1, CourseKept, PTL

\* No request runs twice, whichever of its streams reaches the daemon, none fails without
\* a cause, and none is refused for want of a service that was started for it.
THEOREM DoneOnceHolds == Spec => []DoneOnce
<1>1. TypeOK /\ Course => DoneOnce
  BY DEF Course, Ran, DoneOnce, RetrySafe, RunsOnce
<1> QED
  BY <1>1, CourseKept, PTL

=============================================================================
