-------------------------- MODULE PhoneLinkProofs --------------------------
(***************************************************************************)
(* Theorems about PhoneLink, for any number of Macs and calls and any      *)
(* bounds: its typing; that the connection, its wire and its retry timer   *)
(* always belong to the latest command; and that it implements the safety  *)
(* of Link.                                                                *)
(***************************************************************************)
EXTENDS PhoneLink, TLAPS

-----------------------------------------------------------------------------
(* The inductive invariant *)

\* Epochs to come have left nothing behind yet.
Fresh ==
  \A e \in Epochs : e > epoch => run[e] = NoRun /\ wire[e] = "none" /\ e \notin heard

\* A run opens its wire when its dial resolves, never before.
WireRun ==
  \A e \in Epochs : run[e].phase \in {"idle", "load", "dial", "clear"} => wire[e] = "none"

\* Only a run that is over is attached.
LinkRun == link # 0 => link \in Epochs /\ run[link].phase = "done"

\* A transport reports its close to the provider only once its run is over,
\* and the latest command's only while it is the one attached.
HeardRun ==
  /\ \A e \in heard : run[e].phase = "done"
  /\ epoch \in heard => link = epoch

\* A retry waits only for a latest command whose run is over.
TimerRun == timer # 0 => run[epoch].phase = "done"

\* Inductive together with TypeOK: what the link, the wires and the timer may
\* refer to, with the facts about runs that each step needs.
Ownership ==
  /\ Fresh
  /\ WireRun
  /\ LinkRun
  /\ HeardRun
  /\ TimerRun
  /\ NoLeakedWire
  /\ LinkOwner
  /\ TimerOwner

-----------------------------------------------------------------------------
(* Typing *)

USE DEF Epochs, runVars, rpcVars

\* A run is made of a kind, a phase and a Mac, and nothing else.
LEMMA RunsType ==
  /\ \A kind \in Kinds, phase \in Phases, mac \in Macs \cup {NoMac} :
       [kind |-> kind, phase |-> phase, mac |-> mac] \in Runs
  /\ NoRun \in Runs
  /\ \A r \in Runs : r.kind \in Kinds /\ r.phase \in Phases /\ r.mac \in Macs \cup {NoMac}
  BY DEF Runs, NoRun, Kinds, Phases

\* A run that moves to another phase stays a run, the others stay as they are.
LEMMA GotoType ==
  ASSUME TypeOK, NEW e \in Epochs, NEW phase \in Phases, Goto(e, phase)
  PROVE  run' \in [Epochs -> Runs]
  BY DEF TypeOK, Goto, Runs

\* Starting a run keeps the runs' type.
LEMMA StartType ==
  ASSUME TypeOK, NEW STATE e, NEW STATE kind, NEW STATE phase, NEW STATE mac,
         e \in Epochs, kind \in Kinds, phase \in Phases, mac \in Macs \cup {NoMac},
         run' = [run EXCEPT ![e] = [kind |-> kind, phase |-> phase, mac |-> mac]]
  PROVE  run' \in [Epochs -> Runs]
  BY RunsType DEF TypeOK

\* Closing wires keeps the types of the wires and of the calls.
LEMMA CloseWiresType ==
  ASSUME TypeOK, NEW STATE S, CloseWires(S)
  PROVE  /\ wire' \in [Epochs -> {"none", "open", "silent", "closed"}]
         /\ rpc' \in [Rpcs -> {"idle", "waiting", "sent", "unheard", "answered", "failed"}]
  BY DEF TypeOK, CloseWires

\* connect() keeps every type.
LEMMA ConnectType ==
  ASSUME TypeOK, Connect, UNCHANGED faults, commands' \in 0 .. MaxCommands
  PROVE  TypeOK'
<1>1. epoch + 1 \in Epochs
  BY BoundAssumption DEF TypeOK, Connect
<1>2. CloseWires({link} \ {0})
  BY DEF Connect
<1>3. run' \in [Epochs -> Runs]
  BY <1>1, StartType DEF Connect, Kinds, Phases
<1>4. /\ wire' \in [Epochs -> {"none", "open", "silent", "closed"}]
      /\ rpc' \in [Rpcs -> {"idle", "waiting", "sent", "unheard", "answered", "failed"}]
  BY <1>2, CloseWiresType
<1> QED
  BY <1>1, <1>3, <1>4, BoundAssumption DEF TypeOK, Connect

\* Every variable keeps its type: what each handler of the provider, the wires
\* and the facade leaves behind is a state of the health machine.
THEOREM TypeCorrect == Spec => []TypeOK
<1>1. Init => TypeOK
  <2> SUFFICES ASSUME Init PROVE TypeOK
    OBVIOUS
  <2>1. run \in [Epochs -> Runs]
    BY RunsType DEF Init, Kinds, Phases
  <2>2. /\ epoch \in Epochs /\ timer \in 0 .. MaxEpoch /\ link \in 0 .. MaxEpoch
        /\ commands \in 0 .. MaxCommands /\ faults \in 0 .. MaxFaults
    BY BoundAssumption DEF Init
  <2>3. /\ wire \in [Epochs -> {"none", "open", "silent", "closed"}]
        /\ rpc \in [Rpcs -> {"idle", "waiting", "sent", "unheard", "answered", "failed"}]
    BY DEF Init
  <2>4. via \in [Rpcs -> 0 .. MaxEpoch]
    BY BoundAssumption DEF Init
  <2> QED
    BY <2>1, <2>2, <2>3, <2>4 DEF Init, TypeOK
<1>2. TypeOK /\ [Next]_vars => TypeOK'
  <2> SUFFICES ASSUME TypeOK, [Next]_vars PROVE TypeOK'
    OBVIOUS
  <2>1. CASE Reset
    BY <2>1, ConnectType, BoundAssumption DEF Reset, UserCommand, TypeOK
  <2>2. CASE RetryTimer
    <3>1. CASE timer = epoch /\ armed
      BY <2>2, <3>1, ConnectType DEF RetryTimer, TypeOK
    <3>2. CASE ~(timer = epoch /\ armed)
      <4>1. timer' = 0 /\ UNCHANGED <<state, shown, stored, mismatch, initialized, epoch,
                                      armed, link, run, wire, heard, rpc, via, commands, faults>>
        BY <2>2, <3>2, Zenon DEF RetryTimer
      <4> QED
        BY <4>1, BoundAssumption DEF TypeOK
    <3> QED
      BY <3>1, <3>2
  <2>3. ASSUME NEW mac \in Macs, Pair(mac) PROVE TypeOK'
    <3>1. epoch + 1 \in Epochs /\ commands' \in 0 .. MaxCommands
      BY <2>3, BoundAssumption DEF Pair, UserCommand, TypeOK
    <3>2. run' \in [Epochs -> Runs]
      BY <2>3, <3>1, StartType DEF Pair, Kinds, Phases
    <3> QED
      BY <2>3, <3>1, <3>2, BoundAssumption DEF Pair, TypeOK
  <2>4. CASE Unpair
    <3>1. CloseWires({link} \ {0})
      BY <2>4 DEF Unpair
    <3>2. epoch + 1 \in Epochs /\ commands' \in 0 .. MaxCommands
      BY <2>4, BoundAssumption DEF Unpair, UserCommand, TypeOK
    <3>3. run' \in [Epochs -> Runs]
      BY <2>4, <3>2, StartType DEF Unpair, Kinds, Phases
    <3>4. /\ wire' \in [Epochs -> {"none", "open", "silent", "closed"}]
          /\ rpc' \in [Rpcs -> {"idle", "waiting", "sent", "unheard", "answered", "failed"}]
      BY <3>1, CloseWiresType
    <3> QED
      <4>1. /\ epoch' = epoch + 1 /\ armed' = FALSE /\ timer' = 0 /\ link' = 0
            /\ UNCHANGED <<state, shown, stored, mismatch, initialized, heard, via, faults>>
        BY <2>4, Zenon DEF Unpair
      <4> QED
        <5>1. epoch' \in Epochs /\ timer' \in 0 .. MaxEpoch /\ link' \in 0 .. MaxEpoch
          BY <3>2, <4>1, BoundAssumption
        <5> QED
          BY <3>2, <3>3, <3>4, <4>1, <5>1 DEF TypeOK
  <2>5. CASE Relaunch
    <3>1. run' \in [Epochs -> Runs]
      BY <2>5, RunsType DEF Relaunch, Kinds, Phases
    <3>2. /\ epoch' \in Epochs /\ timer' \in 0 .. MaxEpoch /\ link' \in 0 .. MaxEpoch
          /\ commands' \in 0 .. MaxCommands /\ faults' \in 0 .. MaxFaults
      BY <2>5, BoundAssumption DEF Relaunch, UserCommand, TypeOK
    <3>3. /\ wire' \in [Epochs -> {"none", "open", "silent", "closed"}]
          /\ rpc' \in [Rpcs -> {"idle", "waiting", "sent", "unheard", "answered", "failed"}]
      BY <2>5 DEF Relaunch
    <3>4. via' \in [Rpcs -> 0 .. MaxEpoch]
      BY <2>5, BoundAssumption DEF Relaunch
    <3> QED
      BY <2>5, <3>1, <3>2, <3>3, <3>4 DEF Relaunch, TypeOK
  <2>6. ASSUME NEW e \in Epochs, RunStep(e) PROVE TypeOK'
    <3>1. CASE ConnectLoaded(e)
      <4>1. run' \in [Epochs -> Runs]
        BY <3>1, GotoType, StartType DEF ConnectLoaded, Kinds, Phases, TypeOK
      <4>2. shown' \in Macs \cup {NoMac}
        BY <3>1 DEF ConnectLoaded, TypeOK
      <4>3. state' \in {state, "unpaired"} /\ initialized' \in {initialized, TRUE}
        BY <3>1 DEF ConnectLoaded
      <4> QED
        BY <3>1, <4>1, <4>2, <4>3 DEF ConnectLoaded, TypeOK
    <3>2. CASE ConnectLoadFailed(e)
      <4>1. run' \in [Epochs -> Runs] /\ faults' \in 0 .. MaxFaults
        BY <3>2, GotoType, BoundAssumption DEF ConnectLoadFailed, Fault, TypeOK, Phases
      <4>2. state' \in {state, "error"} /\ initialized' \in {initialized, TRUE}
        BY <3>2 DEF ConnectLoadFailed
      <4> QED
        BY <3>2, <4>1, <4>2 DEF ConnectLoadFailed, TypeOK
    <3>3. CASE ConnectDialed(e)
      <4>1. run' \in [Epochs -> Runs]
        BY <3>3, GotoType DEF ConnectDialed, Phases
      <4>2. /\ wire' \in [Epochs -> {"none", "open", "silent", "closed"}]
        BY <3>3 DEF ConnectDialed, TypeOK
      <4>4. heard' \subseteq Epochs /\ link' \in {link, e}
        BY <3>3 DEF ConnectDialed, TypeOK
      <4>3. /\ state' \in {state, "ready"} /\ initialized' \in {initialized, TRUE}
            /\ mismatch' \in {mismatch, FALSE}
        BY <3>3 DEF ConnectDialed
      <4>5. link' \in 0 .. MaxEpoch
        BY <4>4, BoundAssumption DEF TypeOK
      <4>6. UNCHANGED <<shown, stored, epoch, armed, timer, rpc, via, commands, faults>>
        BY <3>3 DEF ConnectDialed
      <4> QED
        BY <4>1, <4>2, <4>3, <4>4, <4>5, <4>6 DEF TypeOK
    <3>4. ASSUME NEW incompatible \in BOOLEAN, ConnectDialFailed(e, incompatible)
          PROVE  TypeOK'
      <4>1. run' \in [Epochs -> Runs] /\ faults' \in 0 .. MaxFaults
        BY <3>4, GotoType, BoundAssumption DEF ConnectDialFailed, Fault, TypeOK, Phases
      <4>2. /\ state' \in {state, "error", "offline"} /\ initialized' \in {initialized, TRUE}
            /\ armed' \in {armed, FALSE} /\ mismatch' \in {mismatch, TRUE}
        BY <3>4, Zenon DEF ConnectDialFailed
      <4>3. timer' \in {timer, e}
        BY <3>4, Zenon DEF ConnectDialFailed
      <4>4. timer' \in 0 .. MaxEpoch
        BY <4>3, BoundAssumption DEF TypeOK
      <4>5. UNCHANGED <<shown, stored, epoch, link, wire, heard, rpc, via, commands>>
        BY <3>4, Zenon DEF ConnectDialFailed
      <4> QED
        BY <4>1, <4>2, <4>4, <4>5, ZenonT(20) DEF TypeOK
    <3>5. CASE PairDialed(e)
      BY <3>5, GotoType DEF PairDialed, TypeOK, Phases
    <3>6. CASE PairDialFailed(e)
      BY <3>6, GotoType, BoundAssumption DEF PairDialFailed, Fault, TypeOK, Phases
    <3>7. CASE PairSaved(e)
      <4>1. run' \in [Epochs -> Runs]
        BY <3>7, GotoType DEF PairSaved, Phases
      <4>2. CloseWires({e}) \/ UNCHANGED <<wire, rpc>>
        BY <3>7 DEF PairSaved
      <4>3. /\ wire' \in [Epochs -> {"none", "open", "silent", "closed"}]
            /\ rpc' \in [Rpcs -> {"idle", "waiting", "sent", "unheard", "answered", "failed"}]
        BY <4>2, CloseWiresType DEF TypeOK
      <4>4. stored' \in Macs \cup {NoMac}
        BY <3>7, RunsType DEF PairSaved, TypeOK
      <4> QED
        BY <3>7, <4>1, <4>3, <4>4 DEF PairSaved, TypeOK
    <3>8. CASE PairSaveFailed(e)
      BY <3>8, GotoType, BoundAssumption DEF PairSaveFailed, Fault, TypeOK, Phases
    <3>9. CASE PairAttached(e)
      <4>1. run' \in [Epochs -> Runs]
        BY <3>9, GotoType DEF PairAttached, Phases
      <4>2. CloseWires({e}) \/ CloseWires({link} \ {0})
        BY <3>9 DEF PairAttached
      <4>3. /\ wire' \in [Epochs -> {"none", "open", "silent", "closed"}]
            /\ rpc' \in [Rpcs -> {"idle", "waiting", "sent", "unheard", "answered", "failed"}]
        BY <4>2, CloseWiresType
      <4>4. heard' \subseteq Epochs /\ link' \in {link, e} /\ shown' \in {shown, stored}
        BY <3>9 DEF PairAttached, TypeOK
      <4>5. /\ state' \in {state, "ready"} /\ initialized' \in {initialized, TRUE}
            /\ mismatch' \in {mismatch, FALSE}
        BY <3>9 DEF PairAttached
      <4>6. link' \in 0 .. MaxEpoch
        BY <4>4, BoundAssumption DEF TypeOK
      <4>7. UNCHANGED <<stored, epoch, armed, timer, via, commands, faults>>
        BY <3>9 DEF PairAttached
      <4> QED
        BY <4>1, <4>3, <4>4, <4>5, <4>6, <4>7 DEF TypeOK
    <3>10. CASE Unpaired(e)
      BY <3>10, GotoType DEF Unpaired, TypeOK, Phases
    <3> QED
      BY <2>6, <3>1, <3>2, <3>3, <3>4, <3>5, <3>6, <3>7, <3>8, <3>9, <3>10 DEF RunStep
  <2>7. ASSUME NEW e \in Epochs, WireLost(e) \/ ProbeFailed(e) PROVE TypeOK'
    <3>1. CloseWires({e})
      BY <2>7 DEF WireLost, ProbeFailed, TransportClosed
    <3>2. /\ wire' \in [Epochs -> {"none", "open", "silent", "closed"}]
          /\ rpc' \in [Rpcs -> {"idle", "waiting", "sent", "unheard", "answered", "failed"}]
      BY <3>1, CloseWiresType
    <3>3. TransportClosed(e)
      BY <2>7 DEF WireLost, ProbeFailed
    <3>4. heard' \subseteq Epochs /\ state' \in {state, "offline"} /\ timer' \in {timer, e}
      BY <3>3 DEF TransportClosed, TypeOK
    <3>5. faults' \in 0 .. MaxFaults
      BY <2>7, BoundAssumption DEF WireLost, ProbeFailed, Fault, TypeOK
    <3> QED
      BY <3>2, <3>3, <3>4, <3>5, BoundAssumption DEF TransportClosed, TypeOK
  <2>8. ASSUME NEW e \in Epochs, PeerDies(e) PROVE TypeOK'
    BY <2>8, BoundAssumption DEF PeerDies, Fault, TypeOK
  <2>9. ASSUME NEW r \in Rpcs, CallRpc(r) \/ SendRpc(r) \/ AnswerRpc(r) PROVE TypeOK'
    BY <2>9, ZenonT(20) DEF CallRpc, SendRpc, AnswerRpc, TypeOK
  <2>10. CASE UNCHANGED vars
    BY <2>10 DEF vars, TypeOK
  <2> QED
    BY <2>1, <2>2, <2>3, <2>4, <2>5, <2>6, <2>7, <2>8, <2>9, <2>10 DEF Next
<1> QED
  BY <1>1, <1>2, PTL DEF Spec

-----------------------------------------------------------------------------
(* Who owns the link, the wires and the timer *)

\* What all steps of a run that came back from an await have in common.
Moves(e) ==
  /\ Running(e) /\ e \in Epochs
  /\ epoch' = epoch
  /\ run'[e].kind = run[e].kind /\ run'[e].phase # "idle"
  /\ \A f \in Epochs \ {e} : run'[f] = run[f]

\* A run under way is not from the future, is not attached, reports no close,
\* and no retry waits while it is the latest command.
LEMMA MovesFacts ==
  ASSUME TypeOK, Ownership, NEW e \in Epochs, Moves(e)
  PROVE  /\ e <= epoch /\ e # link /\ e \notin heard
         /\ timer # 0 => e # epoch
         /\ e = epoch /\ run[e].kind # "pair" => link = 0
         /\ run[e].phase \in {"load", "dial", "clear"} => wire[e] = "none"
<1>1. e <= epoch
  BY DEF Moves, Running, Ownership, Fresh, NoRun, TypeOK
<1>2. e # link
  BY DEF Moves, Running, Ownership, LinkRun
<1>3. e \notin heard
  BY DEF Moves, Running, Ownership, HeardRun
<1>4. timer # 0 => e # epoch
  BY DEF Moves, Running, Ownership, TimerRun
<1>5. e = epoch /\ run[e].kind # "pair" => link = 0
  BY <1>2 DEF Ownership, LinkOwner, TypeOK
<1>6. run[e].phase \in {"load", "dial", "clear"} => wire[e] = "none"
  BY DEF Ownership, WireRun
<1> QED
  BY <1>1, <1>2, <1>3, <1>4, <1>5, <1>6

\* A step that leaves wires and link alone, of a run that had opened none or
\* whose write threw, disturbs at most what is said of the timer.
LEMMA MovesOnly ==
  ASSUME TypeOK, TypeOK', Ownership, NEW e \in Epochs, Moves(e),
         UNCHANGED <<wire, heard, link>>,
         run[e].phase \in {"load", "dial", "clear"} \/ run'[e].phase = "unsaved"
  PROVE  Fresh' /\ WireRun' /\ LinkRun' /\ HeardRun' /\ NoLeakedWire' /\ LinkOwner'
<1>1. /\ e <= epoch /\ e # link /\ e \notin heard
      /\ run[e].phase \in {"load", "dial", "clear"} => wire[e] = "none"
  BY MovesFacts
<1>2. Fresh'
  BY <1>1 DEF Moves, Ownership, Fresh, TypeOK
<1>3. WireRun'
  BY <1>1 DEF Moves, Ownership, WireRun
<1>4. LinkRun' /\ HeardRun'
  BY <1>1 DEF Moves, Ownership, LinkRun, HeardRun, TypeOK
<1>5. NoLeakedWire'
  BY <1>1 DEF Moves, Ownership, NoLeakedWire
<1>6. LinkOwner'
  BY <1>1, BoundAssumption DEF Moves, Ownership, LinkOwner, TypeOK
<1> QED
  BY <1>2, <1>3, <1>4, <1>5, <1>6

\* A step that schedules no retry keeps the one that waits: its command is the
\* latest one, whose run is over.
LEMMA MovesTimer ==
  ASSUME TypeOK, Ownership, NEW e \in Epochs, Moves(e), UNCHANGED <<timer, link>>,
         timer # 0 /\ e # epoch => armed' = armed /\ state' \in {state, "unpaired"}
  PROVE  TimerRun' /\ TimerOwner'
<1>1. timer # 0 => e # epoch
  BY MovesFacts
<1>2. TimerRun'
  BY <1>1 DEF Moves, Ownership, TimerRun, TypeOK
<1>3. TimerOwner'
  BY <1>1 DEF Moves, Ownership, TimerOwner
<1> QED
  BY <1>2, <1>3

\* connect() takes the link, its wire and the timer from the commands before it.
LEMMA ConnectOwnership ==
  ASSUME TypeOK, TypeOK', Ownership, Connect
  PROVE  Ownership'
<1> USE DEF Ownership
<1>1. /\ epoch + 1 \in Epochs /\ epoch' = epoch + 1 /\ run[epoch + 1] = NoRun
      /\ wire[epoch + 1] = "none" /\ epoch + 1 \notin heard
  BY BoundAssumption DEF TypeOK, Connect, Fresh
<1>2. run' = [run EXCEPT ![epoch + 1] = [kind |-> "connect", phase |-> "load", mac |-> NoMac]]
  BY DEF Connect
<1>3. wire' = [e \in Epochs |-> IF e \in {link} \ {0} THEN "closed" ELSE wire[e]]
  BY DEF Connect, CloseWires
<1>4. timer' = 0 /\ link' = 0 /\ heard' = heard
  BY DEF Connect
<1>5. link # 0 => link <= epoch
  BY DEF LinkOwner
<1>6. Fresh'
  BY <1>1, <1>2, <1>3, <1>4, <1>5 DEF Fresh, TypeOK
<1>7. WireRun'
  BY <1>1, <1>2, <1>3, <1>4, <1>5 DEF WireRun, LinkRun, TypeOK
<1>8. LinkRun' /\ TimerRun' /\ LinkOwner' /\ TimerOwner'
  BY <1>4 DEF LinkRun, TimerRun, LinkOwner, TimerOwner
<1>9. HeardRun'
  BY <1>1, <1>2, <1>4 DEF HeardRun, TypeOK
<1>10. NoLeakedWire'
  BY <1>1, <1>2, <1>3, <1>4 DEF NoLeakedWire, TypeOK
<1> QED
  BY <1>6, <1>7, <1>8, <1>9, <1>10

\* The steps that neither open nor close a wire.
LEMMA QuietRunOwnership ==
  ASSUME TypeOK, TypeOK', Ownership, NEW e \in Epochs,
         \/ ConnectLoaded(e) \/ ConnectLoadFailed(e)
         \/ \E incompatible \in BOOLEAN : ConnectDialFailed(e, incompatible)
         \/ PairDialFailed(e) \/ PairSaveFailed(e) \/ Unpaired(e)
  PROVE  Ownership'
<1>1. CASE ConnectLoaded(e)
  <2>1. Moves(e)
    BY <1>1 DEF ConnectLoaded, Goto, Moves, Running, TypeOK, Runs
  <2>2. /\ run[e].phase = "load" /\ state' \in {state, "unpaired"}
        /\ UNCHANGED <<wire, heard, link, timer, armed>>
    BY <1>1 DEF ConnectLoaded
  <2> QED
    BY <2>1, <2>2, MovesOnly, MovesTimer DEF Ownership
<1>2. CASE ConnectLoadFailed(e)
  <2>1. Moves(e)
    BY <1>2 DEF ConnectLoadFailed, Goto, Moves, Running, TypeOK, Runs
  <2>2. /\ run[e].phase = "load" /\ (e # epoch => state' = state)
        /\ UNCHANGED <<wire, heard, link, timer, armed>>
    BY <1>2 DEF ConnectLoadFailed
  <2>3. timer # 0 => state' \in {state, "unpaired"}
    BY <2>1, <2>2, MovesFacts
  <2> QED
    BY <2>1, <2>2, <2>3, MovesOnly, MovesTimer DEF Ownership
<1>3. ASSUME NEW incompatible \in BOOLEAN, ConnectDialFailed(e, incompatible)
      PROVE  Ownership'
  <2>1. Moves(e)
    BY <1>3 DEF ConnectDialFailed, Goto, Moves, Running, TypeOK, Runs
  <2>2. run[e].phase = "dial" /\ run[e].kind = "connect" /\ UNCHANGED <<wire, heard, link>>
    BY <1>3 DEF ConnectDialFailed
  <2>3. TimerRun' /\ TimerOwner'
    <3>1. \/ UNCHANGED <<armed, state, timer>>
          \/ e = epoch /\ timer' = timer
          \/ e = epoch /\ armed /\ armed' /\ state' = "offline" /\ timer' = e
      BY <1>3, Zenon DEF ConnectDialFailed
    <3>2. CASE timer' = timer
      BY <2>1, <2>2, <3>1, <3>2, MovesFacts, MovesTimer
    <3>3. CASE e = epoch /\ armed /\ armed' /\ state' = "offline" /\ timer' = e
      <4>1. epoch' = epoch /\ link' = 0 /\ timer' = epoch'
        BY <2>1, <2>2, <3>3, MovesFacts DEF Moves
      <4>2. run'[e].phase = "done"
        BY <1>3 DEF ConnectDialFailed, Goto, TypeOK, Runs
      <4> QED
        BY <3>3, <4>1, <4>2 DEF TimerRun, TimerOwner
    <3> QED
      BY <3>1, <3>2, <3>3
  <2> QED
    BY <2>1, <2>2, <2>3, MovesOnly DEF Ownership
<1>4. CASE PairDialFailed(e)
  <2>1. Moves(e) /\ run[e].phase = "dial"
    BY <1>4 DEF PairDialFailed, Goto, Moves, Running, TypeOK, Runs
  <2>2. UNCHANGED <<wire, heard, link, timer, armed, state>>
    BY <1>4 DEF PairDialFailed
  <2> QED
    BY <2>1, <2>2, MovesOnly, MovesTimer DEF Ownership
<1>5. CASE PairSaveFailed(e)
  <2>1. Moves(e) /\ run'[e].phase = "unsaved"
    BY <1>5 DEF PairSaveFailed, Goto, Moves, Running, TypeOK, Runs
  <2>2. UNCHANGED <<wire, heard, link, timer, armed, state>>
    BY <1>5 DEF PairSaveFailed
  <2> QED
    BY <2>1, <2>2, MovesOnly, MovesTimer DEF Ownership
<1>6. CASE Unpaired(e)
  <2>1. Moves(e) /\ run[e].phase = "clear"
    BY <1>6 DEF Unpaired, Goto, Moves, Running, TypeOK, Runs
  <2>2. state' = "unpaired" /\ UNCHANGED <<wire, heard, link, timer, armed>>
    BY <1>6 DEF Unpaired
  <2> QED
    BY <2>1, <2>2, MovesOnly, MovesTimer DEF Ownership
<1> QED
  BY <1>1, <1>2, <1>3, <1>4, <1>5, <1>6

\* A dial that resolves: attached when it is the latest command's, closed
\* when it is not.
LEMMA ConnectDialedOwnership ==
  ASSUME TypeOK, TypeOK', Ownership, NEW e \in Epochs, ConnectDialed(e)
  PROVE  Ownership'
<1>1. Moves(e) /\ run[e].kind = "connect" /\ run[e].phase = "dial"
  BY DEF ConnectDialed, Goto, Moves, Running, TypeOK, Runs
<1>2. /\ e <= epoch /\ e # link /\ e \notin heard
      /\ timer # 0 => e # epoch
      /\ e = epoch => link = 0
  BY <1>1, MovesFacts
<1>3. CASE e = epoch
  <2>1. /\ run'[e].phase = "done" /\ wire' = [wire EXCEPT ![e] = "open"]
        /\ heard' = heard \cup {e} /\ link' = e /\ timer' = timer
    BY <1>3 DEF ConnectDialed, Goto, TypeOK, Runs
  <2>2. Fresh' /\ WireRun'
    BY <1>1, <1>3, <2>1 DEF Moves, Ownership, Fresh, WireRun, TypeOK
  <2>3. LinkRun' /\ HeardRun'
    BY <1>1, <1>3, <2>1 DEF Moves, Ownership, HeardRun, LinkRun, TypeOK
  <2>4. TimerRun' /\ TimerOwner'
    BY <1>2, <1>3, <2>1 DEF TimerRun, TimerOwner
  <2>5. NoLeakedWire'
    BY <1>1, <1>2, <1>3, <2>1 DEF Moves, Ownership, NoLeakedWire, TypeOK
  <2>6. LinkOwner'
    BY <1>1, <1>3, <2>1 DEF Moves, LinkOwner, TypeOK
  <2> QED
    BY <2>2, <2>3, <2>4, <2>5, <2>6 DEF Ownership
<1>4. CASE e # epoch
  <2>1. /\ run'[e].phase = "dropped" /\ wire' = [wire EXCEPT ![e] = "closed"]
        /\ UNCHANGED <<heard, link, timer, armed, state>>
    BY <1>4 DEF ConnectDialed, Goto, TypeOK, Runs
  <2>2. Fresh' /\ WireRun'
    BY <1>1, <1>2, <2>1 DEF Moves, Ownership, Fresh, WireRun, TypeOK
  <2>3. LinkRun' /\ HeardRun'
    BY <1>1, <1>2, <2>1 DEF Moves, Ownership, HeardRun, LinkRun, TypeOK
  <2>4. TimerRun' /\ TimerOwner'
    BY <1>1, <2>1, MovesTimer
  <2>5. NoLeakedWire'
    BY <1>1, <2>1 DEF Moves, Ownership, NoLeakedWire, TypeOK
  <2>6. LinkOwner'
    BY <1>1, <2>1, BoundAssumption DEF Moves, Ownership, LinkOwner, TypeOK
  <2> QED
    BY <2>2, <2>3, <2>4, <2>5, <2>6 DEF Ownership
<1> QED
  BY <1>3, <1>4

\* The handshake of a pair(): its wire is open and not attached yet.
LEMMA PairDialedOwnership ==
  ASSUME TypeOK, TypeOK', Ownership, NEW e \in Epochs, PairDialed(e)
  PROVE  Ownership'
<1>1. Moves(e)
  BY DEF PairDialed, Goto, Moves, Running, TypeOK, Runs
<1>2. e <= epoch /\ e # link /\ e \notin heard
  BY <1>1, MovesFacts
<1>3. /\ run'[e].phase = "persist" /\ wire' = [wire EXCEPT ![e] = "open"]
      /\ UNCHANGED <<heard, link, timer, armed, state>>
  BY DEF PairDialed, Goto, TypeOK, Runs
<1>4. Fresh' /\ WireRun'
  BY <1>1, <1>2, <1>3 DEF Moves, Ownership, Fresh, WireRun, TypeOK
<1>5. LinkRun' /\ HeardRun'
  BY <1>1, <1>2, <1>3 DEF Moves, Ownership, HeardRun, LinkRun, TypeOK
<1>6. TimerRun' /\ TimerOwner'
  BY <1>1, <1>3, MovesTimer
<1>7. NoLeakedWire'
  BY <1>1, <1>3 DEF Moves, Ownership, NoLeakedWire, TypeOK
<1>8. LinkOwner'
  BY <1>1, <1>3, BoundAssumption DEF Moves, Ownership, LinkOwner, TypeOK
<1> QED
  BY <1>4, <1>5, <1>6, <1>7, <1>8 DEF Ownership

\* A pair() back from the key store: it closes its own wire, or goes on, or
\* takes the place of the transport attached so far.
LEMMA PairSavedOwnership ==
  ASSUME TypeOK, TypeOK', Ownership, NEW e \in Epochs, PairSaved(e)
  PROVE  Ownership'
<1>1. Moves(e) /\ run[e].phase = "persist"
  BY DEF PairSaved, Goto, Moves, Running, TypeOK, Runs
<1>2. e <= epoch /\ e # link /\ e \notin heard
  BY <1>1, MovesFacts
<1>3. UNCHANGED <<heard, link, timer, armed, state>>
  BY DEF PairSaved
<1>4. \/ run'[e].phase = "reread" /\ wire' = wire
      \/ /\ run'[e].phase = "dropped"
         /\ wire' = [f \in Epochs |-> IF f \in {e} THEN "closed" ELSE wire[f]]
  BY DEF PairSaved, Goto, CloseWires, TypeOK, Runs
<1>5. Fresh' /\ WireRun'
  BY <1>1, <1>2, <1>3, <1>4 DEF Moves, Ownership, Fresh, WireRun, TypeOK
<1>6. LinkRun' /\ HeardRun'
  BY <1>1, <1>2, <1>3 DEF Moves, Ownership, HeardRun, LinkRun, TypeOK
<1>7. TimerRun' /\ TimerOwner'
  BY <1>1, <1>3, MovesTimer
<1>8. NoLeakedWire'
  BY <1>1, <1>3, <1>4 DEF Moves, Ownership, NoLeakedWire, TypeOK
<1>9. LinkOwner'
  BY <1>1, <1>3, BoundAssumption DEF Moves, Ownership, LinkOwner, TypeOK
<1> QED
  BY <1>5, <1>6, <1>7, <1>8, <1>9 DEF Ownership

\* A pair() that ends takes the link, or closes what it opened.
LEMMA PairAttachedOwnership ==
  ASSUME TypeOK, TypeOK', Ownership, NEW e \in Epochs, PairAttached(e)
  PROVE  Ownership'
<1>1. Moves(e) /\ run[e].kind = "pair" /\ run[e].phase = "reread"
  BY DEF PairAttached, Goto, Moves, Running, TypeOK, Runs
<1>2. e <= epoch /\ e # link /\ e \notin heard /\ (timer # 0 => e # epoch)
  BY <1>1, MovesFacts
<1>3. timer' = timer /\ armed' = armed
  BY DEF PairAttached
<1>4. CASE stored = NoMac \/ e # epoch
  <2>1. /\ run'[e].phase \in {"dropped", "done"}
        /\ wire' = [f \in Epochs |-> IF f \in {e} THEN "closed" ELSE wire[f]]
        /\ UNCHANGED <<heard, link, state>>
    BY <1>4 DEF PairAttached, Goto, CloseWires, TypeOK, Runs
  <2>2. Fresh' /\ WireRun'
    BY <1>1, <1>2, <2>1 DEF Moves, Ownership, Fresh, WireRun, TypeOK
  <2>3. LinkRun' /\ HeardRun'
    BY <1>1, <1>2, <2>1 DEF Moves, Ownership, HeardRun, LinkRun, TypeOK
  <2>4. TimerRun' /\ TimerOwner'
    BY <1>1, <1>3, <2>1, MovesTimer
  <2>5. NoLeakedWire'
    BY <1>1, <2>1 DEF Moves, Ownership, NoLeakedWire, TypeOK
  <2>6. LinkOwner'
    BY <1>1, <2>1, BoundAssumption DEF Moves, Ownership, LinkOwner, TypeOK
  <2> QED
    BY <2>2, <2>3, <2>4, <2>5, <2>6 DEF Ownership
<1>5. CASE ~(stored = NoMac \/ e # epoch)
  <2>1. /\ e = epoch /\ run'[e].phase = "done" /\ link' = e /\ heard' = heard \cup {e}
        /\ wire' = [f \in Epochs |-> IF f \in {link} \ {0} THEN "closed" ELSE wire[f]]
    BY <1>5 DEF PairAttached, Goto, CloseWires, TypeOK, Runs
  <2>2. link # 0 => run[link].phase = "done"
    BY DEF Ownership, LinkRun
  <2>3. Fresh' /\ WireRun'
    BY <1>1, <2>1, <2>2 DEF Moves, Ownership, Fresh, WireRun, LinkOwner, TypeOK
  <2>4. LinkRun' /\ HeardRun'
    BY <1>1, <2>1 DEF Moves, Ownership, HeardRun, LinkRun, TypeOK
  <2>5. TimerRun' /\ TimerOwner'
    BY <1>2, <1>3, <2>1 DEF TimerRun, TimerOwner
  <2>6. NoLeakedWire'
    BY <1>1, <2>1 DEF Moves, Ownership, NoLeakedWire, TypeOK
  <2>7. LinkOwner'
    BY <1>1, <2>1 DEF Moves, LinkOwner, TypeOK
  <2> QED
    BY <2>3, <2>4, <2>5, <2>6, <2>7 DEF Ownership
<1> QED
  BY <1>4, <1>5

\* A wire that closes, by itself or because nobody answers the probe: only the
\* transport attached by the latest command arms a retry.
LEMMA TransportClosedOwnership ==
  ASSUME TypeOK, TypeOK', Ownership, NEW e \in Epochs, TransportClosed(e), wire[e] # "none"
  PROVE  Ownership'
<1>1. /\ wire' = [f \in Epochs |-> IF f \in {e} THEN "closed" ELSE wire[f]]
      /\ heard' = heard \ {e}
      /\ UNCHANGED <<epoch, armed, link, run>>
  BY DEF TransportClosed, CloseWires
<1>2. \/ UNCHANGED <<timer, state>>
      \/ e \in heard /\ e = epoch /\ armed /\ state' = "offline" /\ timer' = e
  BY DEF TransportClosed
<1>3. Fresh' /\ WireRun'
  BY <1>1 DEF Ownership, Fresh, WireRun, TypeOK
<1>4. LinkRun' /\ HeardRun' /\ LinkOwner'
  BY <1>1 DEF Ownership, LinkRun, HeardRun, LinkOwner
<1>5. TimerRun' /\ TimerOwner'
  BY <1>1, <1>2 DEF Ownership, HeardRun, TimerRun, TimerOwner
<1>6. NoLeakedWire'
  BY <1>1 DEF Ownership, NoLeakedWire, TypeOK
<1> QED
  BY <1>3, <1>4, <1>5, <1>6 DEF Ownership

\* A peer that falls silent changes nobody's ownership.
LEMMA PeerDiesOwnership ==
  ASSUME TypeOK, TypeOK', Ownership, NEW e \in Epochs, PeerDies(e)
  PROVE  Ownership'
<1>1. /\ wire[e] = "open" /\ wire' = [wire EXCEPT ![e] = "silent"]
      /\ UNCHANGED <<epoch, armed, link, run, heard, timer, state>>
  BY DEF PeerDies
<1>2. Fresh' /\ WireRun' /\ NoLeakedWire'
  BY <1>1 DEF Ownership, Fresh, WireRun, NoLeakedWire, TypeOK
<1>3. LinkRun' /\ HeardRun' /\ TimerRun' /\ LinkOwner' /\ TimerOwner'
  BY <1>1 DEF Ownership, LinkRun, HeardRun, TimerRun, LinkOwner, TimerOwner
<1> QED
  BY <1>2, <1>3 DEF Ownership

\* pair() starts a run and leaves the attached transport where it is.
LEMMA PairOwnership ==
  ASSUME TypeOK, TypeOK', Ownership, NEW mac \in Macs, Pair(mac)
  PROVE  Ownership'
<1>1. /\ epoch + 1 \in Epochs /\ epoch' = epoch + 1 /\ run[epoch + 1] = NoRun
      /\ wire[epoch + 1] = "none" /\ epoch + 1 \notin heard
  BY BoundAssumption DEF Pair, Ownership, Fresh, TypeOK
<1>2. /\ run' = [run EXCEPT ![epoch + 1] = [kind |-> "pair", phase |-> "dial", mac |-> mac]]
      /\ timer' = 0 /\ UNCHANGED <<link, wire, heard>>
  BY DEF Pair
<1>3. Fresh' /\ WireRun'
  BY <1>1, <1>2 DEF Ownership, Fresh, WireRun, TypeOK
<1>4. LinkRun' /\ HeardRun'
  BY <1>1, <1>2 DEF Ownership, LinkRun, HeardRun, LinkOwner, TypeOK
<1>5. TimerRun' /\ TimerOwner'
  BY <1>2 DEF TimerRun, TimerOwner
<1>6. NoLeakedWire'
  BY <1>1, <1>2 DEF Ownership, NoLeakedWire, TypeOK
<1>7. LinkOwner'
  BY <1>1, <1>2, BoundAssumption DEF Ownership, LinkOwner, TypeOK
<1> QED
  BY <1>3, <1>4, <1>5, <1>6, <1>7 DEF Ownership

\* unpair() detaches like connect() does and starts the run that clears.
LEMMA UnpairOwnership ==
  ASSUME TypeOK, TypeOK', Ownership, Unpair
  PROVE  Ownership'
<1>1. /\ epoch + 1 \in Epochs /\ epoch' = epoch + 1 /\ run[epoch + 1] = NoRun
      /\ wire[epoch + 1] = "none" /\ epoch + 1 \notin heard
  BY BoundAssumption DEF Unpair, Ownership, Fresh, TypeOK
<1>2. /\ run' = [run EXCEPT ![epoch + 1] = [kind |-> "unpair", phase |-> "clear", mac |-> NoMac]]
      /\ wire' = [e \in Epochs |-> IF e \in {link} \ {0} THEN "closed" ELSE wire[e]]
      /\ timer' = 0 /\ link' = 0 /\ heard' = heard
  BY DEF Unpair, CloseWires
<1>3. link # 0 => link <= epoch
  BY DEF Ownership, LinkOwner
<1>4. Fresh' /\ WireRun'
  BY <1>1, <1>2, <1>3 DEF Ownership, Fresh, WireRun, LinkRun, TypeOK
<1>5. LinkRun' /\ LinkOwner' /\ TimerRun' /\ TimerOwner'
  BY <1>2 DEF LinkRun, LinkOwner, TimerRun, TimerOwner
<1>6. HeardRun'
  BY <1>1, <1>2 DEF Ownership, HeardRun, TypeOK
<1>7. NoLeakedWire'
  BY <1>1, <1>2 DEF Ownership, NoLeakedWire, TypeOK
<1> QED
  BY <1>4, <1>5, <1>6, <1>7 DEF Ownership

\* A launch of the app starts from nothing.
LEMMA LaunchOwnership ==
  /\ TypeOK /\ Init => Ownership
  /\ TypeOK /\ Relaunch => Ownership'
<1>1. TypeOK /\ Init => Ownership
  BY BoundAssumption
  DEF Init, Ownership, Fresh, WireRun, LinkRun, HeardRun, TimerRun, NoLeakedWire, LinkOwner,
      TimerOwner, NoRun
<1>2. TypeOK /\ Relaunch => Ownership'
  BY BoundAssumption
  DEF Relaunch, Ownership, Fresh, WireRun, LinkRun, HeardRun, TimerRun, NoLeakedWire, LinkOwner,
      TimerOwner, NoRun
<1> QED
  BY <1>1, <1>2

\* Every step of the provider, the wires and the calls keeps who owns what.
LEMMA OwnershipStep ==
  ASSUME TypeOK, TypeOK', Ownership, [Next]_vars
  PROVE  Ownership'
<1>1. CASE Reset
  BY <1>1, ConnectOwnership DEF Reset
<1>2. CASE RetryTimer
  <2>1. CASE timer = epoch /\ armed
    BY <1>2, <2>1, ConnectOwnership DEF RetryTimer
  <2>2. CASE ~(timer = epoch /\ armed)
    BY <1>2, <2>2 DEF RetryTimer, Ownership, TimerOwner
  <2> QED
    BY <2>1, <2>2
<1>3. CASE \E mac \in Macs : Pair(mac)
  BY <1>3, PairOwnership
<1>4. CASE Unpair
  BY <1>4, UnpairOwnership
<1>5. CASE Relaunch
  BY <1>5, LaunchOwnership
<1>6. ASSUME NEW e \in Epochs, RunStep(e) PROVE Ownership'
  BY <1>6, QuietRunOwnership, ConnectDialedOwnership, PairDialedOwnership, PairSavedOwnership,
     PairAttachedOwnership DEF RunStep
<1>7. ASSUME NEW e \in Epochs, WireLost(e) \/ ProbeFailed(e) PROVE Ownership'
  BY <1>7, TransportClosedOwnership DEF WireLost, ProbeFailed
<1>8. ASSUME NEW e \in Epochs, PeerDies(e) PROVE Ownership'
  BY <1>8, PeerDiesOwnership
<1>9. ASSUME \/ \E r \in Rpcs : CallRpc(r) \/ SendRpc(r) \/ AnswerRpc(r)
             \/ UNCHANGED vars
      PROVE  Ownership'
  <2>1. UNCHANGED <<run, wire, heard, link, timer, epoch, armed, state>>
    BY <1>9 DEF CallRpc, SendRpc, AnswerRpc, vars
  <2> QED
    BY <2>1
    DEF Ownership, Fresh, WireRun, LinkRun, HeardRun, TimerRun, NoLeakedWire, LinkOwner, TimerOwner
<1> QED
  BY <1>1, <1>2, <1>3, <1>4, <1>5, <1>6, <1>7, <1>8, <1>9 DEF Next

\* Whatever the interleaving of connect(), pair(), unpair(), their awaits, the
\* retries and the wires' failures, the link, the wires and the retry timer
\* belong to the latest command.
THEOREM OwnershipHolds == Spec => []Ownership
<1>1. TypeOK /\ Init => Ownership
  BY LaunchOwnership
<1>2. TypeOK /\ TypeOK' /\ Ownership /\ [Next]_vars => Ownership'
  BY OwnershipStep
<1> QED
  BY <1>1, <1>2, TypeCorrect, PTL DEF Spec

\* No connection is left behind by a superseded connect(), pair() or unpair().
THEOREM NoWireLeaks == Spec => []NoLeakedWire
  BY OwnershipHolds, PTL DEF Ownership

\* The transport the app's calls go out on is never one a later connect() or
\* unpair() has replaced.
THEOREM LinkBelongsToLatest == Spec => []LinkOwner
  BY OwnershipHolds, PTL DEF Ownership

\* A retry that fires is never for a connection that was given up.
THEOREM TimerBelongsToLatest == Spec => []TimerOwner
  BY OwnershipHolds, PTL DEF Ownership

\* What acts for the user, the transport its calls go out on and the retry
\* that replaces it, is the latest command's.
THEOREM LatestOwnsHolds == Spec => []LatestOwns
  BY LinkBelongsToLatest, TimerBelongsToLatest, PTL DEF LatestOwns

-----------------------------------------------------------------------------
(* Something always brings the connection back *)

\* A pair() at the key store has opened its wire.
OpenedRun ==
  \A e \in Epochs : run[e].phase \in {"persist", "reread"} => wire[e] # "none"

\* Retries are only off after an unpair() and an incompatible handshake.
ArmedRun ==
  run[epoch].kind # "unpair" /\ ( \/ run[epoch].kind = "pair"
                                  \/ run[epoch].phase \in {"load", "dial"}
                                  \/ link = epoch )
    => armed

\* The transport of the latest command, once attached, has had a wire and
\* tells the provider when it closes.
LiveLink ==
  link = epoch => /\ wire[epoch] # "none"
                  /\ wire[epoch] \in {"open", "silent"} => epoch \in heard

\* Inductive together with TypeOK and Ownership.
Recovery ==
  /\ OpenedRun
  /\ ArmedRun
  /\ LiveLink
  /\ RetryArmed

\* A superseded run leaves the latest command's recovery alone.
LEMMA StaleRecovery ==
  ASSUME TypeOK, Recovery, NEW e \in Epochs, Moves(e), e # epoch,
         wire'[epoch] = wire[epoch], UNCHANGED <<timer, armed, link, heard>>,
         state' \in {state, "unpaired"}
  PROVE  ArmedRun' /\ LiveLink' /\ RetryArmed'
<1>1. run'[epoch] = run[epoch] /\ epoch' = epoch
  BY DEF Moves, TypeOK
<1>2. ArmedRun' /\ LiveLink'
  BY <1>1 DEF Recovery, ArmedRun, LiveLink
<1>3. RetryArmed'
  BY <1>1 DEF Recovery, RetryArmed, PairFellThrough, Running
<1> QED
  BY <1>2, <1>3

\* No step takes a wire back to "none", and a run gets to the key store with
\* its wire open.
LEMMA OpenedKept ==
  ASSUME TypeOK, Recovery, NEW e \in Epochs, Moves(e),
         \A f \in Epochs : wire[f] # "none" => wire'[f] # "none",
         run'[e].phase \in {"persist", "reread"} => wire'[e] # "none"
  PROVE  OpenedRun'
  BY DEF Moves, Recovery, OpenedRun

\* While the latest command dials for the first time, it is neither ready nor
\* waiting for a retry.
LEMMA DialingState ==
  ASSUME TypeOK, Ownership, Recovery, NEW e \in Epochs, Moves(e), e = epoch,
         run[e].kind = "connect"
  PROVE  state \notin {"ready", "offline"} /\ link = 0 /\ timer = 0
  BY MovesFacts DEF Recovery, RetryArmed, PairFellThrough, TypeOK

\* connect() starts dialing.
LEMMA ConnectRecovery ==
  ASSUME TypeOK, TypeOK', Ownership, Recovery, Connect
  PROVE  Recovery'
<1>1. /\ epoch + 1 \in Epochs /\ epoch' = epoch + 1 /\ armed' /\ state' = "connecting" /\ link' = 0
      /\ run' = [run EXCEPT ![epoch + 1] = [kind |-> "connect", phase |-> "load", mac |-> NoMac]]
      /\ wire' = [e \in Epochs |-> IF e \in {link} \ {0} THEN "closed" ELSE wire[e]]
  BY BoundAssumption DEF Connect, CloseWires, TypeOK
<1>2. OpenedRun'
  BY <1>1 DEF Recovery, OpenedRun, TypeOK
<1>3. ArmedRun' /\ LiveLink'
  BY <1>1 DEF ArmedRun, LiveLink
<1>4. RetryArmed'
  BY <1>1 DEF RetryArmed, TypeOK
<1> QED
  BY <1>2, <1>3, <1>4 DEF Recovery

\* The record loaded or not, the run dials on or ends in a status of its own.
LEMMA ConnectLoadRecovery ==
  ASSUME TypeOK, TypeOK', Ownership, Recovery, NEW e \in Epochs,
         ConnectLoaded(e) \/ ConnectLoadFailed(e)
  PROVE  Recovery'
<1>1. /\ Moves(e) /\ run[e].kind = "connect" /\ run[e].phase = "load"
      /\ run'[e].phase \in {"dial", "done"}
  BY DEF ConnectLoaded, ConnectLoadFailed, Goto, Moves, Running, TypeOK, Runs
<1>2. UNCHANGED <<wire, timer, armed, link, heard>>
  BY DEF ConnectLoaded, ConnectLoadFailed
<1>3. OpenedRun'
  BY <1>1, <1>2, OpenedKept
<1>4. CASE e # epoch
  <2>1. state' = state
    BY <1>4 DEF ConnectLoaded, ConnectLoadFailed
  <2> QED
    BY <1>1, <1>2, <1>3, <1>4, <2>1, StaleRecovery DEF Recovery
<1>5. CASE e = epoch
  <2>1. state \notin {"ready", "offline"} /\ link = 0 /\ timer = 0
    BY <1>1, <1>5, DialingState
  <2>2. state' \in {"unpaired", "error"} \/ (state' = state /\ run'[e].phase = "dial")
    BY <1>5 DEF ConnectLoaded, ConnectLoadFailed, TypeOK
  <2>3. ArmedRun' /\ LiveLink'
    BY <1>1, <1>2, <1>5, <2>1 DEF Moves, Recovery, ArmedRun, LiveLink, TypeOK
  <2>4. RetryArmed'
    BY <1>1, <1>5, <2>1, <2>2 DEF Moves, RetryArmed, TypeOK
  <2> QED
    BY <1>3, <2>3, <2>4 DEF Recovery
<1> QED
  BY <1>4, <1>5

\* A dial that resolves makes the latest command ready.
LEMMA ConnectDialedRecovery ==
  ASSUME TypeOK, TypeOK', Ownership, Recovery, NEW e \in Epochs, ConnectDialed(e)
  PROVE  Recovery'
<1>1. /\ Moves(e) /\ run[e].kind = "connect" /\ run[e].phase = "dial"
      /\ run'[e].phase \in {"done", "dropped"}
  BY DEF ConnectDialed, Goto, Moves, Running, TypeOK, Runs
<1>2. UNCHANGED <<timer, armed>>
  BY DEF ConnectDialed
<1>3. wire' \in {[wire EXCEPT ![e] = "open"], [wire EXCEPT ![e] = "closed"]}
  BY DEF ConnectDialed
<1>4. OpenedRun'
  BY <1>1, <1>3, OpenedKept DEF TypeOK
<1>5. CASE e # epoch
  <2>1. UNCHANGED <<heard, link, state>>
    BY <1>5 DEF ConnectDialed
  <2>2. wire'[epoch] = wire[epoch]
    BY <1>3, <1>5 DEF TypeOK
  <2> QED
    BY <1>1, <1>2, <1>4, <1>5, <2>1, <2>2, StaleRecovery DEF Recovery
<1>6. CASE e = epoch
  <2>1. /\ wire' = [wire EXCEPT ![e] = "open"] /\ heard' = heard \cup {e}
        /\ link' = e /\ state' = "ready"
    BY <1>6 DEF ConnectDialed
  <2>2. ArmedRun' /\ LiveLink'
    BY <1>1, <1>2, <1>6, <2>1 DEF Moves, Recovery, ArmedRun, LiveLink, TypeOK
  <2>3. RetryArmed'
    BY <1>1, <1>6, <2>1 DEF Moves, RetryArmed, TypeOK
  <2> QED
    BY <1>4, <2>2, <2>3 DEF Recovery
<1> QED
  BY <1>5, <1>6

\* A dial that fails schedules the retry, or ends the retries.
LEMMA ConnectDialFailedRecovery ==
  ASSUME TypeOK, TypeOK', Ownership, Recovery, NEW e \in Epochs, NEW incompatible \in BOOLEAN,
         ConnectDialFailed(e, incompatible)
  PROVE  Recovery'
<1>1. /\ Moves(e) /\ run[e].kind = "connect" /\ run[e].phase = "dial" /\ run'[e].phase = "done"
      /\ UNCHANGED <<wire, heard, link>>
  BY DEF ConnectDialFailed, Goto, Moves, Running, TypeOK, Runs
<1>2. OpenedRun'
  BY <1>1, OpenedKept
<1>3. CASE e # epoch
  <2>1. UNCHANGED <<timer, armed, state>>
    BY <1>3 DEF ConnectDialFailed
  <2> QED
    BY <1>1, <1>2, <1>3, <2>1, StaleRecovery DEF Recovery
<1>4. CASE e = epoch
  <2>1. armed /\ link = 0
    BY <1>1, <1>4, DialingState DEF Recovery, ArmedRun
  <2>2. state' = "error" \/ (state' = "offline" /\ timer' = e)
    BY <1>4, <2>1, Zenon DEF ConnectDialFailed
  <2>3. ArmedRun' /\ LiveLink'
    BY <1>1, <1>4, <2>1 DEF Moves, ArmedRun, LiveLink, TypeOK
  <2>4. RetryArmed'
    BY <1>1, <1>4, <2>2 DEF Moves, RetryArmed
  <2> QED
    BY <1>2, <2>3, <2>4 DEF Recovery
<1> QED
  BY <1>3, <1>4

\* A pair() under way, or one that comes to nothing.
LEMMA PairRunRecovery ==
  ASSUME TypeOK, TypeOK', Ownership, Recovery, NEW e \in Epochs,
         PairDialed(e) \/ PairDialFailed(e) \/ PairSaved(e) \/ PairSaveFailed(e)
  PROVE  Recovery'
<1>1. /\ Moves(e) /\ run[e].kind = "pair" /\ run'[e].phase # "idle"
      /\ UNCHANGED <<heard, link, timer, armed, state>>
  BY DEF PairDialed, PairDialFailed, PairSaved, PairSaveFailed, Goto, Moves, Running, TypeOK, Runs
<1>2. e # link
  BY <1>1, MovesFacts
<1>3. /\ \A f \in Epochs \ {e} : wire'[f] = wire[f]
      /\ wire[e] # "none" => wire'[e] # "none"
      /\ run'[e].phase \in {"persist", "reread"} => wire'[e] # "none"
  <2>1. CASE PairDialed(e)
    BY <2>1 DEF PairDialed, TypeOK
  <2>2. CASE PairDialFailed(e)
    BY <2>2 DEF PairDialFailed, Goto, TypeOK, Runs
  <2>3. CASE PairSaved(e)
    BY <2>3 DEF PairSaved, CloseWires, Recovery, OpenedRun, TypeOK
  <2>4. CASE PairSaveFailed(e)
    BY <2>4 DEF PairSaveFailed, Goto, TypeOK, Runs
  <2> QED
    BY <2>1, <2>2, <2>3, <2>4
<1>4. OpenedRun'
  BY <1>1, <1>3, OpenedKept
<1>5. CASE e # epoch
  BY <1>1, <1>3, <1>4, <1>5, StaleRecovery DEF Recovery, TypeOK
<1>6. CASE e = epoch
  <2>1. ArmedRun' /\ LiveLink'
    BY <1>1, <1>2, <1>6 DEF Moves, Recovery, ArmedRun, LiveLink
  <2>2. RetryArmed'
    BY <1>1, <1>2, <1>6 DEF Moves, RetryArmed, PairFellThrough
  <2> QED
    BY <1>4, <2>1, <2>2 DEF Recovery
<1> QED
  BY <1>5, <1>6

\* A pair() that ends swaps the transports and is ready.
LEMMA PairAttachedRecovery ==
  ASSUME TypeOK, TypeOK', Ownership, Recovery, NEW e \in Epochs, PairAttached(e)
  PROVE  Recovery'
<1>1. /\ Moves(e) /\ run[e].kind = "pair" /\ run[e].phase = "reread"
      /\ run'[e].phase \in {"dropped", "done"} /\ UNCHANGED <<timer, armed>>
  BY DEF PairAttached, Goto, Moves, Running, TypeOK, Runs
<1>2. e # link
  BY <1>1, MovesFacts
<1>3. CloseWires({e}) \/ CloseWires({link} \ {0})
  BY DEF PairAttached
<1>4. OpenedRun'
  BY <1>1, <1>3, OpenedKept DEF CloseWires
<1>5. CASE e # epoch
  <2>1. CloseWires({e}) /\ UNCHANGED <<heard, link, state>>
    BY <1>5 DEF PairAttached
  <2>2. wire'[epoch] = wire[epoch]
    BY <1>5, <2>1 DEF CloseWires, TypeOK
  <2> QED
    BY <1>1, <1>4, <1>5, <2>1, <2>2, StaleRecovery DEF Recovery
<1>6. CASE e = epoch /\ stored = NoMac
  <2>1. UNCHANGED <<heard, link, state>>
    BY <1>6 DEF PairAttached
  <2>2. ArmedRun' /\ LiveLink'
    BY <1>1, <1>2, <1>6, <2>1 DEF Moves, Recovery, ArmedRun, LiveLink
  <2>3. RetryArmed'
    BY <1>1, <1>2, <1>6, <2>1 DEF Moves, RetryArmed, PairFellThrough
  <2> QED
    BY <1>4, <2>2, <2>3 DEF Recovery
<1>7. CASE e = epoch /\ stored # NoMac
  <2>1. /\ CloseWires({link} \ {0}) /\ heard' = heard \cup {e} /\ link' = e /\ state' = "ready"
    BY <1>7 DEF PairAttached
  <2>2. wire'[e] = wire[e] /\ wire[e] # "none"
    BY <1>1, <1>2, <2>1 DEF CloseWires, Recovery, OpenedRun
  <2>3. ArmedRun' /\ LiveLink'
    BY <1>1, <1>7, <2>1, <2>2 DEF Moves, Recovery, ArmedRun, LiveLink
  <2>4. RetryArmed'
    BY <1>1, <1>7, <2>1, <2>2 DEF Moves, RetryArmed, PairFellThrough, Running, TypeOK
  <2> QED
    BY <1>4, <2>3, <2>4 DEF Recovery
<1> QED
  BY <1>5, <1>6, <1>7

\* An unpair() that ends, overtaken or not, leaves "unpaired".
LEMMA UnpairedRecovery ==
  ASSUME TypeOK, TypeOK', Ownership, Recovery, NEW e \in Epochs, Unpaired(e)
  PROVE  Recovery'
<1>1. /\ Moves(e) /\ run[e].kind = "unpair" /\ run'[e].phase = "done"
      /\ state' = "unpaired" /\ UNCHANGED <<wire, heard, link, timer, armed>>
  BY DEF Unpaired, Goto, Moves, Running, TypeOK, Runs
<1>2. OpenedRun'
  BY <1>1, OpenedKept
<1>3. CASE e # epoch
  BY <1>1, <1>2, <1>3, StaleRecovery DEF Recovery
<1>4. CASE e = epoch
  BY <1>1, <1>2, <1>4 DEF Moves, Recovery, ArmedRun, LiveLink, RetryArmed
<1> QED
  BY <1>3, <1>4

\* The close of the attached transport schedules the retry; that of another
\* changes nothing the screens see.
LEMMA TransportClosedRecovery ==
  ASSUME TypeOK, TypeOK', Ownership, Recovery, NEW e \in Epochs, TransportClosed(e),
         wire[e] \in {"open", "silent"}
  PROVE  Recovery'
<1>1. /\ wire' = [f \in Epochs |-> IF f \in {e} THEN "closed" ELSE wire[f]]
      /\ heard' = heard \ {e} /\ UNCHANGED <<epoch, armed, link, run>>
  BY DEF TransportClosed, CloseWires
<1>2. OpenedRun' /\ ArmedRun' /\ LiveLink'
  BY <1>1 DEF Recovery, OpenedRun, ArmedRun, LiveLink, TypeOK
<1>3. RetryArmed'
  <2>1. CASE e \in heard /\ e = epoch /\ armed
    <3>1. state' = "offline" /\ timer' = e
      BY <2>1 DEF TransportClosed
    <3> QED
      BY <1>1, <2>1, <3>1 DEF RetryArmed
  <2>2. CASE ~(e \in heard /\ e = epoch /\ armed)
    <3>1. UNCHANGED <<state, timer>>
      BY <2>2 DEF TransportClosed
    <3>2. CASE e # epoch
      BY <1>1, <3>1, <3>2 DEF Recovery, RetryArmed, PairFellThrough, Running, TypeOK
    <3>3. CASE e = epoch /\ run[epoch].kind \notin {"pair", "unpair"}
      <4>1. link # epoch
        BY <2>2, <3>3 DEF Recovery, LiveLink, ArmedRun
      <4> QED
        BY <1>1, <3>1, <3>3, <4>1 DEF Recovery, RetryArmed, PairFellThrough
    <3>4. CASE e = epoch /\ run[epoch].kind \in {"pair", "unpair"}
      BY <1>1, <3>4 DEF RetryArmed, PairFellThrough, Running, TypeOK
    <3> QED
      BY <3>2, <3>3, <3>4
  <2> QED
    BY <2>1, <2>2
<1> QED
  BY <1>2, <1>3 DEF Recovery

\* A silent peer is still an attached wire: the probe will find it.
LEMMA PeerDiesRecovery ==
  ASSUME TypeOK, TypeOK', Recovery, NEW e \in Epochs, PeerDies(e)
  PROVE  Recovery'
<1>1. /\ wire[e] = "open" /\ wire' = [wire EXCEPT ![e] = "silent"]
      /\ UNCHANGED <<epoch, armed, link, run, heard, timer, state>>
  BY DEF PeerDies
<1> QED
  BY <1>1
  DEF Recovery, OpenedRun, ArmedRun, LiveLink, RetryArmed, PairFellThrough, Running, TypeOK

\* A launch dials.
LEMMA RecoveryStart ==
  /\ TypeOK /\ Init => Recovery
  /\ TypeOK /\ Relaunch => Recovery'
<1>1. TypeOK /\ Init => Recovery
  BY BoundAssumption DEF Init, Recovery, OpenedRun, ArmedRun, LiveLink, RetryArmed, NoRun, TypeOK
<1>2. TypeOK /\ Relaunch => Recovery'
  BY BoundAssumption
  DEF Relaunch, Recovery, OpenedRun, ArmedRun, LiveLink, RetryArmed, NoRun, TypeOK
<1> QED
  BY <1>1, <1>2

\* pair() starts a dial of its own.
LEMMA PairStartRecovery ==
  ASSUME TypeOK, TypeOK', Ownership, Recovery, NEW mac \in Macs, Pair(mac)
  PROVE  Recovery'
<1>1. /\ epoch + 1 \in Epochs /\ epoch' = epoch + 1 /\ armed'
      /\ run' = [run EXCEPT ![epoch + 1] = [kind |-> "pair", phase |-> "dial", mac |-> mac]]
      /\ UNCHANGED <<link, wire>>
  BY BoundAssumption DEF Pair, TypeOK
<1>2. link # epoch'
  BY <1>1, BoundAssumption DEF Ownership, LinkOwner, TypeOK
<1>3. OpenedRun'
  BY <1>1 DEF Recovery, OpenedRun, TypeOK
<1> QED
  BY <1>1, <1>2, <1>3 DEF Recovery, ArmedRun, LiveLink, RetryArmed, Running, TypeOK

\* unpair() ends the retries on purpose.
LEMMA UnpairRecovery ==
  ASSUME TypeOK, TypeOK', Ownership, Recovery, Unpair
  PROVE  Recovery'
<1>1. /\ epoch + 1 \in Epochs /\ epoch' = epoch + 1 /\ link' = 0
      /\ run' = [run EXCEPT ![epoch + 1] = [kind |-> "unpair", phase |-> "clear", mac |-> NoMac]]
      /\ wire' = [e \in Epochs |-> IF e \in {link} \ {0} THEN "closed" ELSE wire[e]]
  BY BoundAssumption DEF Unpair, CloseWires, TypeOK
<1>2. OpenedRun'
  BY <1>1 DEF Recovery, OpenedRun, TypeOK
<1> QED
  BY <1>1, <1>2 DEF Recovery, ArmedRun, LiveLink, RetryArmed, TypeOK

\* Every step keeps what brings the connection back.
LEMMA RecoveryStep ==
  ASSUME TypeOK, TypeOK', Ownership, Recovery, [Next]_vars
  PROVE  Recovery'
<1>1. CASE Reset
  BY <1>1, ConnectRecovery DEF Reset
<1>2. CASE RetryTimer
  <2>1. timer = epoch /\ armed
    BY <1>2 DEF RetryTimer, Ownership, TimerOwner
  <2> QED
    BY <1>2, <2>1, ConnectRecovery DEF RetryTimer
<1>3. CASE \E mac \in Macs : Pair(mac)
  BY <1>3, PairStartRecovery
<1>4. CASE Unpair
  BY <1>4, UnpairRecovery
<1>5. CASE Relaunch
  BY <1>5, RecoveryStart
<1>6. ASSUME NEW e \in Epochs, RunStep(e) PROVE Recovery'
  BY <1>6, ConnectLoadRecovery, ConnectDialedRecovery, ConnectDialFailedRecovery, PairRunRecovery,
     PairAttachedRecovery, UnpairedRecovery DEF RunStep
<1>7. ASSUME NEW e \in Epochs, WireLost(e) \/ ProbeFailed(e) PROVE Recovery'
  BY <1>7, TransportClosedRecovery DEF WireLost, ProbeFailed
<1>8. ASSUME NEW e \in Epochs, PeerDies(e) PROVE Recovery'
  BY <1>8, PeerDiesRecovery
<1>9. ASSUME \/ \E r \in Rpcs : CallRpc(r) \/ SendRpc(r) \/ AnswerRpc(r)
             \/ UNCHANGED vars
      PROVE  Recovery'
  <2>1. UNCHANGED <<run, wire, heard, link, timer, epoch, armed, state>>
    BY <1>9 DEF CallRpc, SendRpc, AnswerRpc, vars
  <2> QED
    BY <2>1
    DEF Recovery, OpenedRun, ArmedRun, LiveLink, RetryArmed, PairFellThrough, Running
<1> QED
  BY <1>1, <1>2, <1>3, <1>4, <1>5, <1>6, <1>7, <1>8, <1>9 DEF Next

\* While a Mac is paired a dial, a live wire or a scheduled retry is always
\* there, whatever happens in between, except where pair() cut the previous
\* command's recovery off.
THEOREM RecoveryIsArmed == Spec => []RetryArmed
<1>1. TypeOK /\ Init => Recovery
  BY RecoveryStart
<1>2. TypeOK /\ TypeOK' /\ Ownership /\ Recovery /\ [Next]_vars => Recovery'
  BY RecoveryStep
<1>3. Recovery => RetryArmed
  BY DEF Recovery
<1> QED
  BY <1>1, <1>2, <1>3, TypeCorrect, OwnershipHolds, PTL DEF Spec

-----------------------------------------------------------------------------
(* What the screens show *)

\* A superseded pair() wrote its record on the way out: nothing undoes that.
Dropped == \E e \in Epochs : run[e].kind = "pair" /\ run[e].phase = "dropped"

\* A pair() has written its record and not swapped the transports yet.
Saved(e) == run[e].kind = "pair" /\ run[e].phase = "reread"

\* The record has not been read in this launch: it is being loaded, or that failed
\* and there have been only pair()s since.
Unread ==
  /\ shown = NoMac /\ link = 0
  /\ \/ epoch = 1 /\ ~initialized /\ run[1].kind = "connect" /\ run[1].phase = "load"
     \/ /\ state = "error" /\ run[1].phase = "done"
        /\ \A e \in 2 .. epoch : run[e].kind = "pair"

\* The screens show the stored record, and what is attached, or will be by the dial
\* of the latest command, leads to that Mac.
Agreed ==
  /\ stored = shown \/ Unread
  /\ run[epoch].kind = "connect" /\ run[epoch].phase = "dial" =>
       shown \in {run[epoch].mac, NoMac}
  /\ link # 0 => shown \in {run[link].mac, NoMac}

\* Inductive together with TypeOK and Ownership.
Agreement ==
  /\ \A e \in Epochs : run[e].kind = "pair" => run[e].mac \in Macs
  /\ stored = NoMac => shown = NoMac
  /\ Saved(epoch) => Dropped \/ stored \in {run[epoch].mac, NoMac}
  /\ Dropped \/ (\E e \in Epochs : Saved(e)) \/ Agreed

\* A run that moves on drops nothing that was dropped, and leaves the others' records
\* alone.
LEMMA MovesSaved ==
  ASSUME TypeOK, NEW e \in Epochs, Moves(e)
  PROVE  /\ Dropped => Dropped'
         /\ \A f \in Epochs \ {e} : Saved(f)' <=> Saved(f)
  BY DEF Moves, Running, Dropped, Saved

\* While the record is unread only pair()s, or its first load, are under way.
LEMMA MovesUnread ==
  ASSUME TypeOK, Ownership, NEW e \in Epochs, Moves(e), Unread
  PROVE  \/ run[e].kind = "pair" /\ epoch # 1 /\ e # 1
         \/ e = 1 /\ epoch = 1 /\ run[e].kind = "connect" /\ run[e].phase = "load"
<1>1. e <= epoch
  BY MovesFacts
<1>2. CASE epoch = 1 /\ run[1].kind = "connect" /\ run[1].phase = "load"
  BY <1>1, <1>2 DEF TypeOK
<1>3. CASE run[1].phase = "done" /\ \A f \in 2 .. epoch : run[f].kind = "pair"
  <2>1. e # 1
    BY <1>3 DEF Moves, Running
  <2> QED
    BY <1>1, <1>3, <2>1, BoundAssumption DEF TypeOK
<1> QED
  BY <1>2, <1>3 DEF Unread

\* A step that touches neither the record nor what is shown, of a run that neither
\* writes a record nor starts to dial.
LEMMA MovesAgreement ==
  ASSUME TypeOK, TypeOK', Ownership, Agreement, NEW e \in Epochs, Moves(e),
         UNCHANGED <<stored, shown, link>>, run'[e].mac = run[e].mac,
         run[e].phase # "reread", run'[e].phase \notin {"load", "dial", "reread"},
         Unread => Unread'
  PROVE  Agreement'
<1>1. epoch' = epoch /\ epoch \in Epochs /\ (Dropped => Dropped')
  BY MovesSaved DEF Moves, TypeOK
<1>2. \A f \in Epochs : Saved(f)' <=> Saved(f)
  BY MovesSaved DEF Saved, Moves
<1>3. \A f \in Epochs : run'[f].kind = run[f].kind /\ run'[f].mac = run[f].mac
  BY DEF Moves
<1>4. run'[epoch].phase = "dial" => run[epoch].phase = "dial"
  BY <1>1 DEF Moves
<1>5. Agreed => Agreed'
  <2>1. link # 0 => link \in Epochs
    BY DEF Ownership, LinkRun
  <2> QED
    BY <1>1, <1>3, <1>4, <2>1 DEF Agreed
<1>6. Saved(epoch)' => Saved(epoch)
  BY <1>1, <1>2
<1> QED
  BY <1>1, <1>2, <1>3, <1>5, <1>6 DEF Agreement, Saved

\* Runs that leave the record and the screens as they are.
LEMMA QuietAgreement ==
  ASSUME TypeOK, TypeOK', Ownership, Agreement, NEW e \in Epochs,
         \/ ConnectLoadFailed(e)
         \/ \E incompatible \in BOOLEAN : ConnectDialFailed(e, incompatible)
         \/ PairDialed(e) \/ PairDialFailed(e) \/ PairSaveFailed(e)
  PROVE  Agreement'
<1>1. CASE ConnectLoadFailed(e)
  <2>1. /\ Moves(e) /\ run[e].kind = "connect" /\ run[e].phase = "load"
        /\ run'[e].phase = "done" /\ run'[e].mac = run[e].mac
    BY <1>1 DEF ConnectLoadFailed, Goto, Moves, Running, TypeOK, Runs
  <2>2. /\ UNCHANGED <<stored, shown, link, epoch>>
        /\ e = epoch => state' = "error"
    BY <1>1 DEF ConnectLoadFailed
  <2>3. Unread => Unread'
    <3> SUFFICES ASSUME Unread PROVE Unread'
      OBVIOUS
    <3>1. e = 1 /\ epoch = 1
      BY <2>1, MovesUnread
    <3> QED
      BY <2>1, <2>2, <3>1 DEF Unread
  <2> QED
    BY <2>1, <2>2, <2>3, MovesAgreement
<1>2. ASSUME NEW incompatible \in BOOLEAN, ConnectDialFailed(e, incompatible)
      PROVE  Agreement'
  <2>1. /\ Moves(e) /\ run[e].kind = "connect" /\ run[e].phase = "dial"
        /\ run'[e].phase = "done" /\ run'[e].mac = run[e].mac
    BY <1>2 DEF ConnectDialFailed, Goto, Moves, Running, TypeOK, Runs
  <2>2. UNCHANGED <<stored, shown, link>>
    BY <1>2 DEF ConnectDialFailed
  <2>3. ~Unread
    BY <2>1, MovesUnread
  <2> QED
    BY <2>1, <2>2, <2>3, MovesAgreement
<1>3. CASE PairDialed(e) \/ PairDialFailed(e) \/ PairSaveFailed(e)
  <2>1. /\ Moves(e) /\ run[e].kind = "pair" /\ run[e].phase # "reread"
        /\ run'[e].phase \in {"persist", "done", "unsaved"} /\ run'[e].mac = run[e].mac
    BY <1>3 DEF PairDialed, PairDialFailed, PairSaveFailed, Goto, Moves, Running, TypeOK, Runs
  <2>2. UNCHANGED <<stored, shown, link, epoch, state, initialized>>
    BY <1>3 DEF PairDialed, PairDialFailed, PairSaveFailed
  <2>3. Unread => Unread'
    <3> SUFFICES ASSUME Unread PROVE Unread'
      OBVIOUS
    <3>1. e # 1 /\ epoch # 1
      BY <2>1, MovesUnread
    <3>2. run'[1] = run[1] /\ \A f \in Epochs : run'[f].kind = run[f].kind
      BY <2>1, <3>1, BoundAssumption DEF Moves
    <3>3. 2 .. epoch \subseteq Epochs
      BY BoundAssumption DEF TypeOK
    <3> QED
      BY <2>2, <3>1, <3>2, <3>3 DEF Unread
  <2> QED
    BY <2>1, <2>2, <2>3, MovesAgreement
<1> QED
  BY <1>1, <1>2, <1>3

\* The first step of connect() shows what it read.
LEMMA ConnectLoadedAgreement ==
  ASSUME TypeOK, TypeOK', Ownership, Agreement, NEW e \in Epochs, ConnectLoaded(e)
  PROVE  Agreement'
<1>1. /\ Moves(e) /\ run[e].kind = "connect" /\ run[e].phase = "load"
      /\ run'[e].phase \in {"dial", "done"}
      /\ UNCHANGED <<stored, link, epoch>>
  BY DEF ConnectLoaded, Goto, Moves, Running, TypeOK, Runs
<1>2. /\ epoch \in Epochs /\ (Dropped => Dropped')
      /\ \A f \in Epochs : Saved(f)' <=> Saved(f)
      /\ \A f \in Epochs : run'[f].kind = run[f].kind
      /\ \A f \in Epochs \ {e} : run'[f] = run[f]
  <2>1. \A f \in Epochs \ {e} : run'[f] = run[f]
    BY <1>1 DEF Moves
  <2>2. \A f \in Epochs : run'[f].kind = run[f].kind
    BY <1>1, <2>1 DEF Moves
  <2>3. \A f \in Epochs : Saved(f)' <=> Saved(f)
    BY <1>1, <2>1 DEF Saved
  <2> QED
    BY <1>1, <2>1, <2>2, <2>3, MovesSaved DEF TypeOK
<1>3. shown' = stored
  BY DEF ConnectLoaded, Agreement
<1>4. \A f \in Epochs : run[f].kind = "pair" => run'[f].mac \in Macs
  BY <1>1, <1>2 DEF Agreement
<1>5. Saved(epoch)' => Dropped' \/ stored' \in {run'[epoch].mac, NoMac}
  BY <1>1, <1>2 DEF Agreement, Saved
<1>6. ASSUME Agreed PROVE Agreed'
  <2>1. e # epoch => stored = shown
    BY <1>1, <1>6, MovesUnread DEF Agreed
  <2>2. run'[epoch].kind = "connect" /\ run'[epoch].phase = "dial" =>
          shown' \in {run'[epoch].mac, NoMac}
    <3>1. CASE e = epoch
      BY <1>3, <3>1 DEF ConnectLoaded, TypeOK
    <3>2. CASE e # epoch
      BY <1>2, <1>3, <1>6, <2>1, <3>2 DEF Agreed
    <3> QED
      BY <3>1, <3>2
  <2>3. link # 0 => shown' \in {run'[link].mac, NoMac}
    <3> SUFFICES ASSUME link # 0 PROVE shown' \in {run'[link].mac, NoMac}
      OBVIOUS
    <3>1. link \in Epochs \ {e} /\ run'[link] = run[link]
      BY <1>1, <1>2, MovesFacts DEF Ownership, LinkRun
    <3> QED
      BY <1>3, <1>6, <3>1 DEF Agreed, Unread
  <2> QED
    BY <1>1, <1>3, <2>2, <2>3 DEF Agreed
<1> QED
  BY <1>1, <1>2, <1>3, <1>4, <1>5, <1>6 DEF Agreement

\* A dial that resolves leads to the Mac that is shown, or is dropped.
LEMMA ConnectDialedAgreement ==
  ASSUME TypeOK, TypeOK', Ownership, Agreement, NEW e \in Epochs, ConnectDialed(e)
  PROVE  Agreement'
<1>1. /\ Moves(e) /\ run[e].kind = "connect" /\ run[e].phase = "dial"
      /\ run'[e].phase \in {"done", "dropped"} /\ run'[e].mac = run[e].mac
      /\ UNCHANGED <<stored, shown, epoch>>
  BY DEF ConnectDialed, Goto, Moves, Running, TypeOK, Runs
<1>2. ~Unread
  BY <1>1, MovesUnread
<1>3. CASE e # epoch
  <2>1. link' = link
    BY <1>3 DEF ConnectDialed
  <2> QED
    BY <1>1, <1>2, <2>1, MovesAgreement
<1>4. CASE e = epoch
  <2>1. link' = e /\ run'[e].phase = "done"
    BY <1>4 DEF ConnectDialed, Goto, TypeOK, Runs
  <2>2. /\ Dropped => Dropped'
        /\ \A f \in Epochs : Saved(f)' <=> Saved(f)
        /\ \A f \in Epochs : run'[f].kind = run[f].kind /\ run'[f].mac = run[f].mac
    BY <1>1, MovesSaved DEF Saved, Moves
  <2>3. Agreed => Agreed'
    BY <1>1, <1>2, <1>4, <2>1, <2>2 DEF Agreed
  <2> QED
    BY <1>1, <1>4, <2>1, <2>2, <2>3 DEF Agreement, Saved
<1> QED
  BY <1>3, <1>4

\* pair() writes its record whatever the epoch: the latest one still has to swap the
\* transports, a superseded one is dropped.
LEMMA PairSavedAgreement ==
  ASSUME TypeOK, TypeOK', Ownership, Agreement, NEW e \in Epochs, PairSaved(e)
  PROVE  Agreement'
<1>1. /\ Moves(e) /\ run[e].kind = "pair" /\ stored' = run[e].mac
      /\ run'[e].mac = run[e].mac /\ UNCHANGED <<shown, epoch>>
      /\ run'[e].phase = IF e = epoch THEN "reread" ELSE "dropped"
  BY DEF PairSaved, Goto, Moves, Running, TypeOK, Runs
<1>2. /\ \A f \in Epochs : run'[f].kind = run[f].kind /\ run'[f].mac = run[f].mac
      /\ run[e].mac \in Macs
  BY <1>1 DEF Moves, Agreement
<1>3. stored' # NoMac
  BY <1>1, <1>2, NoMacAssumption
<1>4. CASE e = epoch
  <2>1. Saved(e)'
    BY <1>1, <1>2, <1>4 DEF Saved
  <2> QED
    BY <1>1, <1>2, <1>3, <1>4, <2>1 DEF Agreement
<1>5. CASE e # epoch
  <2>1. Dropped'
    BY <1>1, <1>2, <1>5 DEF Dropped
  <2> QED
    BY <1>2, <1>3, <2>1 DEF Agreement
<1> QED
  BY <1>4, <1>5

\* The latest pair() shows the record it finds, which is its own or gone.
LEMMA PairAttachedAgreement ==
  ASSUME TypeOK, TypeOK', Ownership, Agreement, NEW e \in Epochs, PairAttached(e)
  PROVE  Agreement'
<1>1. /\ Moves(e) /\ run[e].kind = "pair" /\ run[e].phase = "reread"
      /\ run'[e].mac = run[e].mac /\ UNCHANGED <<stored, epoch>>
      /\ run'[e].phase = IF e = epoch THEN "done" ELSE "dropped"
  BY DEF PairAttached, Goto, Moves, Running, TypeOK, Runs
<1>2. /\ Dropped => Dropped'
      /\ \A f \in Epochs : run'[f].kind = run[f].kind /\ run'[f].mac = run[f].mac
      /\ run[e].mac \in Macs
  BY <1>1, MovesSaved DEF Moves, Agreement
<1>3. stored' = NoMac => shown' = NoMac
  BY DEF PairAttached, Agreement
<1>4. CASE e # epoch
  <2>1. Dropped'
    BY <1>1, <1>2, <1>4 DEF Dropped
  <2> QED
    BY <1>2, <1>3, <2>1 DEF Agreement
<1>5. CASE e = epoch
  <2>1. ~Saved(epoch)'
    BY <1>1, <1>5 DEF Saved
  <2>2. CASE stored = NoMac
    <3>1. shown' = NoMac /\ stored' = shown'
      BY <1>1, <1>3, <2>2
    <3>2. Agreed'
      BY <1>1, <1>2, <1>5, <3>1 DEF Agreed
    <3> QED
      BY <1>2, <1>3, <2>1, <3>2 DEF Agreement
  <2>3. CASE stored # NoMac
    <3>1. shown' = stored /\ link' = e
      BY <1>5, <2>3 DEF PairAttached
    <3>2. Dropped \/ stored = run[e].mac
      BY <1>1, <1>5, <2>3 DEF Agreement, Saved
    <3>3. stored = run[e].mac => Agreed'
      BY <1>1, <1>2, <1>5, <3>1 DEF Agreed
    <3> QED
      BY <1>2, <1>3, <2>1, <3>2, <3>3 DEF Agreement
  <2> QED
    BY <2>2, <2>3
<1> QED
  BY <1>4, <1>5

\* unpair() forgets the record and what is shown together.
LEMMA UnpairedAgreement ==
  ASSUME TypeOK, TypeOK', Ownership, Agreement, NEW e \in Epochs, Unpaired(e)
  PROVE  Agreement'
<1>1. /\ Moves(e) /\ run'[e].phase = "done" /\ run'[e].mac = run[e].mac
      /\ stored' = NoMac /\ shown' = NoMac
  BY DEF Unpaired, Goto, Moves, Running, TypeOK, Runs
<1>2. Agreed'
  BY <1>1 DEF Agreed
<1>3. \A f \in Epochs : run'[f].kind = run[f].kind /\ run'[f].mac = run[f].mac
  BY <1>1 DEF Moves
<1> QED
  BY <1>1, <1>2, <1>3 DEF Agreement

\* A retry or a reset finds the record read.
LEMMA ConnectAgreement ==
  ASSUME TypeOK, TypeOK', Ownership, Agreement, Connect, ~Unread
  PROVE  Agreement'
<1>1. /\ epoch + 1 \in Epochs /\ epoch' = epoch + 1 /\ run[epoch + 1] = NoRun
      /\ run' = [run EXCEPT ![epoch + 1] = [kind |-> "connect", phase |-> "load", mac |-> NoMac]]
      /\ link' = 0 /\ UNCHANGED <<stored, shown>>
  BY BoundAssumption DEF Connect, TypeOK, Ownership, Fresh
<1>2. /\ \A e \in Epochs \ {epoch + 1} : run'[e] = run[e]
      /\ run'[epoch + 1] = [kind |-> "connect", phase |-> "load", mac |-> NoMac]
  BY <1>1 DEF TypeOK
<1>3. (Dropped => Dropped') /\ \A e \in Epochs : Saved(e) => Saved(e)'
  BY <1>1, <1>2 DEF Dropped, Saved, NoRun
<1>4. Agreed => Agreed'
  BY <1>1, <1>2 DEF Agreed
<1> QED
  BY <1>1, <1>2, <1>3, <1>4 DEF Agreement, Saved

\* pair() changes nothing of it until it writes its record.
LEMMA PairAgreement ==
  ASSUME TypeOK, TypeOK', Ownership, Agreement, NEW mac \in Macs, Pair(mac)
  PROVE  Agreement'
<1>1. /\ epoch + 1 \in Epochs /\ epoch' = epoch + 1 /\ run[epoch + 1] = NoRun /\ initialized
      /\ run' = [run EXCEPT ![epoch + 1] = [kind |-> "pair", phase |-> "dial", mac |-> mac]]
      /\ UNCHANGED <<link, stored, shown, state>>
  BY BoundAssumption DEF Pair, TypeOK, Ownership, Fresh
<1>2. /\ \A e \in Epochs \ {epoch + 1} : run'[e] = run[e]
      /\ run'[epoch + 1] = [kind |-> "pair", phase |-> "dial", mac |-> mac]
  BY <1>1 DEF TypeOK
<1>3. (Dropped => Dropped') /\ \A e \in Epochs : Saved(e) => Saved(e)'
  BY <1>1, <1>2 DEF Dropped, Saved, NoRun
<1>4. Unread => Unread'
  <2> SUFFICES ASSUME Unread PROVE Unread'
    OBVIOUS
  <2>1. 1 \in Epochs \ {epoch + 1} /\ epoch \in Nat /\ 2 .. epoch \subseteq Epochs
    BY <1>1, BoundAssumption DEF TypeOK
  <2>2. run'[1] = run[1]
    BY <1>2, <2>1
  <2>3. \A e \in 2 .. epoch + 1 : run'[e].kind = "pair"
    BY <1>1, <1>2, <2>1 DEF Unread
  <2> QED
    BY <1>1, <2>2, <2>3 DEF Unread
<1>5. Agreed => Agreed'
  <2>1. link # 0 => link \in Epochs /\ link # epoch + 1
    BY <1>1 DEF Ownership, LinkRun, LinkOwner, TypeOK
  <2> QED
    BY <1>1, <1>2, <1>4, <2>1 DEF Agreed
<1> QED
  BY <1>1, <1>2, <1>3, <1>5 DEF Agreement, Saved

\* unpair() is there only when a Mac is shown.
LEMMA UnpairAgreement ==
  ASSUME TypeOK, TypeOK', Ownership, Agreement, Unpair
  PROVE  Agreement'
<1>1. /\ epoch + 1 \in Epochs /\ epoch' = epoch + 1 /\ run[epoch + 1] = NoRun /\ shown # NoMac
      /\ run' = [run EXCEPT ![epoch + 1] = [kind |-> "unpair", phase |-> "clear", mac |-> NoMac]]
      /\ link' = 0 /\ UNCHANGED <<stored, shown>>
  BY BoundAssumption DEF Unpair, TypeOK, Ownership, Fresh
<1>2. /\ \A e \in Epochs \ {epoch + 1} : run'[e] = run[e]
      /\ run'[epoch + 1] = [kind |-> "unpair", phase |-> "clear", mac |-> NoMac]
  BY <1>1 DEF TypeOK
<1>3. (Dropped => Dropped') /\ \A e \in Epochs : Saved(e) => Saved(e)'
  BY <1>1, <1>2 DEF Dropped, Saved, NoRun
<1>4. Agreed => Agreed'
  BY <1>1, <1>2 DEF Agreed, Unread
<1> QED
  BY <1>1, <1>2, <1>3, <1>4 DEF Agreement, Saved

\* A launch has nothing to show until the record is read.
LEMMA LaunchAgreement ==
  /\ TypeOK /\ Init => Agreement
  /\ TypeOK /\ Relaunch => Agreement'
<1>1. 1 \in Epochs
  BY BoundAssumption
<1>2. TypeOK /\ Init => Agreement
  BY <1>1 DEF Init, Agreement, Agreed, Unread, Saved, NoRun
<1>3. TypeOK /\ Relaunch => Agreement'
  BY <1>1 DEF Relaunch, Agreement, Agreed, Unread, Saved, NoRun
<1> QED
  BY <1>2, <1>3

\* What changes neither the record, the screens nor the runs.
LEMMA StillAgreement ==
  ASSUME Agreement, UNCHANGED <<stored, shown, link, run, epoch, initialized>>,
         Unread => state' = state
  PROVE  Agreement'
  BY DEF Agreement, Agreed, Unread, Dropped, Saved

\* Every step keeps the screens, the record and the transport in agreement.
LEMMA AgreementStep ==
  ASSUME TypeOK, TypeOK', Ownership, Agreement, [Next]_vars
  PROVE  Agreement'
<1>1. CASE Reset
  BY <1>1, ConnectAgreement DEF Reset, Unread
<1>2. CASE RetryTimer
  <2>1. timer = epoch /\ armed /\ state # "error" /\ run[epoch].phase = "done"
    BY <1>2 DEF RetryTimer, Ownership, TimerOwner, TimerRun
  <2> QED
    BY <1>2, <2>1, ConnectAgreement DEF RetryTimer, Unread
<1>3. CASE \E mac \in Macs : Pair(mac)
  BY <1>3, PairAgreement
<1>4. CASE Unpair
  BY <1>4, UnpairAgreement
<1>5. CASE Relaunch
  BY <1>5, LaunchAgreement
<1>6. ASSUME NEW e \in Epochs, RunStep(e) PROVE Agreement'
  BY <1>6, QuietAgreement, ConnectLoadedAgreement, ConnectDialedAgreement, PairSavedAgreement,
     PairAttachedAgreement, UnpairedAgreement DEF RunStep
<1>7. ASSUME NEW e \in Epochs, WireLost(e) \/ ProbeFailed(e) PROVE Agreement'
  <2>1. TransportClosed(e)
    BY <1>7 DEF WireLost, ProbeFailed
  <2>2. Unread => state' = state
    BY <2>1 DEF TransportClosed, Unread, Ownership, HeardRun, TypeOK
  <2> QED
    BY <2>1, <2>2, StillAgreement DEF TransportClosed
<1>8. ASSUME NEW e \in Epochs, PeerDies(e) PROVE Agreement'
  BY <1>8, StillAgreement DEF PeerDies
<1>9. ASSUME \/ \E r \in Rpcs : CallRpc(r) \/ SendRpc(r) \/ AnswerRpc(r)
             \/ UNCHANGED vars
      PROVE  Agreement'
  BY <1>9, StillAgreement DEF CallRpc, SendRpc, AnswerRpc, vars
<1> QED
  BY <1>1, <1>2, <1>3, <1>4, <1>5, <1>6, <1>7, <1>8, <1>9 DEF Next

\* Once nothing is running, the screens show the record the next launch will load, and
\* the attached transport leads to that Mac, unless a superseded pair() wrote its
\* record on the way out (setPairedDaemon runs before the epoch is looked at).
THEOREM StoredShownHolds == Spec => []StoredShown
<1>1. TypeOK /\ Init => Agreement
  BY LaunchAgreement
<1>2. TypeOK /\ TypeOK' /\ Ownership /\ Agreement /\ [Next]_vars => Agreement'
  BY AgreementStep
<1>3. TypeOK /\ Agreement => StoredShown
  <2> SUFFICES ASSUME TypeOK, Agreement, \A e \in Epochs : ~Running(e) PROVE StoredShown
    BY DEF StoredShown
  <2>1. \A e \in Epochs : ~Saved(e)
    BY DEF Saved, Running
  <2>2. CASE Dropped
    BY <2>2 DEF Dropped, StoredShown
  <2>3. CASE Agreed
    <3>1. Unread => state = "error" /\ shown = NoMac
      BY BoundAssumption DEF Unread, Running
    <3> QED
      BY <2>3, <3>1 DEF Agreed, StoredShown
  <2> QED
    BY <2>1, <2>2, <2>3 DEF Agreement
<1> QED
  BY <1>1, <1>2, <1>3, TypeCorrect, OwnershipHolds, PTL DEF Spec

-----------------------------------------------------------------------------
(* The provider implements the safety of Link: what it does to its connection *)
(* is, step by step, what Link allows.                                        *)

\* The mapped status is one of Link's, and "up" just when the link is.
LEMMA ServiceType ==
  /\ Service \in {"none", "owed", "up"}
  /\ Service = "up" <=> LinkUp
  BY DEF Service

LEMMA ServiceTypeNext ==
  /\ Service' \in {"none", "owed", "up"}
  /\ Service' = "up" <=> LinkUp'
  BY DEF Service

\* A step that leaves the command and the connection alone and brings no dead
\* link back is a change of the status, or nothing.
LEMMA StatusStep ==
  ASSUME UNCHANGED <<epoch, link>>, LinkUp' => LinkUp
  PROVE  [Promise!Next]_(Promise!vars)
<1>1. CASE Service' = Service
  BY <1>1 DEF Promise!vars
<1>2. CASE Service' # Service
  <2>1. Service' \in {"none", "owed"} \ {Service}
    BY <1>2, ServiceType, ServiceTypeNext
  <2> QED
    BY <2>1 DEF Promise!Next, Promise!Change
<1> QED
  BY <1>1, <1>2

\* A step that takes the next number and keeps or drops the connection is a
\* command.
LEMMA CommandStep ==
  ASSUME epoch' = epoch + 1, link' \in {0, link}, LinkUp' => LinkUp /\ link' = link
  PROVE  [Promise!Next]_(Promise!vars)
<1>1. \/ Service' \in {"none", "owed"}
      \/ Service = "up" /\ Service' = "up" /\ link' = link
  BY ServiceType, ServiceTypeNext
<1> QED
  BY <1>1 DEF Promise!Next, Promise!Command

\* A step that attaches the latest command's transport, another one than
\* before, is Link's Attach.
LEMMA AttachStep ==
  ASSUME UNCHANGED epoch, link' = epoch, link # epoch
  PROVE  [Promise!Next]_(Promise!vars)
  BY ServiceTypeNext DEF Promise!Next, Promise!Attach

\* connect(), at boot, by the user or by the timer, is a command that drops
\* the connection.
LEMMA ConnectCommand ==
  ASSUME TypeOK, Connect
  PROVE  [Promise!Next]_(Promise!vars)
  BY CommandStep DEF Connect, LinkUp

\* A run that comes back attaches its transport if it is the latest command's,
\* and otherwise changes the status at most.
LEMMA RunPromise ==
  ASSUME TypeOK, Ownership, NEW e \in Epochs, RunStep(e)
  PROVE  [Promise!Next]_(Promise!vars)
<1>1. CASE ConnectLoaded(e) \/ ConnectLoadFailed(e) \/ Unpaired(e)
           \/ (\E incompatible \in BOOLEAN : ConnectDialFailed(e, incompatible))
           \/ PairDialFailed(e) \/ PairSaveFailed(e)
  <2>1. /\ UNCHANGED <<epoch, link, wire>>
        /\ state' \in {state, "unpaired", "error", "offline"}
    BY <1>1, Zenon
    DEF ConnectLoaded, ConnectLoadFailed, Unpaired, ConnectDialFailed, PairDialFailed,
        PairSaveFailed
  <2> QED
    BY <2>1, StatusStep DEF LinkUp
<1>2. CASE ConnectDialed(e)
  <2>1. link # e
    BY <1>2 DEF ConnectDialed, Ownership, LinkRun
  <2>2. CASE e = epoch
    BY <1>2, <2>1, <2>2, AttachStep DEF ConnectDialed
  <2>3. CASE e # epoch
    <3>1. UNCHANGED <<epoch, link, state>> /\ wire' = [wire EXCEPT ![e] = "closed"]
      BY <1>2, <2>3 DEF ConnectDialed
    <3> QED
      BY <2>1, <3>1, StatusStep DEF LinkUp, TypeOK, Ownership, LinkRun
  <2> QED
    BY <2>2, <2>3
<1>3. CASE PairDialed(e)
  <2>1. /\ link # e /\ UNCHANGED <<epoch, link, state>>
        /\ wire' = [wire EXCEPT ![e] = "open"]
    BY <1>3 DEF PairDialed, Ownership, LinkRun
  <2> QED
    BY <2>1, StatusStep DEF LinkUp, TypeOK, Ownership, LinkRun
<1>4. CASE PairSaved(e)
  <2>1. UNCHANGED <<epoch, link, state>> /\ (UNCHANGED wire \/ CloseWires({e}))
    BY <1>4 DEF PairSaved
  <2> QED
    BY <2>1, StatusStep DEF LinkUp, CloseWires, TypeOK, Ownership, LinkRun
<1>5. CASE PairAttached(e)
  <2>1. link # e
    BY <1>5 DEF PairAttached, Ownership, LinkRun
  <2>2. CASE stored = NoMac \/ e # epoch
    <3>1. UNCHANGED <<epoch, link, state>> /\ CloseWires({e})
      BY <1>5, <2>2 DEF PairAttached
    <3> QED
      BY <3>1, StatusStep DEF LinkUp, CloseWires, TypeOK, Ownership, LinkRun
  <2>3. CASE ~(stored = NoMac \/ e # epoch)
    BY <1>5, <2>1, <2>3, AttachStep DEF PairAttached
  <2> QED
    BY <2>2, <2>3
<1> QED
  BY <1>1, <1>2, <1>3, <1>4, <1>5 DEF RunStep

\* A wire that closes or goes silent ends the link it carries.
LEMMA WirePromise ==
  ASSUME TypeOK, Ownership, NEW e \in Epochs, WireLost(e) \/ PeerDies(e) \/ ProbeFailed(e)
  PROVE  [Promise!Next]_(Promise!vars)
<1>1. CASE PeerDies(e)
  BY <1>1, StatusStep DEF PeerDies, LinkUp, TypeOK, Ownership, LinkRun
<1>2. CASE WireLost(e) \/ ProbeFailed(e)
  <2>1. CloseWires({e}) /\ UNCHANGED <<epoch, link>> /\ state' \in {state, "offline"}
    BY <1>2 DEF WireLost, ProbeFailed, TransportClosed
  <2> QED
    BY <2>1, StatusStep DEF LinkUp, CloseWires, TypeOK, Ownership, LinkRun
<1> QED
  BY <1>1, <1>2

\* Every step of the provider is a step of Link, or changes nothing there.
LEMMA PromiseStep ==
  ASSUME TypeOK, Ownership, [Next]_vars
  PROVE  [Promise!Next]_(Promise!vars)
<1>1. CASE Reset
  BY <1>1, ConnectCommand DEF Reset
<1>2. CASE RetryTimer
  <2>1. timer = epoch /\ armed
    BY <1>2 DEF RetryTimer, Ownership, TimerOwner
  <2> QED
    BY <1>2, <2>1, ConnectCommand DEF RetryTimer
<1>3. CASE \E mac \in Macs : Pair(mac)
  BY <1>3, CommandStep DEF Pair, LinkUp
<1>4. CASE Unpair
  BY <1>4, CommandStep DEF Unpair, LinkUp
<1>5. CASE Relaunch
  <2>1. epoch' = 1 /\ link' = 0 /\ Service' = "none"
    BY <1>5 DEF Relaunch, Service, LinkUp, Down
  <2> QED
    BY <2>1 DEF Promise!Next, Promise!Restart
<1>6. ASSUME NEW e \in Epochs, RunStep(e) PROVE [Promise!Next]_(Promise!vars)
  BY <1>6, RunPromise
<1>7. ASSUME NEW e \in Epochs, WireLost(e) \/ PeerDies(e) \/ ProbeFailed(e)
      PROVE  [Promise!Next]_(Promise!vars)
  BY <1>7, WirePromise
<1>8. ASSUME \/ \E r \in Rpcs : CallRpc(r) \/ SendRpc(r) \/ AnswerRpc(r)
             \/ UNCHANGED vars
      PROVE  [Promise!Next]_(Promise!vars)
  <2>1. UNCHANGED <<epoch, link, wire, state>>
    BY <1>8 DEF CallRpc, SendRpc, AnswerRpc, vars
  <2> QED
    BY <2>1, StatusStep DEF LinkUp
<1> QED
  BY <1>1, <1>2, <1>3, <1>4, <1>5, <1>6, <1>7, <1>8 DEF Next

\* The provider implements the safety of Link: one connection, only ever the
\* latest command's, and none that is up again after it was lost or replaced
\* (context.tsx:261, 348-375, 409-456).
THEOREM ImplementsLink == Spec => Promise!Safe
<1>1. Init => Promise!Init
  BY DEF Init, Promise!Init, Service, LinkUp, Down
<1>2. TypeOK /\ Ownership /\ [Next]_vars => [Promise!Next]_(Promise!vars)
  BY PromiseStep
<1> QED
  BY <1>1, <1>2, TypeCorrect, OwnershipHolds, PTL DEF Spec, Promise!Safe

=============================================================================
