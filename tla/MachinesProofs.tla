--------------------------- MODULE MachinesProofs ---------------------------
(***************************************************************************)
(* Theorems about the six machines, for every value of their constants:    *)
(* the phone, its listeners and the daemon follow the same ports, what the *)
(* updater says of an update is so, the lock and the pairings of a home    *)
(* are kept, the composers come to show the model the session runs on, a   *)
(* pane shows the output of one shell, once, and the groups of a           *)
(* transcript keep their keys.                                             *)
(*                                                                         *)
(* A machine's variables move by its own steps only, so an invariant of    *)
(* its next-state relation is one of the whole specification.              *)
(***************************************************************************)
EXTENDS MCMachines, QueueLemmas, FiniteSetTheorems, TLAPS

-----------------------------------------------------------------------------
(* The updater: the inductive invariant *)

UpdateTyped ==
  /\ status \in {"checking", "up-to-date", "downloading", "downloaded", "installing", "error"}
  /\ version \in Versions \cup {0} /\ record \in Versions \cup {0}
  /\ notApplied \in Versions \cup {0} /\ failed \in Versions \cup {0}
  /\ fetching \in Versions \cup {0} /\ fetched \in Versions \cup {0}
  /\ app \in Versions /\ restarts \in Nat
  /\ timers \subseteq 1 .. restarts /\ restarts <= MaxRestarts
  /\ target \in [1 .. MaxRestarts -> Versions \cup {0}]
  /\ interactive \in BOOLEAN /\ quitting \in BOOLEAN /\ checking \in BOOLEAN
  /\ installing \in BOOLEAN /\ taken \in BOOLEAN /\ dropped \in BOOLEAN
  /\ unwritten \in BOOLEAN

\* What the state says has a version exactly where it speaks of one.
Versioned ==
  /\ status \in {"downloading", "downloaded", "installing"} => version # 0
  /\ status \in {"checking", "up-to-date"} => version = 0

\* A restart was asked for with a version at hand, and it is there until the app ends.
AtHand ==
  /\ \A r \in timers : target[r] # 0
  /\ timers # {} \/ status = "installing" \/ U!Ready # 0 => fetched # 0

\* A restart under way has its record, if it could be written and until it is taken.
Recorded ==
  (installing \/ quitting \/ status = "installing") /\ ~taken /\ ~unwritten =>
    restarts # 0 /\ record = target[restarts] /\ record # 0

\* A restart that failed is the last that was asked for, and its record is still there.
FailedKept ==
  failed # 0 =>
    /\ record = failed /\ failed # app
    /\ timers = {} /\ ~installing /\ ~quitting /\ status # "installing"

Updated == UpdateTyped /\ Versioned /\ AtHand /\ Recorded /\ FailedKept /\ U!UpdateTold

-----------------------------------------------------------------------------
(* The home: the inductive invariant *)

HomeTyped ==
  /\ identity \in H!Procs \cup {0} /\ identityTmp \in H!Procs \cup {0}
  /\ lock \in H!Procs \cup {0} /\ lockTmp \in H!Procs \cup {0}
  /\ known \subseteq Phones /\ trusted \subseteq H!Procs /\ let \subseteq Phones
  /\ kind \in [H!Procs -> {"app", "up", "pair"}] /\ phase \in [H!Procs -> H!Phases]
  /\ key \in [H!Procs -> H!Procs \cup {0}] /\ clients \in [H!Procs -> SUBSET Phones]
  /\ met \in BOOLEAN /\ crossed \in BOOLEAN

\* A process has a key from the time it makes or reads one.
Keyed ==
  \A p \in H!Procs :
    phase[p] \in {"keyTmp", "key", "load", "lockTmp", "lock", "up", "stopping", "offer"} => key[p] # 0

\* A process that is on its way to a daemon, or has one.
Runs(p) == phase[p] \in {"lockTmp", "lock", "up", "stopping"}

\* While no daemons meet, one process at a time comes to the lock.
Alone == ~met => \A p, q \in H!Procs : Runs(p) /\ Runs(q) => p = q

\* The lock names the daemon that runs, or a process that was killed.
Locked ==
  ~met =>
    /\ \A p \in H!Procs : phase[p] = "lock" => lockTmp = p
    /\ \A p \in H!Procs : phase[p] = "up" => lock = p
    /\ lock # 0 => phase[lock] \in {"up", "gone"}

\* A daemon knows every phone that was let in.
Knows ==
  ~met => /\ let \subseteq known
          /\ \A p \in H!Procs : phase[p] \in {"lockTmp", "lock", "up"} => let \subseteq clients[p]

\* A process names the key it makes, which nobody has seen before it writes it.
Makes ==
  /\ \A p \in H!Procs : phase[p] \in {"none", "home", "move", "check", "identity", "keyTmp"} => identityTmp # p
  /\ \A p \in H!Procs : phase[p] = "keyTmp" => key[p] = p /\ identity # p

\* While no two make an identity, the one that is made is the one there is, and who is
\* past it holds it.
Identified ==
  ~crossed =>
    /\ trusted \subseteq {identity}
    /\ \A p \in H!Procs : phase[p] = "key" => identityTmp = p /\ key[p] = p /\ identity = 0
    /\ \A p \in H!Procs : Runs(p) \/ phase[p] \in {"load", "offer"} => key[p] = identity /\ identity # 0

HomeHeld == HomeTyped /\ Keyed /\ Alone /\ Locked /\ Knows /\ Makes /\ Identified

-----------------------------------------------------------------------------
(* The pickers: the inductive invariant *)

ModelTyped ==
  /\ model \in Models /\ row \in [M!Clients -> Models]
  /\ bus \in [M!Clients -> Seq(Models)]
  /\ pick \in [M!Clients -> Models \cup {None}]
  /\ onScreen \in [M!Clients -> BOOLEAN] /\ passed \in [M!Clients -> BOOLEAN]
  /\ sends \subseteq M!Sends /\ switches \in Nat

\* The last event on its way to a client brings the session's model.
Follows ==
  \A c \in M!Clients : IF bus[c] = <<>> THEN row[c] = model ELSE LastOf(bus[c]) = model

\* A pick that the session's model has not gone past is the model the client has, is on
\* its way to it, or is asked for.
PickLeads ==
  \A c \in M!Clients : pick[c] # None /\ ~passed[c] =>
    \/ row[c] = pick[c]
    \/ pick[c] \in Elements(bus[c])
    \/ \E s \in sends : s.by = c /\ s.to = pick[c] /\ s.at \in {"out", "failed"}

\* Only a pick is gone past, by another model.
PassedBy == \A c \in M!Clients : passed[c] => pick[c] \notin {None, row[c]}

Picked == ModelTyped /\ Follows /\ PickLeads /\ PassedBy

-----------------------------------------------------------------------------
(* The updater: its steps *)

LEMMA UpdaterInit == U!UpdaterBounds /\ U!Init => Updated
<1> SUFFICES ASSUME U!UpdaterBounds, U!Init PROVE Updated
  OBVIOUS
<1> USE DEF U!UpdaterBounds, U!Init, U!Restarts
<1>1. UpdateTyped
  <2>1. /\ interactive \in BOOLEAN /\ quitting \in BOOLEAN /\ checking \in BOOLEAN
        /\ installing \in BOOLEAN /\ taken \in BOOLEAN /\ dropped \in BOOLEAN
        /\ unwritten \in BOOLEAN
    OBVIOUS
  <2>2. target \in [1 .. MaxRestarts -> Versions \cup {0}]
    OBVIOUS
  <2>3. timers \subseteq 1 .. restarts /\ restarts <= MaxRestarts /\ restarts \in Nat
    OBVIOUS
  <2> QED BY <2>1, <2>2, <2>3 DEF UpdateTyped
<1>2. Versioned /\ AtHand /\ Recorded /\ FailedKept
  BY DEF Versioned, AtHand, Recorded, FailedKept, U!Ready
<1>3. U!UpdateTold
  BY DEF U!UpdateTold, U!NoSpin, U!Answered, U!NotAppliedTold, U!Offered, U!Ready
<1> QED
  BY <1>1, <1>2, <1>3 DEF Updated

\* Every step keeps the types.
LEMMA UpdaterTypes ==
  ASSUME U!UpdaterBounds, Updated, U!Next
  PROVE  UpdateTyped'
<1> USE DEF U!UpdaterBounds, UpdateTyped, U!Set, U!Fault, U!Restarts, U!stateVars, U!restartVars,
            U!externalVars, U!boundVars, U!historyVars
<1>0. UpdateTyped /\ AtHand /\ Recorded
  BY DEF Updated
<1>1. ASSUME NEW byUser \in BOOLEAN, U!Check(byUser) PROVE UpdateTyped'
  BY <1>0, <1>1 DEF U!Check
<1>2. CASE U!NoneFound
  BY <1>0, <1>2 DEF U!NoneFound
<1>3. CASE U!Progress
  BY <1>0, <1>3 DEF U!Progress
<1>4. CASE U!Downloaded
  BY <1>0, <1>4 DEF U!Downloaded
<1>5. CASE U!QuitAndInstall
  <2>1. /\ restarts' = restarts + 1 /\ restarts' \in Nat /\ restarts' <= MaxRestarts
        /\ restarts + 1 \in 1 .. MaxRestarts
    BY <1>0, <1>5 DEF U!QuitAndInstall
  <2>2. U!Ready \in Versions \cup {0}
    BY <1>0 DEF U!Ready
  <2>3. timers' \subseteq 1 .. restarts'
    BY <1>0, <1>5, <2>1 DEF U!QuitAndInstall
  <2>4. target' \in [1 .. MaxRestarts -> Versions \cup {0}]
    BY <1>0, <1>5, <2>1, <2>2 DEF U!QuitAndInstall
  <2>5. installing' \in BOOLEAN /\ taken' \in BOOLEAN /\ unwritten' \in BOOLEAN
    BY <1>5 DEF U!QuitAndInstall
  <2>6. record' \in Versions \cup {0}
    BY <1>0, <1>5, <2>2 DEF U!QuitAndInstall
  <2> QED BY <1>0, <1>5, <2>1, <2>2, <2>3, <2>4, <2>5, <2>6 DEF U!QuitAndInstall
<1>6. CASE U!QuitBegins
  BY <1>0, <1>6 DEF U!QuitBegins
<1>7. ASSUME NEW v \in Versions, U!Found(v) PROVE UpdateTyped'
  BY <1>0, <1>7 DEF U!Found
<1>8. ASSUME NEW v \in Versions, U!Boot(v) PROVE UpdateTyped'
  <2>1. quitting /\ ~taken /\ ~unwritten => target[restarts] \in Versions \cup {0}
    BY <1>0 DEF Recorded
  <2>2. failed' \in Versions \cup {0}
    BY <1>0, <1>8, <2>1 DEF U!Boot
  <2> QED BY <1>0, <1>8, <2>2 DEF U!Boot, U!ReadPending
<1>9. ASSUME NEW what \in {"check", "download", "install"}, U!Failed(what) PROVE UpdateTyped'
  <2>1. /\ checking' \in BOOLEAN /\ installing' \in BOOLEAN /\ taken' \in BOOLEAN
        /\ dropped' \in BOOLEAN /\ interactive' \in BOOLEAN
    BY <1>0, <1>9 DEF U!Failed, U!Ends
  <2> QED BY <1>0, <1>9, <2>1 DEF U!Failed, U!Ends
<1>10. ASSUME NEW r \in timers, U!Deadline(r) PROVE UpdateTyped'
  <2>1. taken' \in BOOLEAN
    BY <1>0, <1>10 DEF U!Deadline
  <2>2. target[r] \in Versions \cup {0}
    BY <1>0
  <2> QED BY <1>0, <1>10, <2>1, <2>2 DEF U!Deadline
<1> QED
  BY <1>1, <1>2, <1>3, <1>4, <1>5, <1>6, <1>7, <1>8, <1>9, <1>10 DEF U!Next

\* Every step keeps the other parts.
LEMMA UpdaterKeeps ==
  ASSUME U!UpdaterBounds, Updated, U!Next
  PROVE  (Versioned /\ AtHand /\ Recorded /\ FailedKept /\ U!UpdateTold)'
<1> DEFINE Kept == Versioned /\ AtHand /\ Recorded /\ FailedKept /\ U!UpdateTold
<1> USE DEF U!UpdaterBounds, UpdateTyped, U!Set, U!Fault, U!Restarts, U!stateVars, U!restartVars,
            U!externalVars, U!boundVars, U!historyVars, U!Ready,
            Versioned, AtHand, Recorded, FailedKept,
            U!UpdateTold, U!NoSpin, U!Answered, U!NotAppliedTold, U!Offered
<1>0. UpdateTyped /\ Kept
  BY DEF Updated
<1>1. ASSUME NEW byUser \in BOOLEAN, U!Check(byUser) PROVE Kept'
  BY <1>0, <1>1 DEF U!Check
<1>2. CASE U!NoneFound
  BY <1>0, <1>2 DEF U!NoneFound
<1>3. CASE U!Progress
  BY <1>0, <1>3 DEF U!Progress
<1>4. CASE U!Downloaded
  BY <1>0, <1>4 DEF U!Downloaded
<1>5. CASE U!QuitAndInstall
  BY <1>0, <1>5 DEF U!QuitAndInstall
<1>6. CASE U!QuitBegins
  BY <1>0, <1>6 DEF U!QuitBegins
<1>7. ASSUME NEW v \in Versions, U!Found(v) PROVE Kept'
  BY <1>0, <1>7 DEF U!Found
<1>8. ASSUME NEW v \in Versions, U!Boot(v) PROVE Kept'
  BY <1>0, <1>8 DEF U!Boot, U!ReadPending
<1>9. ASSUME NEW what \in {"check", "download", "install"}, U!Failed(what) PROVE Kept'
  BY <1>0, <1>9 DEF U!Failed, U!Ends
<1>10. ASSUME NEW r \in timers, U!Deadline(r) PROVE Kept'
  BY <1>0, <1>10 DEF U!Deadline
<1> QED
  BY <1>1, <1>2, <1>3, <1>4, <1>5, <1>6, <1>7, <1>8, <1>9, <1>10 DEF U!Next

-----------------------------------------------------------------------------
(* The home: its steps *)

LEMMA HomeInit == H!HomeBounds /\ H!Init => HomeHeld
<1> SUFFICES ASSUME H!HomeBounds, H!Init PROVE HomeHeld
  OBVIOUS
<1> USE DEF H!HomeBounds, H!Init, H!Procs
<1>1. HomeTyped
  <2>1. met \in BOOLEAN /\ crossed \in BOOLEAN
    OBVIOUS
  <2>2. identity \in H!Procs \cup {0}
    OBVIOUS
  <2>3. /\ kind \in [H!Procs -> {"app", "up", "pair"}] /\ phase \in [H!Procs -> H!Phases]
        /\ key \in [H!Procs -> H!Procs \cup {0}] /\ clients \in [H!Procs -> SUBSET Phones]
    BY DEF H!Phases
  <2> QED BY <2>1, <2>2, <2>3 DEF HomeTyped
<1>2. Keyed /\ Alone /\ Locked /\ Knows /\ Makes /\ Identified
  BY DEF Keyed, Alone, Locked, Knows, Makes, Identified, Runs
<1> QED
  BY <1>1, <1>2 DEF HomeHeld

\* Every step keeps the types.
LEMMA HomeTypes ==
  ASSUME H!HomeBounds, HomeHeld, H!Next
  PROVE  HomeTyped'
<1> USE DEF HomeTyped, H!files, H!procs, H!history
<1>0. HomeTyped /\ Keyed
  BY DEF HomeHeld
<1>1. PICK p \in H!Procs :
        \/ \E k \in {"app", "up", "pair"} : H!Launch(p, k)
        \/ H!ResolveHome(p) \/ H!MoveHome(p) \/ H!CheckLock(p)
        \/ H!LoadIdentity(p) \/ H!WriteIdentity(p) \/ H!RenameIdentity(p) \/ H!LoadClients(p)
        \/ H!WriteLock(p) \/ H!RenameLock(p)
        \/ \E c \in Phones : H!Pair(p, c)
        \/ H!Stop(p) \/ H!Exit(p) \/ H!Quit(p) \/ H!Kill(p) \/ H!Offer(p)
  BY DEF H!Next
<1>2. phase' \in [H!Procs -> H!Phases]
  <2> USE DEF H!Goto, H!Phases, H!AfterHome, H!AfterIdentity
  <2>1. ASSUME NEW k \in {"app", "up", "pair"}, H!Launch(p, k) PROVE phase' \in [H!Procs -> H!Phases]
    BY <1>0, <2>1 DEF H!Launch
  <2>2. CASE H!ResolveHome(p) \/ H!MoveHome(p) \/ H!CheckLock(p)
    BY <1>0, <2>2 DEF H!ResolveHome, H!MoveHome, H!CheckLock
  <2>3. CASE H!LoadIdentity(p) \/ H!WriteIdentity(p) \/ H!RenameIdentity(p) \/ H!LoadClients(p)
    BY <1>0, <2>3 DEF H!LoadIdentity, H!WriteIdentity, H!RenameIdentity, H!LoadClients
  <2>4. CASE H!WriteLock(p) \/ H!RenameLock(p)
    BY <1>0, <2>4 DEF H!WriteLock, H!RenameLock
  <2>5. ASSUME NEW c \in Phones, H!Pair(p, c) PROVE phase' \in [H!Procs -> H!Phases]
    BY <1>0, <2>5 DEF H!Pair
  <2>6. CASE H!Stop(p) \/ H!Exit(p) \/ H!Quit(p) \/ H!Kill(p) \/ H!Offer(p)
    BY <1>0, <2>6 DEF H!Stop, H!Exit, H!Quit, H!Kill, H!Offer
  <2> QED BY <1>1, <2>1, <2>2, <2>3, <2>4, <2>5, <2>6
<1>3. met' \in BOOLEAN /\ crossed' \in BOOLEAN
  <2>1. ASSUME NEW k \in {"app", "up", "pair"}, H!Launch(p, k) PROVE met' \in BOOLEAN /\ crossed' \in BOOLEAN
    BY <1>0, <2>1 DEF H!Launch
  <2>2. CASE H!ResolveHome(p) \/ H!MoveHome(p) \/ H!CheckLock(p)
    BY <1>0, <2>2 DEF H!ResolveHome, H!MoveHome, H!CheckLock
  <2>3. CASE H!LoadIdentity(p) \/ H!WriteIdentity(p) \/ H!RenameIdentity(p) \/ H!LoadClients(p)
    BY <1>0, <2>3 DEF H!LoadIdentity, H!WriteIdentity, H!RenameIdentity, H!LoadClients, H!Meets
  <2>4. CASE H!WriteLock(p) \/ H!RenameLock(p)
    BY <1>0, <2>4 DEF H!WriteLock, H!RenameLock, H!Meets
  <2>5. ASSUME NEW c \in Phones, H!Pair(p, c) PROVE met' \in BOOLEAN /\ crossed' \in BOOLEAN
    BY <1>0, <2>5 DEF H!Pair
  <2>6. CASE H!Stop(p) \/ H!Exit(p) \/ H!Quit(p) \/ H!Kill(p) \/ H!Offer(p)
    BY <1>0, <2>6 DEF H!Stop, H!Exit, H!Quit, H!Kill, H!Offer
  <2> QED BY <1>1, <2>1, <2>2, <2>3, <2>4, <2>5, <2>6
<1>4. /\ identity' \in H!Procs \cup {0} /\ identityTmp' \in H!Procs \cup {0}
      /\ lock' \in H!Procs \cup {0} /\ lockTmp' \in H!Procs \cup {0}
      /\ known' \subseteq Phones /\ trusted' \subseteq H!Procs /\ let' \subseteq Phones
      /\ kind' \in [H!Procs -> {"app", "up", "pair"}]
      /\ key' \in [H!Procs -> H!Procs \cup {0}] /\ clients' \in [H!Procs -> SUBSET Phones]
  <2> DEFINE Goal ==
        /\ identity' \in H!Procs \cup {0} /\ identityTmp' \in H!Procs \cup {0}
        /\ lock' \in H!Procs \cup {0} /\ lockTmp' \in H!Procs \cup {0}
        /\ known' \subseteq Phones /\ trusted' \subseteq H!Procs /\ let' \subseteq Phones
        /\ kind' \in [H!Procs -> {"app", "up", "pair"}]
        /\ key' \in [H!Procs -> H!Procs \cup {0}] /\ clients' \in [H!Procs -> SUBSET Phones]
  <2>1. ASSUME NEW k \in {"app", "up", "pair"}, H!Launch(p, k) PROVE Goal
    BY <1>0, <2>1 DEF H!Launch
  <2>2. CASE H!ResolveHome(p) \/ H!MoveHome(p) \/ H!CheckLock(p)
    BY <1>0, <2>2 DEF H!ResolveHome, H!MoveHome, H!CheckLock
  <2>3. CASE H!LoadIdentity(p) \/ H!WriteIdentity(p) \/ H!RenameIdentity(p) \/ H!LoadClients(p)
    BY <1>0, <2>3 DEF H!LoadIdentity, H!WriteIdentity, H!RenameIdentity, H!LoadClients
  <2>4. CASE H!WriteLock(p) \/ H!RenameLock(p)
    BY <1>0, <2>4 DEF H!WriteLock, H!RenameLock
  <2>5. ASSUME NEW c \in Phones, H!Pair(p, c) PROVE Goal
    <3>1. key[p] # 0 /\ trusted' \subseteq H!Procs
      BY <1>0, <2>5 DEF H!Pair, Keyed
    <3> QED BY <1>0, <2>5, <3>1 DEF H!Pair
  <2>6. CASE H!Stop(p) \/ H!Exit(p) \/ H!Quit(p) \/ H!Kill(p) \/ H!Offer(p)
    BY <1>0, <2>6 DEF H!Stop, H!Exit, H!Quit, H!Kill, H!Offer
  <2> QED BY <1>1, <2>1, <2>2, <2>3, <2>4, <2>5, <2>6
<1> QED
  BY <1>2, <1>3, <1>4

\* Every step keeps the other parts.
LEMMA HomeKeeps ==
  ASSUME H!HomeBounds, HomeHeld, H!Next
  PROVE  (Keyed /\ Alone /\ Locked /\ Knows /\ Makes /\ Identified)'
<1> DEFINE Kept == Keyed /\ Alone /\ Locked /\ Knows /\ Makes /\ Identified
<1> USE DEF H!HomeBounds, H!Procs, HomeTyped, H!files, H!procs, H!history, H!Goto, Runs, Keyed, Alone, Locked,
            Knows, Makes, Identified
<1>0. HomeTyped /\ Kept /\ HomeTyped'
  BY HomeTypes DEF HomeHeld
<1>1. PICK p \in H!Procs :
        \/ \E k \in {"app", "up", "pair"} : H!Launch(p, k)
        \/ H!ResolveHome(p) \/ H!MoveHome(p) \/ H!CheckLock(p)
        \/ H!LoadIdentity(p) \/ H!WriteIdentity(p) \/ H!RenameIdentity(p) \/ H!LoadClients(p)
        \/ H!WriteLock(p) \/ H!RenameLock(p)
        \/ \E c \in Phones : H!Pair(p, c)
        \/ H!Stop(p) \/ H!Exit(p) \/ H!Quit(p) \/ H!Kill(p) \/ H!Offer(p)
  BY DEF H!Next
<1>2. ASSUME NEW k \in {"app", "up", "pair"}, H!Launch(p, k) PROVE Kept'
  BY <1>0, <1>2 DEF H!Launch
<1>3. CASE H!ResolveHome(p)
  BY <1>0, <1>3 DEF H!ResolveHome, H!AfterHome
<1>4. CASE H!MoveHome(p)
  BY <1>0, <1>4 DEF H!MoveHome, H!AfterHome
<1>5. CASE H!CheckLock(p)
  BY <1>0, <1>5 DEF H!CheckLock
<1>6. CASE H!LoadIdentity(p)
  <2>1. Keyed'
    BY <1>0, <1>6 DEF H!LoadIdentity, H!AfterIdentity
  <2>2. Alone'
    BY <1>0, <1>6 DEF H!LoadIdentity, H!AfterIdentity
  <2>3. Locked'
    BY <1>0, <1>6 DEF H!LoadIdentity, H!AfterIdentity
  <2>4. Knows'
    BY <1>0, <1>6 DEF H!LoadIdentity, H!AfterIdentity
  <2>5. Makes'
    BY <1>0, <1>6 DEF H!LoadIdentity, H!AfterIdentity
  <2>6. Identified'
    BY <1>0, <1>6 DEF H!LoadIdentity, H!AfterIdentity
  <2> QED BY <2>1, <2>2, <2>3, <2>4, <2>5, <2>6
<1>7. CASE H!WriteIdentity(p)
  <2>1. Keyed'
    BY <1>0, <1>7 DEF H!WriteIdentity
  <2>2. Alone'
    BY <1>0, <1>7 DEF H!WriteIdentity
  <2>3. Locked'
    BY <1>0, <1>7 DEF H!WriteIdentity
  <2>4. Knows'
    BY <1>0, <1>7 DEF H!WriteIdentity
  <2>5. Makes'
    BY <1>0, <1>7 DEF H!WriteIdentity
  <2>6. Identified'
    <3>1. SUFFICES ASSUME ~crossed' PROVE Identified'
      OBVIOUS
    <3>2. /\ ~crossed /\ \A q \in H!Procs \ {p} : phase[q] \notin {"keyTmp", "key"} /\ identity = 0
      BY <1>0, <1>7, <3>1 DEF H!WriteIdentity
    <3>3. identity = 0
      <4>1. identity # p /\ identity \in H!Procs \cup {0}
        BY <1>0, <1>7 DEF H!WriteIdentity
      <4> QED BY <3>2, <4>1
    <3>4. /\ identityTmp' = p /\ key' = key /\ key[p] = p /\ identity' = identity /\ trusted' = trusted
          /\ phase' = [phase EXCEPT ![p] = "key"]
      BY <1>0, <1>7 DEF H!WriteIdentity
    <3> QED BY <1>0, <3>2, <3>3, <3>4
  <2> QED BY <2>1, <2>2, <2>3, <2>4, <2>5, <2>6
<1>8. CASE H!RenameIdentity(p)
  <2>1. Keyed'
    BY <1>0, <1>8 DEF H!RenameIdentity, H!AfterIdentity
  <2>2. Alone'
    BY <1>0, <1>8 DEF H!RenameIdentity, H!AfterIdentity
  <2>3. Locked'
    BY <1>0, <1>8 DEF H!RenameIdentity, H!AfterIdentity
  <2>4. Knows'
    BY <1>0, <1>8 DEF H!RenameIdentity, H!AfterIdentity
  <2>5. Makes'
    BY <1>0, <1>8 DEF H!RenameIdentity, H!AfterIdentity
  <2>6. Identified'
    BY <1>0, <1>8 DEF H!RenameIdentity, H!AfterIdentity
  <2> QED BY <2>1, <2>2, <2>3, <2>4, <2>5, <2>6
<1>9. CASE H!LoadClients(p)
  <2>1. Keyed'
    BY <1>0, <1>9 DEF H!LoadClients, H!Meets, H!Serves, H!Starts
  <2>2. Alone'
    BY <1>0, <1>9, ZenonT(20) DEF H!LoadClients, H!Meets, H!Serves, H!Starts
  <2>3. Locked'
    BY <1>0, <1>9 DEF H!LoadClients, H!Meets, H!Serves, H!Starts
  <2>4. Knows'
    BY <1>0, <1>9 DEF H!LoadClients, H!Meets, H!Serves, H!Starts
  <2>5. Makes'
    BY <1>0, <1>9 DEF H!LoadClients, H!Meets, H!Serves, H!Starts
  <2>6. Identified'
    BY <1>0, <1>9 DEF H!LoadClients, H!Meets, H!Serves, H!Starts
  <2> QED BY <2>1, <2>2, <2>3, <2>4, <2>5, <2>6
<1>10. CASE H!WriteLock(p)
  BY <1>0, <1>10 DEF H!WriteLock, H!Meets, H!Serves, H!Starts
<1>11. CASE H!RenameLock(p)
  <2>1. Keyed'
    BY <1>0, <1>11 DEF H!RenameLock
  <2>2. Alone'
    BY <1>0, <1>11 DEF H!RenameLock
  <2>3. Locked'
    BY <1>0, <1>11 DEF H!RenameLock
  <2>4. Knows'
    BY <1>0, <1>11 DEF H!RenameLock
  <2>5. Makes'
    BY <1>0, <1>11 DEF H!RenameLock
  <2>6. Identified'
    BY <1>0, <1>11 DEF H!RenameLock
  <2> QED BY <2>1, <2>2, <2>3, <2>4, <2>5, <2>6
<1>12. ASSUME NEW c \in Phones, H!Pair(p, c) PROVE Kept'
  BY <1>0, <1>12 DEF H!Pair
<1>13. CASE H!Stop(p)
  BY <1>0, <1>13 DEF H!Stop
<1>14. CASE H!Exit(p)
  BY <1>0, <1>14 DEF H!Exit
<1>15. CASE H!Quit(p)
  BY <1>0, <1>15 DEF H!Quit
<1>16. CASE H!Kill(p)
  BY <1>0, <1>16 DEF H!Kill, H!Alive
<1>17. CASE H!Offer(p)
  BY <1>0, <1>17 DEF H!Offer
<1> QED
  BY <1>1, <1>2, <1>3, <1>4, <1>5, <1>6, <1>7, <1>8, <1>9, <1>10, <1>11, <1>12, <1>13, <1>14,
     <1>15, <1>16, <1>17

-----------------------------------------------------------------------------
(* The pickers: their steps *)

LEMMA ModelInit == M!ModelChoiceBounds /\ M!Init => Picked
<1> SUFFICES ASSUME M!ModelChoiceBounds, M!Init PROVE Picked
  OBVIOUS
<1> USE DEF M!ModelChoiceBounds, M!Init
<1>1. ModelTyped
  <2>1. <<>> \in Seq(Models)
    BY EmptySeq
  <2>2. bus \in [M!Clients -> Seq(Models)] /\ pick \in [M!Clients -> Models \cup {None}]
    BY <2>1
  <2>3. onScreen \in [M!Clients -> BOOLEAN] /\ passed \in [M!Clients -> BOOLEAN]
    OBVIOUS
  <2> QED BY <2>2, <2>3 DEF ModelTyped
<1>2. Follows /\ PickLeads /\ PassedBy
  BY DEF Follows, PickLeads, PassedBy
<1> QED
  BY <1>1, <1>2 DEF Picked

\* A request that is turned is another request.
LEMMA Turned ==
  ASSUME NEW s \in M!Sends, NEW at \in {"out", "done", "failed"}
  PROVE  /\ [s EXCEPT !.at = at] \in M!Sends
         /\ [s EXCEPT !.at = at].at = at
         /\ [s EXCEPT !.at = at].by = s.by /\ [s EXCEPT !.at = at].to = s.to
BY DEF M!Sends

LEMMA Unowned ==
  ASSUME NEW s \in M!Sends
  PROVE  /\ [s EXCEPT !.by = None] \in M!Sends
         /\ [s EXCEPT !.by = None].by = None
BY DEF M!Sends

\* Every step keeps the invariant.
LEMMA ModelStep ==
  ASSUME M!ModelChoiceBounds, Picked, M!Next
  PROVE  Picked'
<1> USE DEF M!clientVars, M!ModelChoiceBounds
<1>0. ModelTyped /\ Follows /\ PickLeads /\ PassedBy
  BY DEF Picked
<1>1. CASE M!Confirm
  <2> USE DEF M!Confirm
  <2>1. ModelTyped'
    BY <1>0, <1>1 DEF ModelTyped, M!Clients
  <2>2. Follows'
    BY <1>0, <1>1 DEF Follows
  <2>3. PickLeads'
    BY <1>0, <1>1 DEF PickLeads, ModelTyped
  <2>4. PassedBy'
    BY <1>0, <1>1 DEF PassedBy, ModelTyped
  <2> QED BY <2>1, <2>2, <2>3, <2>4 DEF Picked
<1>2. ASSUME NEW c \in M!Clients, M!Fold(c) PROVE Picked'
  <2> USE DEF M!Fold
  <2>0. /\ bus[c] \in Seq(Models) /\ bus[c] # <<>>
        /\ Tail(bus[c]) \in Seq(Models) /\ Head(bus[c]) \in Models
        /\ Elements(bus[c]) \subseteq Elements(Tail(bus[c])) \cup {Head(bus[c])}
        /\ LastOf(bus[c]) = IF Tail(bus[c]) = <<>> THEN Head(bus[c]) ELSE LastOf(Tail(bus[c]))
    BY <1>0, <1>2, TailElements DEF ModelTyped
  <2> DEFINE rest == Tail(bus[c])
             first == Head(bus[c])
  <2>9. bus' = [bus EXCEPT ![c] = rest] /\ row' = [row EXCEPT ![c] = first]
    BY <1>2
  <2>8. passed' = [passed EXCEPT ![c] = pick[c] \notin {None, first} /\ (passed[c] \/ row[c] = pick[c])]
    BY <1>0, <1>2 DEF ModelTyped
  <2>10. UNCHANGED <<model, pick, onScreen, sends>>
    BY <1>2
  <2>11. rest \in Seq(Models) /\ first \in Models /\ Elements(bus[c]) \subseteq Elements(rest) \cup {first}
         /\ LastOf(bus[c]) = IF rest = <<>> THEN first ELSE LastOf(rest)
    BY <2>0
  <2> HIDE DEF rest, first, M!Fold
  <2>1. ModelTyped'
    <3>1. passed' \in [M!Clients -> BOOLEAN]
      BY <1>0, <2>8 DEF ModelTyped
    <3>2. row' \in [M!Clients -> Models]
      BY <1>0, <2>9, <2>11 DEF ModelTyped
    <3>3. bus' \in [M!Clients -> Seq(Models)]
      BY <1>0, <2>9, <2>11 DEF ModelTyped
    <3>4. switches' = switches
      BY <1>2 DEF M!Fold
    <3> QED BY <1>0, <2>10, <3>1, <3>2, <3>3, <3>4 DEF ModelTyped
  <2>2. Follows'
    BY <1>0, <2>0, <2>9, <2>10, <2>11 DEF Follows, ModelTyped
  <2>3. PickLeads'
    <3> SUFFICES ASSUME NEW d \in M!Clients, pick'[d] # None, ~passed'[d]
                 PROVE  \/ row'[d] = pick'[d]
                        \/ pick'[d] \in Elements(bus'[d])
                        \/ \E s \in sends' : s.by = d /\ s.to = pick'[d] /\ s.at \in {"out", "failed"}
      BY DEF PickLeads
    <3>1. CASE d # c
      BY <1>0, <2>8, <2>9, <2>10, <3>1 DEF PickLeads, ModelTyped
    <3>2. CASE d = c /\ pick[c] # first
      <4>1. ~passed[c] /\ row[c] # pick[c]
        BY <1>0, <2>8, <2>10, <3>2 DEF ModelTyped
      <4>2. pick[c] \in Elements(bus[c]) \/ \E s \in sends : s.by = c /\ s.to = pick[c] /\ s.at \in {"out", "failed"}
        BY <1>0, <2>10, <3>2, <4>1 DEF PickLeads
      <4>3. bus'[c] = rest
        BY <1>0, <2>9 DEF ModelTyped
      <4> QED BY <2>10, <2>11, <3>2, <4>2, <4>3
    <3>3. CASE d = c /\ pick[c] = first
      BY <1>0, <2>9, <2>10, <3>3 DEF ModelTyped
    <3> QED BY <3>1, <3>2, <3>3
  <2>4. PassedBy'
    BY <1>0, <2>8, <2>9, <2>10 DEF PassedBy, ModelTyped
  <2> QED BY <2>1, <2>2, <2>3, <2>4 DEF Picked
<1>3. ASSUME NEW c \in M!Clients, M!Leave(c) PROVE Picked'
  <2> USE DEF M!Leave
  <2>1. ModelTyped'
    <3>1. \A s \in sends : s \in M!Sends /\ [s EXCEPT !.by = None] \in M!Sends
      BY <1>0, Unowned DEF ModelTyped
    <3>2. sends' \subseteq M!Sends
      BY <1>0, <1>3, <3>1 DEF ModelTyped
    <3> QED BY <1>0, <1>3, <3>2 DEF ModelTyped
  <2>2. Follows'
    BY <1>0, <1>3 DEF Follows
  <2>3. PickLeads'
    <3>1. CASE c # "desktop"
      BY <1>0, <1>3, <3>1 DEF PickLeads
    <3>2. CASE c = "desktop"
      <4> SUFFICES ASSUME NEW d \in M!Clients, pick'[d] # None, ~passed'[d]
                   PROVE  \/ row'[d] = pick'[d]
                          \/ pick'[d] \in Elements(bus'[d])
                          \/ \E s \in sends' : s.by = d /\ s.to = pick'[d] /\ s.at \in {"out", "failed"}
        BY DEF PickLeads
      <4>1. d # c /\ pick'[d] = pick[d] /\ ~passed[d]
        BY <1>0, <1>3, <3>2 DEF ModelTyped
      <4>2. ASSUME NEW s \in sends, s.by = d PROVE s \in sends'
        BY <1>3, <3>2, <4>1, <4>2
      <4> QED BY <1>0, <1>3, <4>1, <4>2 DEF PickLeads
    <3> QED BY <3>1, <3>2
  <2>4. PassedBy'
    BY <1>0, <1>3 DEF PassedBy, ModelTyped
  <2> QED BY <2>1, <2>2, <2>3, <2>4 DEF Picked
<1>4. ASSUME NEW c \in M!Clients, M!Enter(c) PROVE Picked'
  BY <1>0, <1>4 DEF M!Enter, Picked, ModelTyped, Follows, PickLeads, PassedBy
<1>5. ASSUME NEW c \in M!Clients, M!Reread(c) PROVE Picked'
  <2> USE DEF M!Reread
  <2>1. ModelTyped'
    <3>1. <<>> \in Seq(Models)
      BY EmptySeq
    <3>2. passed' \in [M!Clients -> BOOLEAN]
      BY <1>0, <1>5 DEF ModelTyped
    <3> QED BY <1>0, <1>5, <3>1, <3>2 DEF ModelTyped
  <2>2. Follows'
    BY <1>0, <1>5 DEF Follows, ModelTyped
  <2>3. PickLeads'
    BY <1>0, <1>5, ZenonT(20) DEF PickLeads, ModelTyped
  <2>4. PassedBy'
    BY <1>0, <1>5 DEF PassedBy, ModelTyped
  <2> QED BY <2>1, <2>2, <2>3, <2>4 DEF Picked
<1>6. ASSUME NEW c \in M!Clients, NEW m \in Models, M!Switch(c, m) PROVE Picked'
  <2> USE DEF M!Switch
  <2> DEFINE new == [id |-> switches', by |-> c, to |-> m, was |-> pick[c], at |-> "out"]
  <2>1. ModelTyped'
    <3>0. switches' \in Nat /\ switches' \in 1 .. MaxSwitches
      BY <1>0, <1>6 DEF ModelTyped
    <3>1. new \in M!Sends
      BY <1>0, <3>0 DEF ModelTyped, M!Sends
    <3>2. sends' \subseteq M!Sends
      BY <1>0, <1>6, <3>1 DEF ModelTyped
    <3> QED BY <1>0, <1>6, <3>0, <3>2 DEF ModelTyped
  <2>2. Follows'
    BY <1>0, <1>6 DEF Follows
  <2>3. PickLeads'
    <3>1. new \in sends' /\ new.by = c /\ new.to = m /\ new.at = "out" /\ sends \subseteq sends'
      BY <1>6
    <3>2. pick' = [pick EXCEPT ![c] = m] /\ passed' = [passed EXCEPT ![c] = FALSE] /\ UNCHANGED <<bus, row>>
      BY <1>6
    <3> HIDE DEF new, M!Switch
    <3> QED BY <1>0, <3>1, <3>2 DEF PickLeads, ModelTyped
  <2>4. PassedBy'
    BY <1>0, <1>6 DEF PassedBy, ModelTyped
  <2> QED BY <2>1, <2>2, <2>3, <2>4 DEF Picked
<1>7. ASSUME NEW s \in sends, M!Answer(s) PROVE Picked'
  <2> USE DEF M!Answer
  <2>0. s \in M!Sends /\ s.by \in M!Clients \cup {None} /\ s.was \in Models \cup {None}
    BY <1>0 DEF ModelTyped, M!Sends
  <2>1. ModelTyped'
    <3>1. passed' \in [M!Clients -> BOOLEAN] /\ pick' \in [M!Clients -> Models \cup {None}]
      BY <1>0, <1>7, <2>0 DEF ModelTyped
    <3> QED BY <1>0, <1>7, <3>1 DEF ModelTyped
  <2>2. Follows'
    BY <1>0, <1>7 DEF Follows
  <2>3. PickLeads'
    <3> SUFFICES ASSUME NEW d \in M!Clients, pick'[d] # None, ~passed'[d]
                 PROVE  \/ row'[d] = pick'[d]
                        \/ pick'[d] \in Elements(bus'[d])
                        \/ \E z \in sends' : z.by = d /\ z.to = pick'[d] /\ z.at \in {"out", "failed"}
      BY DEF PickLeads
    <3>1. CASE s.at = "failed" /\ s.by = d
      <4>1. pick'[d] = s.was /\ passed'[d] = (s.was \notin {None, row[d]}) /\ row' = row
        BY <1>0, <1>7, <2>0, <3>1 DEF ModelTyped
      <4> QED BY <4>1
    <3>2. CASE ~(s.at = "failed" /\ s.by = d)
      <4>1. pick'[d] = pick[d] /\ ~passed[d] /\ row' = row /\ bus' = bus
        BY <1>0, <1>7, <2>0, <3>2 DEF ModelTyped
      <4>2. ASSUME NEW z \in sends, z.by = d, z.at \in {"out", "failed"} PROVE z \in sends'
        BY <1>7, <3>2, <4>2
      <4> QED BY <1>0, <4>1, <4>2 DEF PickLeads
    <3> QED BY <3>1, <3>2
  <2>4. PassedBy'
    BY <1>0, <1>7, <2>0 DEF PassedBy, ModelTyped
  <2> QED BY <2>1, <2>2, <2>3, <2>4 DEF Picked
<1>8. ASSUME NEW s \in sends, M!Handle(s) PROVE Picked'
  <2> USE DEF M!Handle
  <2>0. s \in M!Sends /\ s.to \in Models
    BY <1>0 DEF ModelTyped, M!Sends
  <2>9. \A c \in M!Clients : /\ bus'[c] \in Seq(Models) /\ bus'[c] # <<>> /\ LastOf(bus'[c]) = s.to
                             /\ Elements(bus'[c]) = Elements(bus[c]) \cup {s.to}
    BY <1>0, <1>8, <2>0, AppendElements DEF ModelTyped
  <2>1. ModelTyped'
    <3>1. bus' \in [M!Clients -> Seq(Models)]
      BY <1>8, <2>9
    <3>2. sends' \subseteq M!Sends
      <4>1. [s EXCEPT !.at = "done"] \in M!Sends /\ [s EXCEPT !.at = "failed"] \in M!Sends
        BY <2>0, Turned
      <4> QED BY <1>0, <1>8, <4>1 DEF M!Turn, ModelTyped
    <3> QED BY <1>0, <1>8, <2>0, <3>1, <3>2 DEF ModelTyped
  <2>2. Follows'
    BY <1>8, <2>9 DEF Follows
  <2>3. PickLeads'
    <3>1. \A z \in sends : z \in sends' \/ z = s
      BY <1>8 DEF M!Turn
    <3>2. UNCHANGED <<pick, passed, row>>
      BY <1>8
    <3> SUFFICES ASSUME NEW d \in M!Clients, pick[d] # None, ~passed[d]
                 PROVE  \/ row[d] = pick[d]
                        \/ pick[d] \in Elements(bus'[d])
                        \/ \E z \in sends' : z.by = d /\ z.to = pick[d] /\ z.at \in {"out", "failed"}
      BY <3>2 DEF PickLeads
    <3> HIDE DEF M!Handle
    <3>3. CASE row[d] = pick[d] \/ pick[d] \in Elements(bus[d])
      BY <2>9, <3>3
    <3>4. ASSUME NEW z \in sends, z.by = d, z.to = pick[d], z.at \in {"out", "failed"}
          PROVE  pick[d] \in Elements(bus'[d]) \/ z \in sends'
      BY <2>9, <3>1, <3>4
    <3> QED BY <1>0, <3>3, <3>4 DEF PickLeads
  <2>4. PassedBy'
    BY <1>0, <1>8 DEF PassedBy
  <2> QED BY <2>1, <2>2, <2>3, <2>4 DEF Picked
<1>9. ASSUME NEW s \in sends, M!Refuse(s) PROVE Picked'
  <2> USE DEF M!Refuse, M!Turn
  <2>0. s \in M!Sends
    BY <1>0 DEF ModelTyped
  <2>1. ModelTyped'
    BY <1>0, <1>9, <2>0, Turned DEF ModelTyped
  <2>2. Follows'
    BY <1>0, <1>9 DEF Follows
  <2>3. PickLeads'
    <3> DEFINE lost == [s EXCEPT !.at = "failed"]
    <3>1. \A z \in sends : z \in sends' \/ z = s
      BY <1>9
    <3>2. lost \in sends' /\ lost.by = s.by /\ lost.to = s.to /\ lost.at = "failed"
      BY <1>9, <2>0, Turned
    <3>3. UNCHANGED <<pick, passed, row, bus>>
      BY <1>9
    <3> HIDE DEF lost, M!Refuse
    <3> QED BY <1>0, <3>1, <3>2, <3>3 DEF PickLeads
  <2>4. PassedBy'
    BY <1>0, <1>9 DEF PassedBy
  <2> QED BY <2>1, <2>2, <2>3, <2>4 DEF Picked
<1> QED
  BY <1>1, <1>2, <1>3, <1>4, <1>5, <1>6, <1>7, <1>8, <1>9 DEF M!Next

-----------------------------------------------------------------------------
(* The forwarded ports: the inductive invariant *)

ForwardTyped ==
  /\ active \in BOOLEAN /\ watched \in BOOLEAN /\ overtaken \in BOOLEAN
  /\ effect \in F!Effects \cup {0} /\ born \in F!Effects \cup {0} /\ effect \in {0, born}
  /\ wanted \in [F!Effects -> SUBSET Ports] /\ open \in [F!Effects -> SUBSET Ports]
  /\ release \in [F!Effects -> F!Follows \cup {0}]
  /\ queued \in [F!Effects -> Nat] /\ job \in [F!Effects -> F!Jobs]
  /\ follow \in [F!Follows -> [of : F!Effects \cup {0}, at : {"none", "sub", "get", "done"}]]
  /\ calls \in 0 .. MaxFollows /\ callback \in {0, calls}
  /\ shown \in [ports : SUBSET Ports, listening : SUBSET Ports, failed : SUBSET Ports]
  /\ bound \in [Ports -> F!Effects \cup {0}]
  /\ toDaemon \in Seq(F!Frames) /\ toPhone \in Seq(F!Frames)
  /\ asked \subseteq 1 .. calls /\ ports \subseteq Ports

At(f) == follow[f].at
HasFrame(queue, type, f) == \E x \in Elements(queue) : x.type = type /\ x.of = f

\* A follow waits for its subscription, or for the list.
Subscribing(f) == HasFrame(toDaemon, "subscribe", f) \/ HasFrame(toPhone, "subscribed", f)
Listing(f) == HasFrame(toDaemon, "get", f) \/ f \in asked \/ HasFrame(toPhone, "ports", f)

\* What is on its way is of a follow that was made.
Framed ==
  /\ \A x \in Elements(toDaemon) : /\ x.type \in {"subscribe", "unsubscribe", "get"}
                                   /\ x.type # "unsubscribe" => x.of \in 1 .. calls
  /\ \A x \in Elements(toPhone) : /\ x.type \in {"subscribed", "ports", "push"}
                                  /\ x.type # "push" => x.of \in 1 .. calls

\* Nothing is on its way without a link; in the foreground there is a follow, and only
\* there is it held.
Linked ==
  /\ effect = 0 => toDaemon = <<>> /\ toPhone = <<>> /\ asked = {} /\ callback = 0 /\ ~watched
  /\ active /\ effect # 0 => callback # 0
  /\ \A e \in F!Effects : release[e] # 0 => e = effect /\ active

\* A follow waits for an answer as long as one is to come; the older ones come first.
Asking ==
  /\ \A f \in F!Follows : At(f) = "none" <=> f \notin 1 .. calls
  /\ \A f \in F!Follows : At(f) = "sub" <=> Subscribing(f)
  /\ \A f \in F!Follows : At(f) = "get" => Listing(f)
  /\ \A f \in F!Follows : Listing(f) => At(f) \in {"get", "done"}
  /\ \A f \in F!Follows : At(f) = "sub" => At(calls) = "sub"
InTurns ==
  /\ Ascending(toDaemon, "subscribe") /\ Ascending(toPhone, "subscribed")
  /\ \A x \in Elements(toPhone), y \in Elements(toDaemon) :
       x.type = "subscribed" /\ y.type = "subscribe" => x.of < y.of

\* Once the daemon has read its frames, it watches the ports while the phone has a callback;
\* and the phone holds its release.
Subscribes(queue) == \E x \in Elements(queue) : x.type \in {"subscribe", "unsubscribe"}
Intended ==
  /\ callback # 0 => EndsIn(toDaemon, "unsubscribe", "subscribe")
  /\ callback = 0 => EndsIn(toDaemon, "subscribe", "unsubscribe")
  /\ ~Subscribes(toDaemon) => (watched <=> callback # 0)
  /\ callback # 0 => At(callback) = "sub" \/ release[effect] = callback

\* The last list that the phone was sent is the daemon's.
ListTypes == {"ports", "push"}
Got == At(calls) = "done" \/ HasFrame(toPhone, "ports", calls)
Fresh ==
  active /\ effect # 0 /\ Got =>
    /\ (\A x \in Elements(toPhone) : x.type \notin ListTypes) => wanted[effect] = ports
    /\ \A x \in Finals(toPhone, ListTypes) : x.list = ports

Wires == Framed /\ Linked /\ Asking /\ InTurns /\ Intended

\* An effect is after the list it last heard, while it is alive and in the foreground;
\* a list is due to a follow that was just made.
Due(e) == e = effect /\ active /\ At(calls) \in {"sub", "get"}
Desired(e) == IF e = effect /\ active THEN wanted[e] ELSE {}

Held ==
  /\ \A e \in F!Effects, p \in Ports : p \in open[e] <=> bound[p] = e
  /\ \A e \in F!Effects : e > born => open[e] = {} /\ queued[e] = 0 /\ job[e] = F!NoJob

\* How far a job has come.
Staged == \A e \in F!Effects :
  /\ job[e].failed \subseteq clashed \cup job[e].todo
  /\ job[e].stage = "rejected" => e \in broken
  /\ job[e].stage \in {"idle", "rejected"} => job[e].failed = {}
  /\ job[e].stage = "closing" => job[e].todo = open[e] \ job[e].target /\ job[e].failed = {}
  /\ job[e].stage = "key" =>
       open[e] \subseteq job[e].target /\ job[e].todo = job[e].target \ open[e]
  /\ job[e].stage = "opening" =>
       /\ open[e] \subseteq job[e].target
       /\ job[e].todo \subseteq job[e].target \ open[e]
       /\ job[e].target \ (open[e] \cup job[e].todo) \subseteq clashed

\* The last job of a chain is after what the effect is after.
Aimed == \A e \in F!Effects : queued[e] = 0 /\ ~Due(e) =>
  /\ job[e].stage = "idle" => open[e] \subseteq Desired(e) /\ Desired(e) \ open[e] \subseteq clashed
  /\ job[e].stage \in {"closing", "key", "opening"} => job[e].target = Desired(e)

\* What is shown is what the last report said.
Shows ==
  /\ ~overtaken /\ broken = {} =>
       (\E e \in F!Effects : ~F!Rests(e)) \/ shown.listening = F!Listening
  /\ \A e \in F!Effects : job[e].stage # "opening" => shown.failed \cap open[e] \subseteq clashed

Jobs == Held /\ Staged /\ Aimed /\ Shows

Forwarded == ForwardTyped /\ Wires /\ Fresh /\ Jobs

-----------------------------------------------------------------------------
(* The forwarded ports: their frames *)

LEMMA AppendFrame ==
  ASSUME NEW queue \in Seq(F!Frames), NEW x \in F!Frames
  PROVE  \A type, f : HasFrame(Append(queue, x), type, f)
                        <=> HasFrame(queue, type, f) \/ (x.type = type /\ x.of = f)
<1>1. Elements(Append(queue, x)) = Elements(queue) \cup {x}
  BY AppendElements
<1> QED
  BY <1>1 DEF HasFrame

LEMMA TailFrame ==
  ASSUME NEW queue \in Seq(F!Frames), queue # <<>>
  PROVE  \A type, f : HasFrame(queue, type, f)
                        <=> HasFrame(Tail(queue), type, f) \/ (Head(queue).type = type /\ Head(queue).of = f)
<1>1. Elements(queue) = Elements(Tail(queue)) \cup {Head(queue)}
  BY TailElements
<1> QED
  BY <1>1 DEF HasFrame

\* A frame that the phone or the daemon sends.
LEMMA FrameTyped ==
  ASSUME NEW type \in {"subscribe", "unsubscribe", "get", "subscribed", "ports", "push"},
         NEW f \in F!Follows \cup {0}, NEW list \in SUBSET Ports
  PROVE  /\ F!Frame(type, f, list) \in F!Frames
         /\ F!Frame(type, f, list).type = type /\ F!Frame(type, f, list).of = f
         /\ F!Frame(type, f, list).list = list
  BY DEF F!Frame, F!Frames

LEMMA FrameSent ==
  ASSUME NEW type \in {"subscribe", "unsubscribe", "get", "subscribed", "ports", "push"},
         NEW f \in F!Follows \cup {0}, NEW list \in SUBSET Ports, NEW queue \in Seq(F!Frames)
  PROVE  Append(queue, F!Frame(type, f, list)) \in Seq(F!Frames)
  BY FrameTyped, AppendElements

-----------------------------------------------------------------------------
(* The forwarded ports: their steps *)

LEMMA ForwardInit == F!ForwardingBounds /\ F!Init => Forwarded
<1> SUFFICES ASSUME F!ForwardingBounds, F!Init PROVE Forwarded
  OBVIOUS
<1> USE DEF F!ForwardingBounds, F!Init, F!Effects, F!Follows
<1>1. ForwardTyped
  <2>1. job \in [F!Effects -> F!Jobs]
    BY DEF F!NoJob, F!Jobs
  <2>2. /\ toDaemon \in Seq(F!Frames) /\ toPhone \in Seq(F!Frames)
        /\ asked \subseteq 1 .. calls /\ calls \in 0 .. MaxFollows
    BY EmptySeq
  <2>3. shown \in [ports : SUBSET Ports, listening : SUBSET Ports, failed : SUBSET Ports]
    OBVIOUS
  <2> QED BY <2>1, <2>2, <2>3 DEF ForwardTyped
<1>2. Wires
  BY EmptyElements, EmptyOrder
     DEF Wires, Framed, Linked, Asking, InTurns, Intended, At, HasFrame, Subscribing, Listing, Subscribes
<1>3. Fresh
  BY DEF Fresh
<1>4. Held
  BY DEF Held
<1>5. Staged /\ Aimed
  BY DEF Staged, Aimed, F!NoJob, Due, Desired
<1>6. Shows
  BY DEF Shows, F!Listening
<1> QED
  BY <1>1, <1>2, <1>3, <1>4, <1>5, <1>6 DEF Forwarded, Jobs

\* The first frame of a queue, and what it says.
LEMMA HeadTyped ==
  ASSUME F!ForwardingBounds, ForwardTyped, Framed
  PROVE  /\ toPhone # <<>> => /\ Tail(toPhone) \in Seq(F!Frames) /\ Head(toPhone) \in F!Frames
                              /\ Head(toPhone).type # "push" =>
                                   Head(toPhone).of \in 1 .. calls /\ Head(toPhone).of \in F!Follows
         /\ toDaemon # <<>> => /\ Tail(toDaemon) \in Seq(F!Frames) /\ Head(toDaemon) \in F!Frames
                               /\ Head(toDaemon).type # "unsubscribe" => Head(toDaemon).of \in 1 .. calls
         /\ toPhone # <<>> => Head(toPhone).list \in SUBSET Ports
<1>1. toPhone \in Seq(F!Frames) /\ toDaemon \in Seq(F!Frames)
  BY DEF ForwardTyped
<1>2. toPhone # <<>> => Tail(toPhone) \in Seq(F!Frames) /\ Head(toPhone) \in F!Frames /\ Head(toPhone) \in Elements(toPhone)
  BY <1>1, TailElements
<1>3. toDaemon # <<>> => Tail(toDaemon) \in Seq(F!Frames) /\ Head(toDaemon) \in F!Frames /\ Head(toDaemon) \in Elements(toDaemon)
  BY <1>1, TailElements
<1>4. 1 .. calls \subseteq F!Follows
  BY DEF ForwardTyped, F!Follows, F!ForwardingBounds
<1> QED
  BY <1>2, <1>3, <1>4 DEF Framed, F!Frames

\* A link that closes ends a finite number of follows.
LEMMA EndedFew ==
  ASSUME F!ForwardingBounds
  PROVE  F!Cardinality(F!Ended) \in Nat
<1>1. IsFiniteSet(1 .. MaxFollows)
  BY FS_Interval DEF F!ForwardingBounds
<1>2. IsFiniteSet(F!Ended)
  BY <1>1, FS_Subset DEF F!Ended, F!Follows
<1>3. \A S : F!Cardinality(S) = Cardinality(S)
  BY Zenon DEF F!Cardinality, Cardinality
<1> QED
  BY <1>2, <1>3, FS_CardinalityType

LEMMA CloseTypes ==
  ASSUME F!ForwardingBounds, ForwardTyped, F!Close, effect # 0
  PROVE  /\ queued' \in [F!Effects -> Nat] /\ release' \in [F!Effects -> F!Follows \cup {0}]
         /\ queued'[effect] > 0 /\ \A d \in F!Effects : d # effect => queued'[d] = queued[d]
<1> DEFINE n == F!Cardinality(F!Ended)
<1>1. n \in Nat /\ effect \in F!Effects /\ queued[effect] \in Nat
  BY EndedFew DEF ForwardTyped
<1>2. queued' = [queued EXCEPT ![effect] = queued[effect] + 1 + n] /\ release' = [release EXCEPT ![effect] = 0]
  BY DEF F!Close
<1> HIDE DEF n
<1> QED
  BY <1>1, <1>2 DEF ForwardTyped

\* A follow that is called keeps the types.
LEMMA CallTypes ==
  ASSUME F!ForwardingBounds, ForwardTyped, NEW d \in F!Effects, F!Call(d)
  PROVE  /\ follow' \in [F!Follows -> [of : F!Effects \cup {0}, at : {"none", "sub", "get", "done"}]]
         /\ calls' \in 0 .. MaxFollows /\ callback' = calls' /\ calls' = calls + 1
         /\ toDaemon' \in Seq(F!Frames)
<1>1. calls' = calls + 1 /\ calls + 1 \in F!Follows /\ calls' \in 0 .. MaxFollows /\ callback' = calls'
  BY DEF F!Call, ForwardTyped, F!Follows, F!ForwardingBounds
<1>2. follow' \in [F!Follows -> [of : F!Effects \cup {0}, at : {"none", "sub", "get", "done"}]]
  BY <1>1 DEF F!Call, ForwardTyped
<1>3. toDaemon' \in Seq(F!Frames)
  BY <1>1, FrameTyped, AppendElements DEF F!Call, ForwardTyped
<1> QED
  BY <1>1, <1>2, <1>3

\* So does the end of one.
LEMMA UnsubscribeTypes ==
  ASSUME ForwardTyped, NEW f \in F!Follows \cup {0}, F!Unsubscribe(f)
  PROVE  callback' \in {0, calls} /\ toDaemon' \in Seq(F!Frames)
<1>1. Append(toDaemon, F!Frame("unsubscribe", 0, {})) \in Seq(F!Frames)
  BY FrameSent DEF ForwardTyped
<1> QED
  BY <1>1 DEF F!Unsubscribe, ForwardTyped

\* What is shown stays a list of ports each.
LEMMA ShownTyped ==
  ASSUME ForwardTyped, NEW list \in SUBSET Ports, NEW other \in SUBSET Ports
  PROVE  /\ [shown EXCEPT !.ports = list] \in [ports : SUBSET Ports, listening : SUBSET Ports, failed : SUBSET Ports]
         /\ [shown EXCEPT !.listening = list, !.failed = other]
              \in [ports : SUBSET Ports, listening : SUBSET Ports, failed : SUBSET Ports]
  BY DEF ForwardTyped

LEMMA HeardTypes ==
  ASSUME ForwardTyped, effect # 0, NEW list \in SUBSET Ports, F!Heard(list)
  PROVE  /\ wanted' \in [F!Effects -> SUBSET Ports] /\ queued' \in [F!Effects -> Nat]
         /\ shown' \in [ports : SUBSET Ports, listening : SUBSET Ports, failed : SUBSET Ports]
         /\ queued'[effect] > 0 /\ \A d \in F!Effects : d # effect => queued'[d] = queued[d]
<1>1. wanted' = [wanted EXCEPT ![effect] = list] /\ queued' = [queued EXCEPT ![effect] = @ + 1]
  BY DEF F!Heard, F!Reconcile
<1>2. effect \in F!Effects /\ wanted \in [F!Effects -> SUBSET Ports] /\ queued \in [F!Effects -> Nat]
  BY DEF ForwardTyped
<1>3. shown' \in [ports : SUBSET Ports, listening : SUBSET Ports, failed : SUBSET Ports]
  BY ShownTyped DEF F!Heard
<1> QED
  BY <1>1, <1>2, <1>3

\* What the phone does of itself.
LEMMA PhoneTypes ==
  ASSUME F!ForwardingBounds, ForwardTyped,
         F!Online \/ F!Offline \/ F!Replace \/ F!Background \/ F!Foreground
  PROVE  ForwardTyped'
<1> USE DEF ForwardTyped, F!effectVars, F!followVars, F!daemonVars, F!historyVars
<1>1. CASE F!Online
  <2>1. born + 1 \in F!Effects /\ born' = born + 1 /\ effect' = born'
    BY <1>1 DEF F!Online, F!Effects, F!ForwardingBounds
  <2>2. wanted' \in [F!Effects -> SUBSET Ports]
    BY <1>1, <2>1 DEF F!Online
  <2>3. /\ follow' \in [F!Follows -> [of : F!Effects \cup {0}, at : {"none", "sub", "get", "done"}]]
        /\ calls' \in 0 .. MaxFollows /\ callback' \in {0, calls'} /\ calls' \in {calls, calls + 1}
        /\ toDaemon' \in Seq(F!Frames)
    BY <1>1, <2>1, CallTypes DEF F!Online
  <2>4. asked' \subseteq 1 .. calls'
    BY <1>1, <2>3 DEF F!Online
  <2> QED BY <1>1, <2>1, <2>2, <2>3, <2>4 DEF F!Online
<1>2. CASE F!Offline
  <2>1. queued' \in [F!Effects -> Nat] /\ release' \in [F!Effects -> F!Follows \cup {0}]
    BY <1>2, CloseTypes DEF F!Offline
  <2>2. follow' \in [F!Follows -> [of : F!Effects \cup {0}, at : {"none", "sub", "get", "done"}]]
    BY <1>2 DEF F!Offline
  <2>3. toDaemon' \in Seq(F!Frames) /\ toPhone' \in Seq(F!Frames) /\ asked' = {}
    BY <1>2, EmptySeq DEF F!Offline, F!Close
  <2> QED BY <1>2, <2>1, <2>2, <2>3 DEF F!Offline, F!Close
<1>3. CASE F!Replace
  <2>1. /\ born + 1 \in F!Effects /\ born' = born + 1 /\ effect' = born'
        /\ calls + 1 \in F!Follows /\ calls' \in 0 .. MaxFollows /\ callback' \in {0, calls'}
    BY <1>3 DEF F!Replace, F!Effects, F!Follows, F!ForwardingBounds
  <2>2. queued' \in [F!Effects -> Nat] /\ release' \in [F!Effects -> F!Follows \cup {0}]
    BY <1>3, CloseTypes DEF F!Replace
  <2>3. follow' \in [F!Follows -> [of : F!Effects \cup {0}, at : {"none", "sub", "get", "done"}]]
    BY <1>3, <2>1 DEF F!Replace
  <2>4. wanted' \in [F!Effects -> SUBSET Ports]
    BY <1>3, <2>1 DEF F!Replace
  <2>5. <<F!Frame("subscribe", calls + 1, {})>> \in Seq(F!Frames)
    BY <2>1, FrameTyped
  <2>6. toDaemon' \in Seq(F!Frames) /\ toPhone' \in Seq(F!Frames) /\ asked' = {} /\ watched' = FALSE
    BY <1>3, <2>5, EmptySeq DEF F!Replace, F!Close
  <2> QED BY <1>3, <2>1, <2>2, <2>3, <2>4, <2>6 DEF F!Replace
<1>4. CASE F!Background
  <2>1. effect # 0 => /\ effect \in F!Effects /\ F!Unsubscribe(release[effect])
                      /\ release[effect] \in F!Follows \cup {0}
    BY <1>4 DEF F!Background
  <2>2. callback' \in {0, calls} /\ toDaemon' \in Seq(F!Frames)
    BY <1>4, <2>1, UnsubscribeTypes DEF F!Background
  <2>3. queued' \in [F!Effects -> Nat] /\ release' \in [F!Effects -> F!Follows \cup {0}]
    BY <1>4, <2>1 DEF F!Background, F!Reconcile
  <2> QED BY <1>4, <2>2, <2>3 DEF F!Background
<1>5. CASE F!Foreground
  <2>1. /\ follow' \in [F!Follows -> [of : F!Effects \cup {0}, at : {"none", "sub", "get", "done"}]]
        /\ calls' \in 0 .. MaxFollows /\ callback' \in {0, calls'} /\ calls' \in {calls, calls + 1}
        /\ toDaemon' \in Seq(F!Frames)
    BY <1>5, CallTypes DEF F!Foreground
  <2>2. asked' \subseteq 1 .. calls'
    BY <1>5, <2>1 DEF F!Foreground
  <2> QED BY <1>5, <2>1, <2>2 DEF F!Foreground
<1> QED
  BY <1>1, <1>2, <1>3, <1>4, <1>5

\* A follow that comes further.
LEMMA FollowTyped ==
  ASSUME ForwardTyped, NEW f \in F!Follows, NEW at \in {"none", "sub", "get", "done"}
  PROVE  [follow EXCEPT ![f].at = at]
           \in [F!Follows -> [of : F!Effects \cup {0}, at : {"none", "sub", "get", "done"}]]
  BY DEF ForwardTyped

\* The frames it is sent, and the daemon's steps.
LEMMA WireTypes ==
  ASSUME F!ForwardingBounds, ForwardTyped, Framed, Linked,
         F!Subscribed \/ F!Listed \/ F!Pushed \/ F!Handle \/ (\E f \in F!Follows : F!Answer(f)) \/ F!PortsChange
  PROVE  ForwardTyped'
<1> USE DEF ForwardTyped, F!effectVars, F!followVars, F!daemonVars, F!historyVars
<1>0. toPhone # <<>> => effect \in F!Effects
  BY DEF Linked
<1>1. CASE F!Subscribed
  <2> DEFINE f == Head(toPhone).of
  <2>1. /\ toPhone # <<>> /\ f \in 1 .. calls /\ f \in F!Follows /\ effect \in F!Effects
        /\ toPhone' \in Seq(F!Frames)
    <3>1. toPhone # <<>> /\ toPhone' = Tail(toPhone) /\ Head(toPhone).type = "subscribed"
      BY <1>1 DEF F!Subscribed, F!Next1, F!Take
    <3> QED BY <1>0, <3>1, HeadTyped
  <2> HIDE DEF f
  <2>2. CASE active
    <3>1. /\ release' = [release EXCEPT ![effect] = f] /\ follow' = [follow EXCEPT ![f].at = "get"]
          /\ toDaemon' = Append(toDaemon, F!Frame("get", f, {})) /\ callback' = callback
      BY <1>1, <2>2 DEF F!Subscribed, f
    <3>2. toDaemon' \in Seq(F!Frames)
      BY <2>1, <3>1, FrameTyped, AppendElements
    <3>3. /\ release' \in [F!Effects -> F!Follows \cup {0}]
          /\ follow' \in [F!Follows -> [of : F!Effects \cup {0}, at : {"none", "sub", "get", "done"}]]
      BY <2>1, <3>1, FollowTyped
    <3> QED BY <1>1, <2>1, <3>1, <3>2, <3>3 DEF F!Subscribed
  <2>3. CASE ~active
    <3>1. release' = release /\ follow' = [follow EXCEPT ![f].at = "done"] /\ F!Unsubscribe(f)
      BY <1>1, <2>3 DEF F!Subscribed, f
    <3>2. callback' \in {0, calls} /\ toDaemon' \in Seq(F!Frames)
      BY <2>1, <3>1, UnsubscribeTypes
    <3>3. follow' \in [F!Follows -> [of : F!Effects \cup {0}, at : {"none", "sub", "get", "done"}]]
      BY <2>1, <3>1, FollowTyped
    <3> QED BY <1>1, <2>1, <3>1, <3>2, <3>3 DEF F!Subscribed
  <2> QED BY <2>2, <2>3
<1>2. CASE F!Listed
  <2>1. /\ toPhone # <<>> /\ Head(toPhone).of \in F!Follows /\ effect \in F!Effects
        /\ toPhone' \in Seq(F!Frames) /\ Head(toPhone).list \in SUBSET Ports
    <3>1. toPhone # <<>> /\ toPhone' = Tail(toPhone) /\ Head(toPhone).type = "ports"
      BY <1>2 DEF F!Listed, F!Next1, F!Take
    <3> QED BY <1>0, <3>1, HeadTyped
  <2>2. /\ wanted' \in [F!Effects -> SUBSET Ports] /\ queued' \in [F!Effects -> Nat]
        /\ shown' \in [ports : SUBSET Ports, listening : SUBSET Ports, failed : SUBSET Ports]
    <3> DEFINE list == Head(toPhone).list
    <3>1. F!Heard(list) /\ list \in SUBSET Ports /\ effect # 0
      BY <1>2, <2>1 DEF F!Listed, F!Effects
    <3> HIDE DEF list
    <3> QED BY <3>1, HeardTypes
  <2>3. follow' \in [F!Follows -> [of : F!Effects \cup {0}, at : {"none", "sub", "get", "done"}]]
    BY <1>2, <2>1, FollowTyped DEF F!Listed
  <2> QED BY <1>2, <2>1, <2>2, <2>3 DEF F!Listed
<1>3. CASE F!Pushed
  <2>1. /\ toPhone # <<>> /\ effect \in F!Effects
        /\ toPhone' \in Seq(F!Frames) /\ Head(toPhone).list \in SUBSET Ports
    BY <1>0, <1>3, HeadTyped DEF F!Pushed, F!Next1, F!Take
  <2>2. /\ wanted' \in [F!Effects -> SUBSET Ports] /\ queued' \in [F!Effects -> Nat]
        /\ shown' \in [ports : SUBSET Ports, listening : SUBSET Ports, failed : SUBSET Ports]
    <3> DEFINE list == Head(toPhone).list
    <3>1. list \in SUBSET Ports /\ effect # 0 /\ (F!Heard(list) \/ UNCHANGED <<wanted, shown, queued>>)
      BY <1>3, <2>1 DEF F!Pushed, F!Effects
    <3> HIDE DEF list
    <3>2. CASE F!Heard(list)
      BY <3>1, <3>2, HeardTypes
    <3> QED BY <3>1, <3>2
  <2> QED BY <1>3, <2>1, <2>2 DEF F!Pushed
<1>4. CASE F!Handle
  <2>1. /\ toDaemon # <<>> /\ toDaemon' \in Seq(F!Frames) /\ Head(toDaemon) \in F!Frames
        /\ Head(toDaemon).type # "unsubscribe" => Head(toDaemon).of \in 1 .. calls
        /\ Head(toDaemon).of \in F!Follows \cup {0}
    BY <1>4, HeadTyped DEF F!Handle, F!Frames
  <2>2. toPhone' \in Seq(F!Frames) /\ asked' \subseteq 1 .. calls /\ watched' \in BOOLEAN
    <3>1. Append(toPhone, F!Frame("subscribed", Head(toDaemon).of, {})) \in Seq(F!Frames)
      BY <2>1, FrameSent
    <3> QED BY <1>4, <2>1, <3>1 DEF F!Handle, F!Send
  <2> QED BY <1>4, <2>1, <2>2 DEF F!Handle
<1>5. ASSUME NEW f \in F!Follows, F!Answer(f) PROVE ForwardTyped'
  <2>1. toPhone' \in Seq(F!Frames)
    BY <1>5, FrameTyped, AppendElements DEF F!Answer, F!Send
  <2> QED BY <1>5, <2>1 DEF F!Answer
<1>6. CASE F!PortsChange
  <2>1. ports' \subseteq Ports
    BY <1>6 DEF F!PortsChange
  <2>2. toPhone' \in Seq(F!Frames)
    <3>1. Append(toPhone, F!Frame("push", 0, ports')) \in Seq(F!Frames)
      BY <2>1, FrameSent
    <3> QED BY <1>6, <3>1 DEF F!PortsChange, F!Send
  <2> QED BY <1>6, <2>1, <2>2 DEF F!PortsChange
<1> QED
  BY <1>1, <1>2, <1>3, <1>4, <1>5, <1>6

\* A step of a reconcile.
LEMMA JobTypes ==
  ASSUME F!ForwardingBounds, ForwardTyped, NEW e \in F!Effects, F!JobStep(e)
  PROVE  ForwardTyped'
<1> USE DEF ForwardTyped, F!effectVars, F!followVars, F!daemonVars, F!historyVars, F!SetJob
<1>0. /\ job[e] \in F!Jobs /\ F!NoJob \in F!Jobs
      /\ \A k \in F!Jobs : job' = [job EXCEPT ![e] = k] => job' \in [F!Effects -> F!Jobs]
  BY DEF F!NoJob, F!Jobs
<1>1. CASE F!JobStarts(e)
  <2>1. queued' \in [F!Effects -> Nat]
    BY <1>1 DEF F!JobStarts
  <2>2. job' \in [F!Effects -> F!Jobs]
    BY <1>0, <1>1 DEF F!JobStarts, F!Jobs
  <2> QED BY <1>1, <2>1, <2>2 DEF F!JobStarts
<1>2. ASSUME NEW p \in Ports, F!CloseOne(e, p) PROVE ForwardTyped'
  <2>1. job' \in [F!Effects -> F!Jobs]
    BY <1>0, <1>2 DEF F!CloseOne, F!Jobs
  <2>2. open' \in [F!Effects -> SUBSET Ports] /\ bound' \in [Ports -> F!Effects \cup {0}]
    BY <1>2 DEF F!CloseOne
  <2> QED BY <1>2, <2>1, <2>2 DEF F!CloseOne
<1>3. CASE F!Closed(e)
  <2>1. overtaken' \in BOOLEAN
    BY <1>3 DEF F!Closed, F!Report
  <2>2. job' \in [F!Effects -> F!Jobs]
    BY <1>0, <1>3 DEF F!Closed, F!Report, F!Jobs
  <2>3. shown' \in [ports : SUBSET Ports, listening : SUBSET Ports, failed : SUBSET Ports]
    <3> DEFINE left == shown.failed \cap job[e].target
    <3>1. shown' = shown \/ shown' = [shown EXCEPT !.listening = open[e], !.failed = left]
      BY <1>3 DEF F!Closed, F!Report
    <3>2. left \in SUBSET Ports /\ open[e] \in SUBSET Ports
      OBVIOUS
    <3> HIDE DEF left
    <3>3. [shown EXCEPT !.listening = open[e], !.failed = left]
             \in [ports : SUBSET Ports, listening : SUBSET Ports, failed : SUBSET Ports]
      BY <3>2, ShownTyped
    <3> QED BY <3>1, <3>3
  <2> QED BY <1>3, <2>1, <2>2, <2>3 DEF F!Closed
<1>4. CASE F!KeyRead(e)
  <2>1. job' \in [F!Effects -> F!Jobs]
    BY <1>0, <1>4 DEF F!KeyRead, F!Jobs
  <2> QED BY <1>4, <2>1 DEF F!KeyRead
<1>5. CASE F!KeyFailed(e)
  <2>1. job' \in [F!Effects -> F!Jobs]
    BY <1>0, <1>5 DEF F!KeyFailed, F!Jobs
  <2> QED BY <1>5, <2>1 DEF F!KeyFailed
<1>6. ASSUME NEW p \in Ports, F!OpenOne(e, p) PROVE ForwardTyped'
  <2>1. job' \in [F!Effects -> F!Jobs]
    <3>1. /\ [job[e] EXCEPT !.todo = @ \ {p}, !.failed = @ \ {p}] \in F!Jobs
          /\ [job[e] EXCEPT !.todo = @ \ {p}, !.failed = @ \cup {p}] \in F!Jobs
      BY <1>0 DEF F!Jobs
    <3> QED BY <1>0, <1>6, <3>1 DEF F!OpenOne
  <2>2. open' \in [F!Effects -> SUBSET Ports] /\ bound' \in [Ports -> F!Effects \cup {0}]
    <3>1. \/ open' = open /\ bound' = bound
          \/ /\ open' = [open EXCEPT ![e] = @ \cup {p}]
             /\ bound' = [bound EXCEPT ![p] = e]
      BY <1>6 DEF F!OpenOne
    <3>2. [open EXCEPT ![e] = @ \cup {p}] \in [F!Effects -> SUBSET Ports]
      OBVIOUS
    <3> QED BY <3>1, <3>2
  <2> QED BY <1>6, <2>1, <2>2 DEF F!OpenOne
<1>7. CASE F!Opened(e)
  <2>1. overtaken' \in BOOLEAN
    BY <1>7 DEF F!Opened, F!Report
  <2>2. job' \in [F!Effects -> F!Jobs]
    BY <1>0, <1>7 DEF F!Opened, F!Report
  <2>3. shown' \in [ports : SUBSET Ports, listening : SUBSET Ports, failed : SUBSET Ports]
    BY <1>0, <1>7 DEF F!Opened, F!Report, F!Jobs
  <2> QED BY <1>7, <2>1, <2>2, <2>3 DEF F!Opened
<1> QED
  BY <1>1, <1>2, <1>3, <1>4, <1>5, <1>6, <1>7 DEF F!JobStep

-----------------------------------------------------------------------------
(* The forwarded ports: what is on its way *)

\* A follow that is called is the newest, and the daemon will hear of it last.
LEMMA CallWires ==
  ASSUME F!ForwardingBounds, ForwardTyped, Wires, NEW d \in F!Effects, F!Call(d), UNCHANGED <<toPhone, asked>>
  PROVE  /\ Framed' /\ Asking' /\ InTurns'
         /\ EndsIn(toDaemon', "unsubscribe", "subscribe") /\ Subscribes(toDaemon')
         /\ callback' # 0 /\ At(callback)' = "sub" /\ At(calls)' = "sub"
<1> DEFINE x == F!Frame("subscribe", calls + 1, {})
<1>1. /\ calls \in Nat /\ calls' = calls + 1 /\ calls + 1 \in F!Follows /\ callback' = calls + 1
      /\ follow' = [follow EXCEPT ![calls + 1] = [of |-> d, at |-> "sub"]]
      /\ toDaemon' = Append(toDaemon, x)
  BY DEF F!Call, ForwardTyped, F!Follows, F!ForwardingBounds
<1>2. /\ x \in F!Frames /\ x.type = "subscribe" /\ x.of = calls + 1
      /\ toDaemon \in Seq(F!Frames) /\ toPhone \in Seq(F!Frames)
  BY <1>1, FrameTyped DEF ForwardTyped
<1> HIDE DEF x
<1>3. Elements(toDaemon') = Elements(toDaemon) \cup {x} /\ toPhone' = toPhone /\ asked' = asked
  BY <1>1, <1>2, AppendElements
<1>4. /\ follow'[calls + 1].at = "sub"
      /\ \A f \in F!Follows : f # calls + 1 => At(f)' = At(f)
  BY <1>1 DEF At, ForwardTyped
<1>5. /\ \A f \in F!Follows : Subscribing(f)' <=> Subscribing(f) \/ f = calls + 1
      /\ \A f \in F!Follows : Listing(f)' <=> Listing(f)
  BY <1>2, <1>3 DEF Subscribing, Listing, HasFrame
<1>6. At(calls + 1) = "none"
  BY <1>1 DEF Wires, Asking
<1>7. Framed'
  BY <1>1, <1>2, <1>3 DEF Wires, Framed
<1>8. Asking'
  <2>1. ASSUME NEW f \in F!Follows PROVE At(f)' = "none" <=> f \notin 1 .. calls'
    <3>1. At(f) = "none" <=> f \notin 1 .. calls
      BY <2>1 DEF Wires, Asking
    <3> QED BY <1>1, <1>4, <2>1, <3>1 DEF At
  <2>2. ASSUME NEW f \in F!Follows PROVE At(f)' = "sub" <=> Subscribing(f)'
    <3>1. At(f) = "sub" <=> Subscribing(f)
      BY <2>2 DEF Wires, Asking
    <3> QED BY <1>4, <1>5, <2>2, <3>1 DEF At
  <2>3. ASSUME NEW f \in F!Follows
        PROVE  /\ At(f)' = "get" => Listing(f)'
               /\ Listing(f)' => At(f)' \in {"get", "done"}
    <3>1. /\ At(f) = "get" => Listing(f)
          /\ Listing(f) => At(f) \in {"get", "done"}
      BY <2>3 DEF Wires, Asking
    <3> QED BY <1>4, <1>5, <1>6, <2>3, <3>1 DEF At
  <2>4. At(calls)' = "sub"
    BY <1>1, <1>4 DEF At
  <2> QED BY <2>1, <2>2, <2>3, <2>4 DEF Asking
<1>9. InTurns'
  <2>1. \A y \in Elements(toDaemon) : y.type = "subscribe" => y.of < calls + 1
    BY <1>1 DEF Wires, Framed
  <2>2. \A y \in Elements(toPhone) : y.type = "subscribed" => y.of < calls + 1
    BY <1>1 DEF Wires, Framed
  <2>3. Ascending(toDaemon', "subscribe")
    BY <1>1, <1>2, <2>1, AppendAscending DEF Wires, InTurns
  <2> QED BY <1>2, <1>3, <2>2, <2>3 DEF Wires, InTurns
<1>10. EndsIn(toDaemon', "unsubscribe", "subscribe") /\ Subscribes(toDaemon')
  BY <1>1, <1>2, <1>3, AppendEndsIn DEF Subscribes
<1>11. callback' # 0 /\ At(callback)' = "sub" /\ At(calls)' = "sub"
  BY <1>1, <1>4 DEF At
<1> QED
  BY <1>7, <1>8, <1>9, <1>10, <1>11

\* An end that is sent is of no follow.
LEMMA UnsubscribeWires ==
  ASSUME ForwardTyped, Wires, NEW f \in F!Follows \cup {0}, F!Unsubscribe(f)
  PROVE  /\ \A x \in Elements(toDaemon') : x \in Elements(toDaemon) \/ x.type = "unsubscribe"
         /\ Elements(toDaemon) \subseteq Elements(toDaemon') /\ Ascending(toDaemon', "subscribe")
         /\ callback' # 0 => callback' = callback /\ toDaemon' = toDaemon /\ (f = 0 \/ f # callback)
         /\ callback' = 0 => EndsIn(toDaemon', "subscribe", "unsubscribe")
         /\ ~Subscribes(toDaemon') => toDaemon' = toDaemon /\ callback' = callback
<1> DEFINE x == F!Frame("unsubscribe", 0, {})
<1>1. /\ x \in F!Frames /\ x.type = "unsubscribe" /\ toDaemon \in Seq(F!Frames)
  <2>1. x \in F!Frames /\ x.type = "unsubscribe"
    BY DEF F!Frame, F!Frames
  <2> QED BY <2>1 DEF ForwardTyped
<1>2. CASE f # 0 /\ callback = f
  <2>1. callback' = 0 /\ toDaemon' = Append(toDaemon, x)
    BY <1>2 DEF F!Unsubscribe
  <2> HIDE DEF x
  <2>2. Elements(toDaemon') = Elements(toDaemon) \cup {x}
    BY <1>1, <2>1, AppendElements
  <2>3. EndsIn(toDaemon', "subscribe", "unsubscribe")
    BY <1>1, <2>1, AppendEndsIn
  <2>4. Ascending(toDaemon', "subscribe")
    BY <1>1, <2>1, AppendAscending DEF Wires, InTurns
  <2> QED BY <1>1, <2>1, <2>2, <2>3, <2>4 DEF Subscribes
<1>3. CASE ~(f # 0 /\ callback = f)
  <2>1. callback' = callback /\ toDaemon' = toDaemon
    BY <1>3 DEF F!Unsubscribe
  <2> QED BY <1>3, <2>1 DEF Wires, Intended, InTurns
<1> QED
  BY <1>2, <1>3

\* What the phone does of itself.
LEMMA PhoneWires ==
  ASSUME F!ForwardingBounds, ForwardTyped, Wires, Fresh,
         F!Online \/ F!Offline \/ F!Replace \/ F!Background \/ F!Foreground
  PROVE  (Wires /\ Fresh)'
<1> USE DEF F!effectVars, F!followVars, F!daemonVars, F!historyVars
<1>0. Framed /\ Linked /\ Asking /\ InTurns /\ Intended
  BY DEF Wires
<1>1. CASE F!Online
  <2>1. /\ effect' = born + 1 /\ effect' # 0 /\ effect' \in F!Effects /\ release' = release /\ active' = active
        /\ toPhone' = <<>> /\ asked' = {} /\ watched' = FALSE /\ toPhone = <<>> /\ asked = {}
        /\ toDaemon = <<>> /\ callback = 0 /\ ports' = ports
    BY <1>0, <1>1 DEF F!Online, Linked, ForwardTyped, F!Effects, F!ForwardingBounds
  <2>2. \A e \in F!Effects : release'[e] = 0
    BY <1>0, <1>1, <2>1 DEF F!Online, Linked, F!Effects, ForwardTyped
  <2>3. CASE active
    <3>1. F!Call(effect') /\ UNCHANGED <<toPhone, asked>>
      BY <1>1, <2>1, <2>3 DEF F!Online
    <3>2. /\ Framed' /\ Asking' /\ InTurns'
          /\ EndsIn(toDaemon', "unsubscribe", "subscribe") /\ Subscribes(toDaemon')
          /\ callback' # 0 /\ At(callback)' = "sub" /\ At(calls)' = "sub"
      BY <2>1, <3>1, CallWires
    <3>3. Linked' /\ Intended'
      BY <2>1, <2>2, <3>2 DEF Linked, Intended
    <3>4. Fresh'
      BY <2>1, <3>2, EmptyElements DEF Fresh, Got, HasFrame
    <3> QED BY <3>2, <3>3, <3>4 DEF Wires
  <2>4. CASE ~active
    <3>1. UNCHANGED <<toPhone, asked, follow, calls, callback, toDaemon>>
      BY <1>1, <2>1, <2>4 DEF F!Online
    <3>2. Framed' /\ Asking' /\ InTurns'
      BY <1>0, <3>1 DEF Framed, Asking, InTurns, At, Subscribing, Listing, HasFrame
    <3>3. Linked' /\ Intended' /\ Fresh'
      BY <2>1, <2>2, <2>4, <3>1, EmptyOrder DEF Linked, Intended, Fresh
    <3> QED BY <3>2, <3>3 DEF Wires
  <2> QED BY <2>3, <2>4 DEF ForwardTyped
<1>2. CASE F!Offline
  <2>1. /\ effect' = 0 /\ active' = active /\ calls' = calls
        /\ toPhone' = <<>> /\ asked' = {} /\ watched' = FALSE /\ toDaemon' = <<>> /\ callback' = 0
    BY <1>2 DEF F!Offline, F!Close
  <2>2. \A e \in F!Effects : release'[e] = 0
    BY <1>0, <1>2 DEF F!Offline, F!Close, Linked, ForwardTyped
  <2>3. \A f \in F!Follows : At(f)' = IF At(f) \in {"sub", "get"} THEN "done" ELSE At(f)
    BY <1>2 DEF F!Offline, F!Ended, At, ForwardTyped
  <2>4. \A f : ~Subscribing(f)' /\ ~Listing(f)'
    BY <2>1, EmptyElements DEF Subscribing, Listing, HasFrame
  <2>5. Framed' /\ InTurns'
    BY <2>1, EmptyElements, EmptyOrder DEF Framed, InTurns
  <2>6. Asking'
    BY <1>0, <2>1, <2>3, <2>4 DEF Asking
  <2>7. Linked' /\ Intended' /\ Fresh'
    BY <2>1, <2>2, EmptyOrder DEF Linked, Intended, Fresh
  <2> QED BY <2>5, <2>6, <2>7 DEF Wires
<1>3. CASE F!Replace
  <2>1. /\ effect # 0 /\ effect' = born + 1 /\ effect' # 0 /\ effect' \in F!Effects /\ active' = active
        /\ toPhone' = <<>> /\ asked' = {} /\ watched' = FALSE
        /\ calls \in Nat /\ calls + 1 \in F!Follows
    BY <1>3 DEF F!Replace, F!Close, ForwardTyped, F!Effects, F!Follows, F!ForwardingBounds
  <2>2. \A e \in F!Effects : release'[e] = 0
    BY <1>0, <1>3, <2>1 DEF F!Replace, F!Close, Linked, ForwardTyped
  <2>3. At(calls + 1) = "none"
    BY <1>0, <2>1 DEF Asking
  <2>4. \A f \in F!Follows :
          At(f)' = IF At(f) \in {"sub", "get"} THEN "done"
                   ELSE IF active /\ f = calls + 1 THEN "sub" ELSE At(f)
    BY <1>3 DEF F!Replace, F!Ended, At, ForwardTyped
  <2>5. \A f : ~HasFrame(toPhone', "subscribed", f) /\ ~HasFrame(toPhone', "ports", f)
    BY <2>1, EmptyElements DEF HasFrame
  <2>6. CASE active
    <3> DEFINE x == F!Frame("subscribe", calls + 1, {})
    <3>1. x \in F!Frames /\ x.type = "subscribe" /\ x.of = calls + 1
      BY <2>1, FrameTyped
    <3>2. calls' = calls + 1 /\ callback' = calls + 1 /\ toDaemon' = <<x>>
      BY <1>3, <2>6 DEF F!Replace
    <3> HIDE DEF x
    <3>3. Elements(toDaemon') = {x} /\ Len(toDaemon') = 1
      BY <3>2 DEF Elements
    <3>4. Framed' /\ InTurns'
      BY <2>1, <3>1, <3>2, <3>3, EmptyElements, EmptyOrder DEF Framed, InTurns, Ascending
    <3>5. \A f : /\ Subscribing(f)' <=> f = calls + 1
                 /\ ~Listing(f)'
      BY <2>1, <2>5, <3>1, <3>3 DEF Subscribing, Listing, HasFrame
    <3>6. Asking'
      <4>1. ASSUME NEW f \in F!Follows PROVE At(f)' = "none" <=> f \notin 1 .. calls'
        BY <1>0, <2>1, <2>3, <2>4, <2>6, <3>2, <4>1 DEF Asking
      <4>2. ASSUME NEW f \in F!Follows
            PROVE  /\ At(f)' = "sub" <=> Subscribing(f)'
                   /\ At(f)' # "get" /\ ~Listing(f)'
        BY <2>3, <2>4, <2>6, <3>5, <4>2
      <4>3. At(calls)' = "sub"
        BY <2>1, <2>3, <2>4, <2>6, <3>2 DEF At
      <4> QED BY <4>1, <4>2, <4>3 DEF Asking
    <3>7. At(calls)' = "sub" /\ At(callback)' = "sub"
      BY <2>1, <2>3, <2>4, <2>6, <3>2 DEF At
    <3>8. EndsIn(toDaemon', "unsubscribe", "subscribe") /\ Subscribes(toDaemon')
      BY <3>1, <3>2, <3>3 DEF EndsIn, Subscribes
    <3>9. Linked' /\ Intended'
      BY <2>1, <2>2, <2>6, <3>2, <3>7, <3>8 DEF Linked, Intended
    <3>10. Fresh'
      BY <2>5, <3>7 DEF Fresh, Got
    <3> QED BY <3>4, <3>6, <3>9, <3>10 DEF Wires
  <2>7. CASE ~active
    <3>1. calls' = calls /\ callback' = 0 /\ toDaemon' = <<>>
      BY <1>3, <2>7 DEF F!Replace
    <3>2. \A f : ~Subscribing(f)' /\ ~Listing(f)'
      BY <2>1, <2>5, <3>1, EmptyElements DEF Subscribing, Listing, HasFrame
    <3>3. Framed' /\ InTurns'
      BY <2>1, <3>1, EmptyElements, EmptyOrder DEF Framed, InTurns
    <3>4. Asking'
      BY <1>0, <2>4, <2>7, <3>1, <3>2 DEF Asking
    <3>5. Linked' /\ Intended' /\ Fresh'
      BY <2>1, <2>2, <2>7, <3>1, EmptyOrder DEF Linked, Intended, Fresh
    <3> QED BY <3>3, <3>4, <3>5 DEF Wires
  <2> QED BY <2>6, <2>7 DEF ForwardTyped
<1>4. CASE F!Background
  <2>1. /\ active' = FALSE /\ effect' = effect
        /\ UNCHANGED <<toPhone, asked, watched, follow, calls>>
    BY <1>4 DEF F!Background
  <2>2. CASE effect = 0
    <3>1. UNCHANGED <<callback, toDaemon, release>>
      BY <1>4, <2>2 DEF F!Background
    <3>2. \A e \in F!Effects : release[e] = 0
      BY <1>0, <2>2 DEF Linked, F!Effects
    <3>3. Framed' /\ Asking' /\ InTurns' /\ Intended'
      BY <1>0, <2>1, <3>1
         DEF Framed, Asking, InTurns, Intended, At, Subscribing, Listing, HasFrame, Subscribes
    <3>4. Linked' /\ Fresh'
      BY <1>0, <2>1, <2>2, <3>1, <3>2 DEF Linked, Fresh
    <3> QED BY <3>3, <3>4 DEF Wires
  <2>3. CASE effect # 0
    <3>1. /\ effect \in F!Effects /\ release[effect] \in F!Follows \cup {0}
          /\ F!Unsubscribe(release[effect]) /\ release' = [release EXCEPT ![effect] = 0]
      BY <1>4, <2>3 DEF F!Background, ForwardTyped
    <3>2. /\ \A x \in Elements(toDaemon') : x \in Elements(toDaemon) \/ x.type = "unsubscribe"
          /\ Elements(toDaemon) \subseteq Elements(toDaemon') /\ Ascending(toDaemon', "subscribe")
          /\ callback' # 0 => callback' = callback /\ toDaemon' = toDaemon
                              /\ (release[effect] = 0 \/ release[effect] # callback)
          /\ callback' = 0 => EndsIn(toDaemon', "subscribe", "unsubscribe")
          /\ ~Subscribes(toDaemon') => toDaemon' = toDaemon /\ callback' = callback
      BY <3>1, UnsubscribeWires
    <3>3. /\ \A f : Subscribing(f)' <=> Subscribing(f)
          /\ \A f : Listing(f)' <=> Listing(f)
      BY <2>1, <3>2 DEF Subscribing, Listing, HasFrame
    <3>4. Framed'
      BY <1>0, <2>1, <3>2 DEF Framed
    <3>5. Asking'
      BY <1>0, <2>1, <3>3 DEF Asking, At
    <3>6. InTurns'
      BY <1>0, <2>1, <3>2 DEF InTurns
    <3>7. Linked'
      BY <1>0, <2>1, <2>3, <3>1 DEF Linked, ForwardTyped
    <3>8. Intended'
      <4>1. callback' # 0 => EndsIn(toDaemon', "unsubscribe", "subscribe")
        BY <1>0, <3>2 DEF Intended
      <4>2. ~Subscribes(toDaemon') => (watched' <=> callback' # 0)
        BY <1>0, <2>1, <3>2 DEF Intended
      <4>3. callback' # 0 => At(callback)' = "sub"
        BY <1>0, <2>1, <3>2 DEF Intended, At
      <4> QED BY <3>2, <4>1, <4>2, <4>3 DEF Intended
    <3>9. Fresh'
      BY <2>1 DEF Fresh
    <3> QED BY <3>4, <3>5, <3>6, <3>7, <3>8, <3>9 DEF Wires
  <2> QED BY <2>2, <2>3
<1>5. CASE F!Foreground
  <2>1. /\ ~active /\ active' /\ active' \in BOOLEAN /\ effect' = effect
        /\ UNCHANGED <<toPhone, asked, watched, release>>
    BY <1>5 DEF F!Foreground
  <2>2. \A e \in F!Effects : release[e] = 0
    BY <1>0, <2>1 DEF Linked, ForwardTyped
  <2>3. CASE effect = 0
    <3>1. UNCHANGED <<callback, toDaemon, follow, calls>>
      BY <1>5, <2>3 DEF F!Foreground
    <3>2. Framed' /\ Asking' /\ InTurns' /\ Intended'
      BY <1>0, <2>1, <3>1
         DEF Framed, Asking, InTurns, Intended, At, Subscribing, Listing, HasFrame, Subscribes
    <3>3. Linked' /\ Fresh'
      BY <1>0, <2>1, <2>2, <2>3, <3>1 DEF Linked, Fresh
    <3> QED BY <3>2, <3>3 DEF Wires
  <2>4. CASE effect # 0
    <3>1. effect \in F!Effects /\ F!Call(effect)
      BY <1>5, <2>2, <2>4 DEF F!Foreground, ForwardTyped
    <3>2. /\ Framed' /\ Asking' /\ InTurns'
          /\ EndsIn(toDaemon', "unsubscribe", "subscribe") /\ Subscribes(toDaemon')
          /\ callback' # 0 /\ At(callback)' = "sub" /\ At(calls)' = "sub"
      BY <2>1, <3>1, CallWires
    <3>3. Linked' /\ Intended'
      BY <2>1, <2>2, <2>4, <3>2 DEF Linked, Intended
    <3>4. ~HasFrame(toPhone', "ports", calls')
      <4>1. calls \in Nat /\ calls' = calls + 1 /\ toPhone' = toPhone
        BY <2>1, <3>1 DEF F!Call, ForwardTyped
      <4>2. \A x \in Elements(toPhone) : x.type = "ports" => x.of \in 1 .. calls
        BY <1>0 DEF Framed
      <4> QED BY <4>1, <4>2 DEF HasFrame
    <3>5. Fresh'
      BY <3>2, <3>4 DEF Fresh, Got
    <3> QED BY <3>2, <3>3, <3>5 DEF Wires
  <2> QED BY <2>3, <2>4
<1> QED
  BY <1>1, <1>2, <1>3, <1>4, <1>5

\* A subscription that is answered.
LEMMA SubscribedWires ==
  ASSUME F!ForwardingBounds, ForwardTyped, Wires, Fresh, F!Subscribed
  PROVE  (Wires /\ Fresh)'
<1> DEFINE h == Head(toPhone)
           f == h.of
<1>0. Framed /\ Linked /\ Asking /\ InTurns /\ Intended
  BY DEF Wires
<1>1. /\ toPhone # <<>> /\ toPhone' = Tail(toPhone) /\ h.type = "subscribed"
      /\ effect' = effect /\ active' = active
      /\ UNCHANGED <<asked, watched, calls, wanted, ports>>
  BY DEF F!Subscribed, F!Next1, F!Take, F!daemonVars
<1>2. /\ effect \in F!Effects /\ f \in 1 .. calls /\ f \in F!Follows /\ calls \in F!Follows
      /\ toPhone \in Seq(F!Frames) /\ toDaemon \in Seq(F!Frames) /\ calls \in Nat
  <2>1. f \in 1 .. calls /\ f \in F!Follows
    BY <1>0, <1>1, HeadTyped
  <2>2. effect \in F!Effects
    BY <1>0, <1>1 DEF Linked, ForwardTyped
  <2>3. calls \in F!Follows /\ calls \in Nat
    BY <2>1 DEF ForwardTyped, F!Follows, F!ForwardingBounds
  <2> QED BY <2>1, <2>2, <2>3 DEF ForwardTyped
<1>3. /\ Elements(toPhone) = Elements(toPhone') \cup {h} /\ h \in Elements(toPhone)
      /\ Ascending(toPhone', "subscribed")
      /\ \A x \in Elements(toPhone') : x.type = "subscribed" => f < x.of
  BY <1>0, <1>1, <1>2, TailElements, TailAscending DEF InTurns
<1>4. \A y \in Elements(toDaemon) : y.type = "subscribe" => f < y.of
  BY <1>0, <1>1, <1>3 DEF InTurns
<1>5. /\ At(f) = "sub" /\ At(calls) = "sub"
      /\ \A g \in F!Follows : At(g) = "sub" /\ g # f => f # calls
  <2>1. At(f) = "sub"
    BY <1>0, <1>1, <1>2, <1>3 DEF Asking, Subscribing, HasFrame
  <2>2. ASSUME NEW g \in F!Follows, At(g) = "sub", g # f PROVE f # calls
    <3>1. Subscribing(g) /\ g \in 1 .. calls
      BY <1>0, <2>2 DEF Asking
    <3>2. f < g
      BY <1>1, <1>3, <1>4, <2>2, <3>1 DEF Subscribing, HasFrame
    <3> QED BY <1>2, <3>1, <3>2
  <2> QED BY <1>0, <1>2, <2>1, <2>2 DEF Asking
<1>6. ~HasFrame(toPhone', "subscribed", f) /\ ~HasFrame(toDaemon, "subscribe", f)
  BY <1>2, <1>3, <1>4 DEF HasFrame
<1>7. /\ \A g : HasFrame(toPhone', "ports", g) <=> HasFrame(toPhone, "ports", g)
      /\ \A g : g # f => (HasFrame(toPhone', "subscribed", g) <=> HasFrame(toPhone, "subscribed", g))
  BY <1>1, <1>3 DEF HasFrame
<1>8. ~Listing(f) /\ ~Listing(calls)
  BY <1>0, <1>2, <1>5 DEF Asking
<1> HIDE DEF h, f
<1>9. CASE active
  <2> DEFINE x == F!Frame("get", f, {})
  <2>1. /\ toDaemon' = Append(toDaemon, x) /\ callback' = callback
        /\ release' = [release EXCEPT ![effect] = f]
        /\ follow' = [follow EXCEPT ![f].at = "get"]
    BY <1>9 DEF F!Subscribed, h, f
  <2>2. x \in F!Frames /\ x.type = "get" /\ x.of = f
    BY <1>2, FrameTyped
  <2> HIDE DEF x
  <2>3. Elements(toDaemon') = Elements(toDaemon) \cup {x}
    BY <1>2, <2>1, <2>2, AppendElements
  <2>4. /\ follow'[f].at = "get"
        /\ \A g \in F!Follows : g # f => follow'[g].at = At(g)
    BY <1>2, <2>1 DEF At, ForwardTyped
  <2>5. /\ \A g \in F!Follows : g = f => Listing(g)' /\ ~Subscribing(g)'
        /\ \A g \in F!Follows : g # f => (Subscribing(g)' <=> Subscribing(g)) /\ (Listing(g)' <=> Listing(g))
    <3>1. /\ \A g : HasFrame(toDaemon', "subscribe", g) <=> HasFrame(toDaemon, "subscribe", g)
          /\ \A g : HasFrame(toDaemon', "get", g) <=> HasFrame(toDaemon, "get", g) \/ g = f
      BY <2>2, <2>3 DEF HasFrame
    <3> QED BY <1>1, <1>6, <1>7, <3>1 DEF Subscribing, Listing
  <2>6. Framed'
    BY <1>0, <1>1, <1>2, <1>3, <2>2, <2>3 DEF Framed
  <2>7. Asking'
    <3>1. ASSUME NEW g \in F!Follows
          PROVE  /\ At(g)' = "none" <=> g \notin 1 .. calls'
                 /\ At(g)' = "sub" <=> Subscribing(g)'
                 /\ At(g)' = "get" => Listing(g)'
                 /\ Listing(g)' => At(g)' \in {"get", "done"}
                 /\ At(g)' = "sub" => At(calls)' = "sub"
      <4>1. CASE g = f
        <5>1. At(g)' = "get" /\ Listing(g)' /\ ~Subscribing(g)' /\ g \in 1 .. calls'
          BY <1>1, <1>2, <2>4, <2>5, <4>1 DEF At
        <5> QED BY <5>1
      <4>2. CASE g # f
        <5>1. /\ At(g) = "none" <=> g \notin 1 .. calls
              /\ At(g) = "sub" <=> Subscribing(g)
              /\ At(g) = "get" => Listing(g)
              /\ Listing(g) => At(g) \in {"get", "done"}
          BY <1>0, <3>1 DEF Asking
        <5>2. At(g) = "sub" => follow'[calls].at = "sub"
          BY <1>2, <1>5, <2>4, <4>2
        <5>3. At(g)' = At(g)
          BY <2>4, <3>1, <4>2 DEF At
        <5>4. At(calls)' = follow'[calls].at
          BY <1>1 DEF At
        <5>5. (Subscribing(g)' <=> Subscribing(g)) /\ (Listing(g)' <=> Listing(g))
          BY <2>5, <3>1, <4>2
        <5> QED BY <1>1, <5>1, <5>2, <5>3, <5>4, <5>5
      <4> QED BY <4>1, <4>2
    <3> QED BY <3>1 DEF Asking
  <2>8. InTurns'
    <3>1. Ascending(toDaemon', "subscribe")
      BY <1>0, <1>2, <2>1, <2>2, AppendAscending DEF InTurns
    <3> QED BY <1>0, <1>3, <2>2, <2>3, <3>1 DEF InTurns
  <2>9. Linked'
    BY <1>0, <1>1, <1>2, <1>9, <2>1 DEF Linked, ForwardTyped, F!Effects
  <2>10. Intended'
    <3>1. /\ callback' # 0 => EndsIn(toDaemon', "unsubscribe", "subscribe")
          /\ callback' = 0 => EndsIn(toDaemon', "subscribe", "unsubscribe")
      BY <1>0, <1>2, <2>1, <2>2, AppendEndsIn DEF Intended
    <3>2. Subscribes(toDaemon') <=> Subscribes(toDaemon)
      BY <2>2, <2>3 DEF Subscribes
    <3>3. callback' # 0 => follow'[callback'].at = "sub" \/ release'[effect'] = callback'
      <4>1. CASE callback = f
        BY <1>1, <1>2, <2>1, <4>1 DEF ForwardTyped
      <4>2. CASE callback # f
        BY <1>2, <1>5, <2>1, <2>4, <4>2 DEF ForwardTyped
      <4> QED BY <4>1, <4>2
    <3> QED BY <1>0, <1>1, <2>1, <3>1, <3>2, <3>3 DEF Intended, At
  <2>11. Fresh'
    <3>1. follow'[calls].at # "done"
      BY <1>2, <1>5, <2>4
    <3>2. ~HasFrame(toPhone', "ports", calls)
      BY <1>7, <1>8 DEF Listing
    <3> QED BY <1>1, <3>1, <3>2 DEF Fresh, Got, At
  <2> QED BY <2>6, <2>7, <2>8, <2>9, <2>10, <2>11 DEF Wires
<1>10. CASE ~active
  <2>1. /\ F!Unsubscribe(f) /\ release' = release
        /\ follow' = [follow EXCEPT ![f].at = "done"]
    BY <1>10 DEF F!Subscribed, h, f
  <2>2. /\ follow'[f].at = "done"
        /\ \A g \in F!Follows : g # f => follow'[g].at = At(g)
    BY <1>2, <2>1 DEF At, ForwardTyped
  <2>3. /\ \A x \in Elements(toDaemon') : x \in Elements(toDaemon) \/ x.type = "unsubscribe"
        /\ Elements(toDaemon) \subseteq Elements(toDaemon') /\ Ascending(toDaemon', "subscribe")
        /\ callback' # 0 => callback' = callback /\ toDaemon' = toDaemon /\ (f = 0 \/ f # callback)
        /\ callback' = 0 => EndsIn(toDaemon', "subscribe", "unsubscribe")
        /\ ~Subscribes(toDaemon') => toDaemon' = toDaemon /\ callback' = callback
    BY <1>2, <2>1, UnsubscribeWires
  <2>4. /\ \A g \in F!Follows : g = f => ~Subscribing(g)'
        /\ \A g \in F!Follows : g # f => (Subscribing(g)' <=> Subscribing(g))
        /\ \A g \in F!Follows : Listing(g)' <=> Listing(g)
    <3>1. /\ \A g : HasFrame(toDaemon', "subscribe", g) <=> HasFrame(toDaemon, "subscribe", g)
          /\ \A g : HasFrame(toDaemon', "get", g) <=> HasFrame(toDaemon, "get", g)
      BY <2>3 DEF HasFrame
    <3> QED BY <1>1, <1>6, <1>7, <3>1 DEF Subscribing, Listing
  <2>5. Framed'
    BY <1>0, <1>1, <1>3, <2>3 DEF Framed
  <2>6. Asking'
    <3>1. ASSUME NEW g \in F!Follows
          PROVE  /\ At(g)' = "none" <=> g \notin 1 .. calls'
                 /\ At(g)' = "sub" <=> Subscribing(g)'
                 /\ At(g)' = "get" => Listing(g)'
                 /\ Listing(g)' => At(g)' \in {"get", "done"}
                 /\ At(g)' = "sub" => At(calls)' = "sub"
      <4>1. CASE g = f
        <5>1. At(g)' = "done" /\ ~Subscribing(g)' /\ g \in 1 .. calls'
          BY <1>1, <1>2, <2>2, <2>4, <4>1 DEF At
        <5> QED BY <5>1
      <4>2. CASE g # f
        <5>1. /\ At(g) = "none" <=> g \notin 1 .. calls
              /\ At(g) = "sub" <=> Subscribing(g)
              /\ At(g) = "get" => Listing(g)
              /\ Listing(g) => At(g) \in {"get", "done"}
          BY <1>0, <3>1 DEF Asking
        <5>2. At(g) = "sub" => follow'[calls].at = "sub"
          BY <1>2, <1>5, <2>2, <4>2
        <5>3. At(g)' = At(g)
          BY <2>2, <3>1, <4>2 DEF At
        <5>4. At(calls)' = follow'[calls].at
          BY <1>1 DEF At
        <5>5. (Subscribing(g)' <=> Subscribing(g)) /\ (Listing(g)' <=> Listing(g))
          BY <2>4, <3>1, <4>2
        <5> QED BY <1>1, <5>1, <5>2, <5>3, <5>4, <5>5
      <4> QED BY <4>1, <4>2
    <3> QED BY <3>1 DEF Asking
  <2>7. InTurns'
    BY <1>0, <1>3, <2>3 DEF InTurns
  <2>8. Linked'
    BY <1>0, <1>1, <1>2, <1>10, <2>1 DEF Linked, F!Effects
  <2>9. Intended'
    <3>1. callback' # 0 => EndsIn(toDaemon', "unsubscribe", "subscribe")
      BY <1>0, <2>3 DEF Intended
    <3>2. ~Subscribes(toDaemon') => (watched' <=> callback' # 0)
      BY <1>0, <1>1, <2>3 DEF Intended
    <3>3. callback' # 0 => follow'[callback'].at = "sub" \/ release'[effect'] = callback'
      BY <1>0, <1>1, <1>2, <2>1, <2>2, <2>3 DEF Intended, At, ForwardTyped
    <3> QED BY <2>3, <3>1, <3>2, <3>3 DEF Intended, At
  <2>10. Fresh'
    BY <1>1, <1>10 DEF Fresh
  <2> QED BY <2>5, <2>6, <2>7, <2>8, <2>9, <2>10 DEF Wires
<1> QED
  BY <1>9, <1>10 DEF ForwardTyped

\* A list is what the effect wants from then on.
LEMMA HeardFresh ==
  ASSUME ForwardTyped, Linked, Fresh, toPhone # <<>>, toPhone' = Tail(toPhone),
         Head(toPhone).type \in ListTypes, F!Heard(Head(toPhone).list),
         UNCHANGED <<active, effect, ports>>, Got' => Got
  PROVE  Fresh'
<1> DEFINE h == Head(toPhone)
<1>1. /\ toPhone \in Seq(F!Frames) /\ effect \in F!Effects /\ effect' = effect /\ active' = active /\ ports' = ports
      /\ wanted' = [wanted EXCEPT ![effect] = h.list] /\ wanted \in [F!Effects -> SUBSET Ports]
  BY DEF ForwardTyped, Linked, F!Heard
<1>2. /\ Finals(toPhone', ListTypes) \subseteq Finals(toPhone, ListTypes)
      /\ (\A x \in Elements(toPhone') : x.type \notin ListTypes) => h \in Finals(toPhone, ListTypes)
  BY <1>1, TailFinals
<1> HIDE DEF h
<1> SUFFICES ASSUME active, effect # 0, Got
             PROVE  /\ (\A x \in Elements(toPhone') : x.type \notin ListTypes) => wanted'[effect] = ports
                    /\ \A x \in Finals(toPhone', ListTypes) : x.list = ports
  BY <1>1 DEF Fresh
<1>3. \A x \in Finals(toPhone, ListTypes) : x.list = ports
  BY DEF Fresh
<1> QED
  BY <1>1, <1>2, <1>3

LEMMA ListedWires ==
  ASSUME F!ForwardingBounds, ForwardTyped, Wires, Fresh, F!Listed \/ F!Pushed
  PROVE  (Wires /\ Fresh)'
<1> DEFINE h == Head(toPhone)
           f == h.of
<1> USE DEF F!followVars, F!daemonVars
<1>0. Framed /\ Linked /\ Asking /\ InTurns /\ Intended
  BY DEF Wires
<1>1. /\ toPhone # <<>> /\ toPhone' = Tail(toPhone) /\ h.type \in ListTypes
      /\ effect' = effect /\ active' = active
      /\ UNCHANGED <<asked, watched, calls, ports, toDaemon, callback, release>>
  BY DEF F!Listed, F!Pushed, F!Next1, F!Take, ListTypes
<1>2. /\ effect \in F!Effects /\ effect # 0 /\ calls \in Nat
      /\ toPhone \in Seq(F!Frames) /\ toDaemon \in Seq(F!Frames)
  BY <1>0, <1>1 DEF Linked, ForwardTyped
<1>3. /\ Elements(toPhone) = Elements(toPhone') \cup {h} /\ h \in Elements(toPhone)
      /\ Ascending(toPhone', "subscribed")
  BY <1>0, <1>1, <1>2, TailElements, TailAscending DEF InTurns
<1>4. /\ \A g : HasFrame(toPhone', "subscribed", g) <=> HasFrame(toPhone, "subscribed", g)
      /\ \A g : HasFrame(toPhone, "ports", g) <=> HasFrame(toPhone', "ports", g) \/ (h.type = "ports" /\ f = g)
  BY <1>1, <1>3 DEF HasFrame, ListTypes
<1>5. Framed' /\ InTurns' /\ Linked'
  BY <1>0, <1>1, <1>3 DEF Framed, InTurns, Linked
<1>6. CASE F!Listed
  <2>1. /\ h.type = "ports" /\ f \in 1 .. calls /\ f \in F!Follows
        /\ follow' = [follow EXCEPT ![f].at = "done"]
    BY <1>0, <1>2, <1>6, HeadTyped DEF F!Listed, F!Next1, ForwardTyped, F!Follows, F!ForwardingBounds
  <2>2. Listing(f) /\ At(f) # "sub"
    BY <1>0, <1>3, <2>1 DEF Listing, HasFrame, Asking
  <2> HIDE DEF h, f
  <2>3. /\ follow'[f].at = "done"
        /\ \A g \in F!Follows : g # f => follow'[g].at = At(g)
    BY <2>1 DEF At, ForwardTyped
  <2>4. /\ \A g : Subscribing(g)' <=> Subscribing(g)
        /\ \A g : g # f => (Listing(g)' <=> Listing(g))
        /\ \A g : Listing(g)' => Listing(g)
    BY <1>1, <1>4 DEF Subscribing, Listing
  <2>5. Asking'
    <3>1. ASSUME NEW g \in F!Follows
          PROVE  /\ At(g)' = "none" <=> g \notin 1 .. calls'
                 /\ At(g)' = "sub" <=> Subscribing(g)'
                 /\ At(g)' = "get" => Listing(g)'
                 /\ Listing(g)' => At(g)' \in {"get", "done"}
                 /\ At(g)' = "sub" => At(calls)' = "sub"
      <4>1. /\ At(g) = "none" <=> g \notin 1 .. calls
            /\ At(g) = "sub" <=> Subscribing(g)
            /\ At(g) = "get" => Listing(g)
            /\ Listing(g) => At(g) \in {"get", "done"}
            /\ At(g) = "sub" => At(calls) = "sub"
        BY <1>0, <3>1 DEF Asking
      <4>2. CASE g = f
        <5>1. At(g)' = "done" /\ At(g) # "sub" /\ g \in 1 .. calls'
          BY <1>1, <2>1, <2>2, <2>3, <4>2 DEF At
        <5> QED BY <2>4, <4>1, <5>1
      <4>3. CASE g # f
        <5>1. At(g)' = At(g)
          BY <2>3, <3>1, <4>3 DEF At
        <5>2. At(g) = "sub" => calls \in F!Follows /\ At(calls)' = "sub"
          BY <1>1, <1>2, <2>1, <2>2, <2>3, <4>1 DEF At, ForwardTyped, F!Follows, F!ForwardingBounds
        <5>3. (Subscribing(g)' <=> Subscribing(g)) /\ (Listing(g)' <=> Listing(g))
          BY <2>4, <4>3
        <5> QED BY <1>1, <4>1, <5>1, <5>2, <5>3
      <4> QED BY <4>2, <4>3
    <3> QED BY <3>1 DEF Asking
  <2>6. Intended'
    <3>1. callback # 0 /\ At(callback) = "sub" => follow'[callback].at = "sub"
      BY <2>2, <2>3 DEF ForwardTyped, F!Follows
    <3> QED BY <1>0, <1>1, <3>1 DEF Intended, At
  <2>7. Got' => Got
    <3>1. follow'[calls].at = "done" => At(calls) = "done" \/ calls = f
      BY <1>2, <2>1, <2>3 DEF ForwardTyped, F!Follows, F!ForwardingBounds
    <3>2. calls = f => HasFrame(toPhone, "ports", calls)
      BY <1>4, <2>1
    <3> QED BY <1>1, <1>4, <3>1, <3>2 DEF Got, At
  <2>8. Fresh'
    BY <1>0, <1>1, <1>6, <2>7, HeardFresh DEF F!Listed, h
  <2> QED BY <1>5, <2>5, <2>6, <2>8 DEF Wires
<1>7. CASE F!Pushed
  <2>1. h.type = "push" /\ follow' = follow
    BY <1>7 DEF F!Pushed, F!Next1
  <2>2. /\ \A g : Subscribing(g)' <=> Subscribing(g)
        /\ \A g : Listing(g)' <=> Listing(g)
    BY <1>1, <1>4, <2>1 DEF Subscribing, Listing
  <2>3. Asking' /\ Intended'
    BY <1>0, <1>1, <2>1, <2>2 DEF Asking, Intended, At
  <2>4. Fresh'
    <3>1. Got' => Got
      BY <1>1, <1>4, <2>1 DEF Got, At
    <3>2. CASE callback # 0
      BY <1>0, <1>1, <1>7, <3>1, <3>2, HeardFresh DEF F!Pushed
    <3>3. CASE callback = 0
      BY <1>0, <1>1, <1>2, <3>3 DEF Linked, Fresh
    <3> QED BY <3>2, <3>3
  <2> QED BY <1>5, <2>3, <2>4 DEF Wires
<1> QED
  BY <1>6, <1>7

\* While there is something to follow, and no follow waits for its subscription, the daemon
\* tells every change.
LEMMA WatchedIfGot ==
  ASSUME F!ForwardingBounds, ForwardTyped, Wires, active, effect # 0, Got
  PROVE  watched
<1>0. Framed /\ Linked /\ Asking /\ InTurns /\ Intended
  BY DEF Wires
<1>1. callback # 0 /\ callback = calls /\ calls \in F!Follows
  BY <1>0 DEF Linked, ForwardTyped, F!Follows, F!ForwardingBounds
<1>2. At(calls) # "sub"
  BY <1>0, <1>1 DEF Got, Asking, Listing
<1>3. ASSUME NEW x \in Elements(toDaemon), x.type = "subscribe" PROVE FALSE
  <2>1. x.of \in F!Follows /\ Subscribing(x.of)
    BY <1>0, <1>3 DEF Framed, Subscribing, HasFrame, ForwardTyped, F!Follows, F!ForwardingBounds
  <2> QED BY <1>0, <1>2, <2>1 DEF Asking
<1>4. \A x \in Elements(toDaemon) : x.type # "unsubscribe"
  BY <1>0, <1>1, <1>3 DEF Intended, EndsIn, Elements
<1> QED
  BY <1>0, <1>1, <1>3, <1>4 DEF Intended, Subscribes

\* What the daemon does.
LEMMA HandleWires ==
  ASSUME F!ForwardingBounds, ForwardTyped, Wires, Fresh, F!Handle
  PROVE  (Wires /\ Fresh)'
<1> DEFINE h == Head(toDaemon)
<1> USE DEF F!effectVars, F!followVars
<1>0. Framed /\ Linked /\ Asking /\ InTurns /\ Intended
  BY DEF Wires
<1>1. /\ toDaemon # <<>> /\ toDaemon' = Tail(toDaemon)
      /\ effect' = effect /\ active' = active
      /\ UNCHANGED <<calls, ports, callback, release, follow, wanted>>
  BY DEF F!Handle
<1>2. /\ toPhone \in Seq(F!Frames) /\ toDaemon \in Seq(F!Frames) /\ effect # 0 /\ h \in F!Frames
      /\ h.type # "unsubscribe" => h.of \in 1 .. calls /\ h.of \in F!Follows \cup {0}
  BY <1>0, <1>1, HeadTyped DEF Linked, ForwardTyped, F!Frames
<1>3. /\ Elements(toDaemon) = Elements(toDaemon') \cup {h} /\ h \in Elements(toDaemon)
      /\ Ascending(toDaemon', "subscribe")
      /\ h.type = "subscribe" => \A y \in Elements(toDaemon') : y.type = "subscribe" => h.of < y.of
  BY <1>0, <1>1, <1>2, TailElements, TailAscending DEF InTurns
<1>4. /\ callback # 0 => /\ EndsIn(toDaemon', "unsubscribe", "subscribe")
                         /\ h.type = "unsubscribe" => Subscribes(toDaemon')
      /\ callback = 0 => /\ EndsIn(toDaemon', "subscribe", "unsubscribe")
                         /\ h.type = "subscribe" => Subscribes(toDaemon')
  BY <1>0, <1>1, <1>2, TailEndsIn DEF Intended, Subscribes
<1> HIDE DEF h
<1>5. CASE h.type = "subscribe"
  <2> DEFINE x == F!Frame("subscribed", h.of, {})
  <2>1. watched' = TRUE /\ asked' = asked /\ toPhone' = Append(toPhone, x)
    BY <1>5 DEF F!Handle, F!Send, h
  <2>2. x \in F!Frames /\ x.type = "subscribed" /\ x.of = h.of
    BY <1>2, <1>5, FrameTyped
  <2> HIDE DEF x
  <2>3. Elements(toPhone') = Elements(toPhone) \cup {x}
    BY <1>2, <2>1, <2>2, AppendElements
  <2>4. /\ \A g : HasFrame(toDaemon, "subscribe", g) <=> HasFrame(toDaemon', "subscribe", g) \/ g = h.of
        /\ \A g : HasFrame(toPhone', "subscribed", g) <=> HasFrame(toPhone, "subscribed", g) \/ g = h.of
        /\ \A g : HasFrame(toDaemon', "get", g) <=> HasFrame(toDaemon, "get", g)
        /\ \A g : HasFrame(toPhone', "ports", g) <=> HasFrame(toPhone, "ports", g)
    BY <1>3, <1>5, <2>2, <2>3 DEF HasFrame
  <2>5. (\A g : Subscribing(g)' <=> Subscribing(g)) /\ (\A g : Listing(g)' <=> Listing(g))
    BY <2>1, <2>4 DEF Subscribing, Listing
  <2>6. Framed' /\ Linked'
    BY <1>0, <1>1, <1>2, <1>3, <1>5, <2>2, <2>3 DEF Framed, Linked
  <2>7. Asking'
    BY <1>0, <1>1, <2>5 DEF Asking, At
  <2>8. InTurns'
    <3>1. \A y \in Elements(toPhone) : y.type = "subscribed" => y.of < h.of
      BY <1>0, <1>3, <1>5 DEF InTurns
    <3>2. Ascending(toPhone', "subscribed")
      BY <1>0, <1>2, <2>1, <2>2, <3>1, AppendAscending DEF InTurns
    <3> QED BY <1>0, <1>3, <1>5, <2>2, <2>3, <3>2 DEF InTurns
  <2>9. Intended'
    BY <1>0, <1>1, <1>4, <1>5, <2>1 DEF Intended, At
  <2>10. Fresh'
    <3>1. Finals(toPhone', ListTypes) \subseteq Finals(toPhone, ListTypes)
      <4>1. x.type \notin ListTypes
        BY <2>2 DEF ListTypes
      <4> QED BY <1>2, <2>1, <2>2, <4>1, AppendFinals
    <3>2. Got' => Got
      BY <1>1, <2>4 DEF Got, At
    <3> QED BY <1>1, <2>3, <3>1, <3>2 DEF Fresh
  <2> QED BY <2>6, <2>7, <2>8, <2>9, <2>10 DEF Wires
<1>6. CASE h.type = "unsubscribe"
  <2>1. watched' = FALSE /\ asked' = asked /\ toPhone' = toPhone
    BY <1>6 DEF F!Handle, h
  <2>2. /\ \A g : HasFrame(toDaemon, "subscribe", g) <=> HasFrame(toDaemon', "subscribe", g)
        /\ \A g : HasFrame(toDaemon', "get", g) <=> HasFrame(toDaemon, "get", g)
    BY <1>3, <1>6 DEF HasFrame
  <2>3. (\A g : Subscribing(g)' <=> Subscribing(g)) /\ (\A g : Listing(g)' <=> Listing(g))
    BY <2>1, <2>2 DEF Subscribing, Listing
  <2>4. Framed' /\ Linked' /\ InTurns'
    BY <1>0, <1>1, <1>2, <1>3, <2>1 DEF Framed, Linked, InTurns
  <2>5. Asking'
    BY <1>0, <1>1, <2>3 DEF Asking, At
  <2>6. Intended'
    BY <1>0, <1>1, <1>4, <1>6, <2>1 DEF Intended, At
  <2>7. Fresh'
    BY <1>1, <2>1 DEF Fresh, Got, At
  <2> QED BY <2>4, <2>5, <2>6, <2>7 DEF Wires
<1>7. CASE h.type = "get"
  <2>1. asked' = asked \cup {h.of} /\ watched' = watched /\ toPhone' = toPhone
    BY <1>7 DEF F!Handle, h
  <2>2. /\ \A g : HasFrame(toDaemon, "subscribe", g) <=> HasFrame(toDaemon', "subscribe", g)
        /\ \A g : HasFrame(toDaemon, "get", g) <=> HasFrame(toDaemon', "get", g) \/ g = h.of
        /\ Subscribes(toDaemon') <=> Subscribes(toDaemon)
    BY <1>3, <1>7 DEF HasFrame, Subscribes
  <2>3. (\A g : Subscribing(g)' <=> Subscribing(g)) /\ (\A g : Listing(g)' <=> Listing(g))
    BY <2>1, <2>2 DEF Subscribing, Listing
  <2>4. Framed' /\ Linked' /\ InTurns'
    BY <1>0, <1>1, <1>2, <1>3, <2>1 DEF Framed, Linked, InTurns
  <2>5. Asking'
    BY <1>0, <1>1, <2>3 DEF Asking, At
  <2>6. Intended'
    BY <1>0, <1>1, <1>4, <2>1, <2>2 DEF Intended, At
  <2>7. Fresh'
    BY <1>1, <2>1 DEF Fresh, Got, At
  <2> QED BY <2>4, <2>5, <2>6, <2>7 DEF Wires
<1> QED
  BY <1>5, <1>6, <1>7 DEF F!Handle, h

LEMMA TellWires ==
  ASSUME F!ForwardingBounds, ForwardTyped, Wires, Fresh,
         (\E f \in F!Follows : F!Answer(f)) \/ F!PortsChange
  PROVE  (Wires /\ Fresh)'
<1> USE DEF F!effectVars, F!followVars, F!daemonVars
<1>0. Framed /\ Linked /\ Asking /\ InTurns /\ Intended
  BY DEF Wires
<1>1. /\ effect' = effect /\ active' = active
      /\ UNCHANGED <<calls, callback, release, follow, wanted, toDaemon, watched>>
      /\ ports' \subseteq Ports /\ toPhone \in Seq(F!Frames)
  BY DEF F!Answer, F!PortsChange, ForwardTyped
\* What a list is sent to keeps; it is of no follow that waits for its subscription.
<1>2. ASSUME NEW x \in F!Frames, x.type \in ListTypes, x.list = ports', toPhone' = Append(toPhone, x),
             x.type = "ports" => x.of \in 1 .. calls,
             \A g : Listing(g)' <=> Listing(g),
             asked' \subseteq asked, effect # 0
      PROVE  (Wires /\ Fresh)'
  <2>1. Elements(toPhone') = Elements(toPhone) \cup {x}
    BY <1>1, <1>2, AppendElements
  <2>2. \A g : HasFrame(toPhone', "subscribed", g) <=> HasFrame(toPhone, "subscribed", g)
    BY <1>2, <2>1 DEF HasFrame, ListTypes
  <2>3. \A g : Subscribing(g)' <=> Subscribing(g)
    BY <1>1, <2>2 DEF Subscribing
  <2>4. Framed' /\ Linked'
    BY <1>0, <1>1, <1>2, <2>1 DEF Framed, Linked, ListTypes
  <2>5. Asking'
    BY <1>0, <1>1, <1>2, <2>3 DEF Asking, At
  <2>6. InTurns'
    <3>1. Ascending(toPhone', "subscribed")
      BY <1>0, <1>1, <1>2, AppendAscending DEF InTurns, ListTypes
    <3> QED BY <1>0, <1>1, <1>2, <2>1, <3>1 DEF InTurns, ListTypes
  <2>7. Intended'
    BY <1>0, <1>1 DEF Intended, At
  <2>8. Fresh'
    <3>1. Finals(toPhone', ListTypes) \subseteq {x}
      BY <1>1, <1>2, AppendFinals
    <3> QED BY <1>2, <2>1, <3>1 DEF Fresh
  <2> QED BY <2>4, <2>5, <2>6, <2>7, <2>8 DEF Wires
<1>3. ASSUME NEW f \in F!Follows, F!Answer(f) PROVE (Wires /\ Fresh)'
  <2> DEFINE x == F!Frame("ports", f, ports)
  <2>1. f \in asked /\ asked' = asked \ {f} /\ toPhone' = Append(toPhone, x) /\ ports' = ports
    BY <1>3 DEF F!Answer, F!Send
  <2>2. x \in F!Frames /\ x.type = "ports" /\ x.of = f /\ x.list = ports'
    BY <1>1, <1>3, <2>1, FrameTyped
  <2> HIDE DEF x
  <2>3. f \in 1 .. calls /\ effect # 0
    BY <1>0, <2>1 DEF ForwardTyped, Linked
  <2>4. \A g : Listing(g)' <=> Listing(g)
    <3>1. \A g : HasFrame(toPhone', "ports", g) <=> HasFrame(toPhone, "ports", g) \/ g = f
      BY <1>1, <2>1, <2>2, AppendFrame
    <3> QED BY <1>1, <2>1, <3>1 DEF Listing
  <2> QED BY <1>2, <2>1, <2>2, <2>3, <2>4 DEF ListTypes
<1>4. CASE F!PortsChange
  <2>1. asked' = asked
    BY <1>4 DEF F!PortsChange
  <2>2. CASE watched
    <3> DEFINE x == F!Frame("push", 0, ports')
    <3>1. toPhone' = Append(toPhone, x)
      BY <1>4, <2>2 DEF F!PortsChange, F!Send
    <3>2. x \in F!Frames /\ x.type = "push" /\ x.list = ports'
      BY <1>1 DEF F!Frame, F!Frames
    <3> HIDE DEF x
    <3>3. \A g : Listing(g)' <=> Listing(g)
      <4>1. \A g : HasFrame(toPhone', "ports", g) <=> HasFrame(toPhone, "ports", g)
        BY <1>1, <3>1, <3>2, AppendFrame
      <4> QED BY <1>1, <2>1, <4>1 DEF Listing
    <3>4. effect # 0
      BY <1>0, <2>2 DEF Linked
    <3> QED BY <1>2, <2>1, <3>1, <3>2, <3>3, <3>4 DEF ListTypes
  <2>3. CASE ~watched
    <3>1. toPhone' = toPhone
      BY <1>4, <2>3 DEF F!PortsChange
    <3>2. Framed' /\ Linked' /\ Asking' /\ InTurns' /\ Intended'
      BY <1>0, <1>1, <2>1, <3>1
         DEF Framed, Linked, Asking, InTurns, Intended, At, Subscribing, Listing, HasFrame, Subscribes
    <3>3. ~(active /\ effect # 0 /\ Got)
      BY <2>3, WatchedIfGot
    <3>4. Fresh'
      BY <1>1, <3>1, <3>3 DEF Fresh, Got, At
    <3> QED BY <3>2, <3>4 DEF Wires
  <2> QED BY <2>2, <2>3
<1> QED
  BY <1>3, <1>4

-----------------------------------------------------------------------------
(* The forwarded ports: the listeners *)

\* A step that leaves the listeners and the jobs alone: an effect that changes its mind has
\* one more job to come.
LEMMA LeftAlone ==
  ASSUME ForwardTyped, Jobs, UNCHANGED <<open, job, bound, clashed, broken, overtaken>>,
         shown'.listening = shown.listening, shown'.failed = shown.failed,
         born' >= born, born' \in Nat,
         \A e \in F!Effects : /\ queued'[e] \in Nat /\ queued'[e] >= queued[e]
                              /\ queued'[e] > 0 => e <= born',
         \A e \in F!Effects : \/ queued'[e] > 0
                              \/ Due(e)'
                              \/ (Desired(e)' = Desired(e) \/ (e > born /\ Desired(e)' = {})) /\ ~Due(e)
  PROVE  Jobs'
<1>0. Held /\ Staged /\ Aimed /\ Shows
  BY DEF Jobs
<1>1. Held'
  <2>1. born \in Nat /\ \A e \in F!Effects : e > born' => e > born /\ queued'[e] = 0
    BY DEF ForwardTyped, F!Effects
  <2> QED BY <1>0, <2>1 DEF Held
<1>2. Staged'
  BY <1>0 DEF Staged
<1>3. Aimed'
  <2> SUFFICES ASSUME NEW e \in F!Effects, queued'[e] = 0, ~Due(e)'
               PROVE  /\ job[e].stage = "idle" => open[e] \subseteq Desired(e)' /\ Desired(e)' \ open[e] \subseteq clashed
                      /\ job[e].stage \in {"closing", "key", "opening"} => job[e].target = Desired(e)'
    BY DEF Aimed
  <2>1. queued[e] = 0
    BY DEF ForwardTyped
  <2>2. (Desired(e)' = Desired(e) \/ (e > born /\ Desired(e)' = {})) /\ ~Due(e)
    OBVIOUS
  <2>3. CASE Desired(e)' = Desired(e)
    BY <1>0, <2>1, <2>2, <2>3 DEF Aimed
  <2>4. CASE e > born /\ Desired(e)' = {}
    BY <1>0, <2>4 DEF Held, F!NoJob
  <2> QED BY <2>2, <2>3, <2>4
<1>4. Shows'
  <2>1. \A e \in F!Effects : ~F!Rests(e) => ~F!Rests(e)'
    BY DEF F!Rests, ForwardTyped
  <2>2. F!Listening' = F!Listening
    BY DEF F!Listening
  <2> QED BY <1>0, <2>1, <2>2 DEF Shows
<1> QED
  BY <1>1, <1>2, <1>3, <1>4 DEF Jobs

\* No more is due to an effect that is not alive, or while the app is in the background.
LEMMA PhoneJobs ==
  ASSUME F!ForwardingBounds, ForwardTyped, Wires, Jobs,
         F!Online \/ F!Offline \/ F!Replace \/ F!Background \/ F!Foreground
  PROVE  Jobs'
<1> USE DEF F!effectVars, F!followVars, F!daemonVars, F!historyVars
<1>0. /\ Linked /\ born \in Nat /\ active \in BOOLEAN /\ queued \in [F!Effects -> Nat]
      /\ \A e \in F!Effects : queued[e] \in Nat /\ (queued[e] > 0 => e <= born)
  BY DEF Wires, Jobs, Held, ForwardTyped, F!Effects
<1>1. CASE F!Online
  <2>1. /\ UNCHANGED <<open, job, bound, clashed, broken, overtaken, shown, queued>>
        /\ born' = born + 1 /\ effect' = born + 1 /\ effect = 0 /\ active' = active
        /\ wanted' = [wanted EXCEPT ![born + 1] = shown.ports]
    BY <1>1 DEF F!Online
  <2>2. active => At(calls)' = "sub"
    <3>1. born + 1 \in F!Effects
      BY <1>0, <1>1 DEF F!Online, F!Effects, F!ForwardingBounds
    <3> QED BY <1>1, <3>1, CallWires DEF F!Online
  <2>3. ASSUME NEW e \in F!Effects
        PROVE  \/ Due(e)'
               \/ (Desired(e)' = Desired(e) \/ (e > born /\ Desired(e)' = {})) /\ ~Due(e)
    <3>1. ~Due(e) /\ Desired(e) = {}
      BY <2>1 DEF Due, Desired, F!Effects
    <3>2. CASE e = born + 1 /\ active
      BY <2>1, <2>2, <3>2 DEF Due
    <3>3. CASE ~(e = born + 1 /\ active)
      BY <2>1, <3>1, <3>3 DEF Desired
    <3> QED BY <3>2, <3>3
  <2>4. \A e \in F!Effects : queued'[e] > 0 => e <= born'
    BY <1>0, <2>1 DEF F!Effects
  <2> QED BY <1>0, <2>1, <2>3, <2>4, LeftAlone
<1>2. CASE F!Offline
  <2>1. /\ UNCHANGED <<open, job, bound, clashed, broken, overtaken, shown, born>>
        /\ effect # 0 /\ effect \in F!Effects /\ effect' = 0 /\ effect <= born
        /\ queued' \in [F!Effects -> Nat] /\ queued'[effect] > 0
        /\ \A d \in F!Effects : d # effect => queued'[d] = queued[d]
        /\ queued'[effect] >= queued[effect]
    BY <1>0, <1>2, CloseTypes, EndedFew DEF F!Offline, F!Close, ForwardTyped
  <2>2. \A e \in F!Effects : e # effect => Desired(e)' = Desired(e) /\ ~Due(e)
    BY <2>1 DEF Desired, Due, F!Effects
  <2>3. \A e \in F!Effects : /\ queued'[e] \in Nat /\ queued'[e] >= queued[e]
                             /\ queued'[e] > 0 => e <= born'
    BY <1>0, <2>1
  <2> QED BY <1>0, <2>1, <2>2, <2>3, LeftAlone
<1>3. CASE F!Replace
  <2>1. /\ UNCHANGED <<open, job, bound, clashed, broken, overtaken, shown, active>>
        /\ effect # 0 /\ effect \in F!Effects /\ effect' = born + 1 /\ born' = born + 1 /\ effect <= born
        /\ queued' \in [F!Effects -> Nat] /\ queued'[effect] > 0
        /\ \A d \in F!Effects : d # effect => queued'[d] = queued[d]
        /\ queued'[effect] >= queued[effect]
    BY <1>0, <1>3, CloseTypes, EndedFew DEF F!Replace, F!Close, ForwardTyped
  <2>2. active => At(calls)' = "sub"
    <3>1. calls + 1 \in F!Follows /\ follow[calls + 1].at = "none"
      BY <1>3 DEF F!Replace, Wires, Asking, At, ForwardTyped, F!Follows, F!ForwardingBounds
    <3> QED BY <1>3, <3>1 DEF F!Replace, F!Ended, At
  <2>3. ASSUME NEW e \in F!Effects
        PROVE  \/ queued'[e] > 0
               \/ Due(e)'
               \/ (Desired(e)' = Desired(e) \/ (e > born /\ Desired(e)' = {})) /\ ~Due(e)
    <3>1. e # effect => ~Due(e) /\ Desired(e) = {}
      BY DEF Due, Desired
    <3>2. CASE e = born + 1 /\ active
      BY <2>1, <2>2, <3>2 DEF Due
    <3>3. CASE ~(e = born + 1 /\ active)
      BY <2>1, <3>1, <3>3 DEF Desired
    <3> QED BY <3>2, <3>3
  <2>4. \A e \in F!Effects : /\ queued'[e] \in Nat /\ queued'[e] >= queued[e]
                             /\ queued'[e] > 0 => e <= born'
    BY <1>0, <2>1 DEF F!Effects
  <2> QED BY <1>0, <2>1, <2>3, <2>4, LeftAlone
<1>4. CASE F!Background
  <2>1. /\ UNCHANGED <<open, job, bound, clashed, broken, overtaken, shown, born, effect>>
        /\ active' = FALSE
    BY <1>4 DEF F!Background
  <2>2. \A e \in F!Effects : e # effect => Desired(e)' = Desired(e) /\ ~Due(e)
    BY <2>1 DEF Desired, Due
  <2>3. CASE effect = 0
    <3>1. queued' = queued
      BY <1>4, <2>3 DEF F!Background
    <3> QED BY <1>0, <2>1, <2>2, <2>3, <3>1, LeftAlone DEF F!Effects
  <2>4. CASE effect # 0
    <3>1. queued' = [queued EXCEPT ![effect] = @ + 1] /\ effect \in F!Effects /\ effect <= born
      BY <1>0, <1>4, <2>4 DEF F!Background, F!Reconcile, ForwardTyped
    <3>2. queued'[effect] > 0
      BY <1>0, <3>1
    <3>3. \A e \in F!Effects : /\ queued'[e] \in Nat /\ queued'[e] >= queued[e]
                               /\ queued'[e] > 0 => e <= born'
      BY <1>0, <2>1, <3>1
    <3> QED BY <1>0, <2>1, <2>2, <3>2, <3>3, LeftAlone
  <2> QED BY <2>3, <2>4
<1>5. CASE F!Foreground
  <2>1. /\ UNCHANGED <<open, job, bound, clashed, broken, overtaken, shown, born, effect, queued, wanted>>
        /\ active' = TRUE /\ active = FALSE
    BY <1>0, <1>5 DEF F!Foreground
  <2>2. \A e \in F!Effects : e # effect => Desired(e)' = Desired(e) /\ ~Due(e)
    BY <2>1 DEF Desired, Due
  <2>3. ASSUME NEW e \in F!Effects, e = effect PROVE Due(e)'
    <3>1. effect \in F!Effects /\ effect # 0 /\ release[effect] = 0
      BY <1>0, <2>1, <2>3 DEF Linked, F!Effects
    <3>2. F!Call(effect) /\ UNCHANGED <<toPhone, asked>>
      BY <1>5, <3>1 DEF F!Foreground
    <3>3. At(calls)' = "sub"
      BY <3>1, <3>2, CallWires
    <3> QED BY <2>1, <2>3, <3>3 DEF Due
  <2> QED BY <1>0, <2>1, <2>2, <2>3, LeftAlone
<1> QED
  BY <1>1, <1>2, <1>3, <1>4, <1>5

\* A list that is heard makes one more job.
LEMMA WireJobs ==
  ASSUME F!ForwardingBounds, ForwardTyped, Wires, Jobs,
         F!Subscribed \/ F!Listed \/ F!Pushed \/ F!Handle \/ (\E f \in F!Follows : F!Answer(f)) \/ F!PortsChange
  PROVE  Jobs'
<1> USE DEF F!effectVars, F!followVars, F!daemonVars, F!historyVars
<1>0. /\ Framed /\ Linked /\ Asking /\ born \in Nat /\ active \in BOOLEAN /\ queued \in [F!Effects -> Nat]
      /\ \A e \in F!Effects : queued[e] \in Nat /\ (queued[e] > 0 => e <= born)
      /\ toPhone # <<>> => effect # 0
  <2>1. Framed /\ Linked /\ Asking
    BY DEF Wires
  <2>2. toPhone # <<>> => effect # 0
    BY <2>1 DEF Linked
  <2>3. /\ born \in Nat /\ active \in BOOLEAN /\ queued \in [F!Effects -> Nat]
        /\ \A e \in F!Effects : queued[e] \in Nat /\ (queued[e] > 0 => e <= born)
    BY DEF Jobs, Held, ForwardTyped, F!Effects
  <2> QED BY <2>1, <2>2, <2>3
<1>1. /\ UNCHANGED <<open, job, bound, clashed, broken, overtaken, born, effect, active>>
  BY DEF F!Subscribed, F!Listed, F!Pushed, F!Handle, F!Answer, F!PortsChange
<1>2. ASSUME UNCHANGED <<queued, wanted, shown>>,
             active => (At(calls)' \in {"sub", "get"} <=> At(calls) \in {"sub", "get"})
      PROVE  Jobs'
  <2>1. \A e \in F!Effects : Desired(e)' = Desired(e) /\ (Due(e)' <=> Due(e))
    BY <1>1, <1>2 DEF Desired, Due
  <2> QED BY <1>0, <1>1, <1>2, <2>1, LeftAlone
<1>3. ASSUME effect # 0, NEW list \in SUBSET Ports, F!Heard(list) PROVE Jobs'
  <2>1. /\ queued' \in [F!Effects -> Nat] /\ queued'[effect] > 0
        /\ \A d \in F!Effects : d # effect => queued'[d] = queued[d]
    BY <1>3, HeardTypes
  <2>2. /\ effect \in F!Effects /\ effect <= born /\ queued'[effect] >= queued[effect]
    BY <1>0, <1>3 DEF ForwardTyped, F!Heard, F!Reconcile
  <2>3. shown'.listening = shown.listening /\ shown'.failed = shown.failed
    BY <1>3 DEF F!Heard, ForwardTyped
  <2>4. \A e \in F!Effects : e # effect => Desired(e)' = Desired(e) /\ ~Due(e)
    BY <1>1 DEF Desired, Due
  <2>5. \A e \in F!Effects : /\ queued'[e] \in Nat /\ queued'[e] >= queued[e]
                             /\ queued'[e] > 0 => e <= born'
    BY <1>0, <1>1, <2>1, <2>2
  <2> QED BY <1>0, <1>1, <2>1, <2>3, <2>4, <2>5, LeftAlone
<1>4. CASE F!Subscribed
  <2> DEFINE f == Head(toPhone).of
  <2>1. /\ UNCHANGED <<queued, wanted, shown, calls>>
        /\ active => follow' = [follow EXCEPT ![f].at = "get"]
        /\ toPhone # <<>> /\ Head(toPhone).type = "subscribed"
    BY <1>4 DEF F!Subscribed, F!Next1
  <2>2. f \in 1 .. calls /\ f \in F!Follows /\ HasFrame(toPhone, "subscribed", f)
    BY <1>0, <2>1, HeadTyped, TailFrame DEF ForwardTyped, F!Follows, F!ForwardingBounds
  <2> HIDE DEF f
  <2>3. At(f) = "sub" /\ At(calls) = "sub"
    BY <1>0, <2>2 DEF Asking, Subscribing
  <2>4. active => At(calls)' \in {"sub", "get"}
    <3>1. ASSUME active PROVE follow'[calls].at \in {"sub", "get"}
      <4>1. \A g \in F!Follows : follow'[g].at = IF g = f THEN "get" ELSE At(g)
        BY <2>1, <2>2, <3>1 DEF At, ForwardTyped
      <4>2. calls \in F!Follows
        BY <2>2 DEF ForwardTyped, F!Follows, F!ForwardingBounds
      <4> QED BY <2>3, <4>1, <4>2
    <3> QED BY <2>1, <3>1 DEF At
  <2> QED BY <1>2, <2>1, <2>3, <2>4
<1>5. CASE F!Listed
  <2>1. toPhone # <<>> /\ F!Heard(Head(toPhone).list)
    BY <1>5 DEF F!Listed, F!Next1
  <2> QED BY <1>0, <1>3, <2>1, HeadTyped
<1>6. CASE F!Pushed
  <2>1. toPhone # <<>> /\ UNCHANGED <<follow, calls>>
        /\ (F!Heard(Head(toPhone).list) \/ UNCHANGED <<wanted, shown, queued>>)
    BY <1>6 DEF F!Pushed, F!Next1
  <2> QED BY <1>0, <1>2, <1>3, <2>1, HeadTyped DEF At
<1>7. CASE F!Handle \/ (\E f \in F!Follows : F!Answer(f)) \/ F!PortsChange
  <2>1. UNCHANGED <<queued, wanted, shown, follow, calls>>
    BY <1>7 DEF F!Handle, F!Answer, F!PortsChange
  <2> QED BY <1>2, <2>1 DEF At
<1> QED
  BY <1>4, <1>5, <1>6, <1>7

\* A step of one effect's reconcile keeps what is said of each effect, if it keeps it for
\* this one, and takes no refusal back that another still counts on.
LEMMA OneJob ==
  ASSUME ForwardTyped, Jobs, NEW e \in F!Effects,
         job[e] # F!NoJob \/ queued[e] > 0,
         \A d \in F!Effects : d # e => job'[d] = job[d] /\ open'[d] = open[d] /\ queued'[d] = queued[d],
         UNCHANGED <<active, effect, born, wanted, follow, calls>>,
         clashed \subseteq clashed' \/ (e = effect /\ \A d \in F!Effects \ {e} : F!Rests(d))
  PROVE  /\ e <= born
         /\ \A d \in F!Effects : d # e =>
              /\ job'[d].failed \subseteq clashed' \cup job'[d].todo
              /\ job'[d].stage = "opening" => job'[d].target \ (open'[d] \cup job'[d].todo) \subseteq clashed'
              /\ queued'[d] = 0 /\ ~Due(d)' =>
                   /\ job'[d].stage = "idle" =>
                        open'[d] \subseteq Desired(d)' /\ Desired(d)' \ open'[d] \subseteq clashed'
                   /\ job'[d].stage \in {"closing", "key", "opening"} => job'[d].target = Desired(d)'
<1>0. Held /\ Staged /\ Aimed
  BY DEF Jobs
<1>1. e <= born
  BY <1>0 DEF Held, ForwardTyped, F!Effects
<1>2. ASSUME NEW d \in F!Effects, d # e
      PROVE  /\ job[d].failed \subseteq clashed' \cup job[d].todo
             /\ job[d].stage = "opening" => job[d].target \ (open[d] \cup job[d].todo) \subseteq clashed'
  <2>1. /\ job[d].failed \subseteq clashed \cup job[d].todo
        /\ job[d].stage = "opening" => job[d].target \ (open[d] \cup job[d].todo) \subseteq clashed
        /\ F!Rests(d) => job[d].failed = {} /\ job[d].stage # "opening"
    BY <1>0, <1>2 DEF Staged, F!Rests
  <2> QED BY <1>2, <2>1
<1>3. ASSUME NEW d \in F!Effects, d # e, queued[d] = 0, ~Due(d)
      PROVE  /\ job[d].stage = "idle" => open[d] \subseteq Desired(d) /\ Desired(d) \ open[d] \subseteq clashed'
             /\ job[d].stage \in {"closing", "key", "opening"} => job[d].target = Desired(d)
  <2>1. /\ job[d].stage = "idle" => open[d] \subseteq Desired(d) /\ Desired(d) \ open[d] \subseteq clashed
        /\ job[d].stage \in {"closing", "key", "opening"} => job[d].target = Desired(d)
    BY <1>0, <1>3 DEF Aimed
  <2>2. e = effect => Desired(d) = {}
    BY <1>3 DEF Desired
  <2> QED BY <2>1, <2>2
<1>4. \A d \in F!Effects : Desired(d)' = Desired(d) /\ (Due(d)' <=> Due(d))
  BY DEF Desired, Due, At
<1> QED
  BY <1>1, <1>2, <1>3, <1>4

\* What the listeners are when every chain rests: the last to report has them all.
LEMMA AllReported ==
  ASSUME ForwardTyped, Jobs, NEW e \in F!Effects, effect \in {0, e}, broken = {},
         \A d \in F!Effects \ {e} : F!Rests(d)
  PROVE  open[e] = F!Listening
<1>0. Held /\ Staged /\ Aimed
  BY DEF Jobs
<1>1. ASSUME NEW d \in F!Effects, d # e PROVE open[d] = {}
  <2>1. job[d].stage = "idle" /\ queued[d] = 0
    BY <1>0, <1>1 DEF F!Rests, Staged
  <2>2. ~Due(d) /\ Desired(d) = {}
    BY <1>1 DEF Due, Desired, F!Effects
  <2> QED BY <1>0, <1>1, <2>1, <2>2 DEF Aimed
<1>2. open[e] \subseteq Ports /\ bound \in [Ports -> F!Effects \cup {0}]
  BY DEF ForwardTyped
<1>3. ASSUME NEW p \in Ports PROVE p \in open[e] <=> bound[p] # 0
  <2>1. \A d \in F!Effects : p \in open[d] <=> bound[p] = d
    BY <1>0, <1>3 DEF Held
  <2>2. 0 \notin F!Effects
    BY DEF F!Effects
  <2> QED BY <1>1, <1>2, <1>3, <2>1, <2>2
<1> QED
  BY <1>2, <1>3 DEF F!Listening

\* The parts of the invariant of one effect.
LEMMA JobParts ==
  ASSUME ForwardTyped, Jobs, NEW e \in F!Effects,
         job[e] # F!NoJob \/ queued[e] > 0,
         \A d \in F!Effects : d # e => job'[d] = job[d] /\ open'[d] = open[d] /\ queued'[d] = queued[d],
         UNCHANGED <<active, effect, born, wanted, follow, calls>>, broken \subseteq broken',
         clashed \subseteq clashed' \/ (e = effect /\ \A d \in F!Effects \ {e} : F!Rests(d)),
         \A d \in F!Effects, p \in Ports : p \in open'[d] <=> bound'[p] = d,
         /\ job'[e].failed \subseteq clashed' \cup job'[e].todo
         /\ job'[e].stage = "rejected" => e \in broken'
         /\ job'[e].stage \in {"idle", "rejected"} => job'[e].failed = {}
         /\ job'[e].stage = "closing" => job'[e].todo = open'[e] \ job'[e].target /\ job'[e].failed = {}
         /\ job'[e].stage = "key" =>
              open'[e] \subseteq job'[e].target /\ job'[e].todo = job'[e].target \ open'[e]
         /\ job'[e].stage = "opening" =>
              /\ open'[e] \subseteq job'[e].target
              /\ job'[e].todo \subseteq job'[e].target \ open'[e]
              /\ job'[e].target \ (open'[e] \cup job'[e].todo) \subseteq clashed',
         queued'[e] = 0 /\ ~Due(e)' =>
              /\ job'[e].stage = "idle" => open'[e] \subseteq Desired(e)' /\ Desired(e)' \ open'[e] \subseteq clashed'
              /\ job'[e].stage \in {"closing", "key", "opening"} => job'[e].target = Desired(e)',
         Shows'
  PROVE  Jobs'
<1>0. Held /\ Staged /\ Aimed
  BY DEF Jobs
<1>1. /\ e <= born
      /\ \A d \in F!Effects : d # e =>
           /\ job'[d].failed \subseteq clashed' \cup job'[d].todo
           /\ job'[d].stage = "opening" => job'[d].target \ (open'[d] \cup job'[d].todo) \subseteq clashed'
           /\ queued'[d] = 0 /\ ~Due(d)' =>
                /\ job'[d].stage = "idle" =>
                     open'[d] \subseteq Desired(d)' /\ Desired(d)' \ open'[d] \subseteq clashed'
                /\ job'[d].stage \in {"closing", "key", "opening"} => job'[d].target = Desired(d)'
  BY OneJob
<1>2. Held'
  BY <1>0, <1>1 DEF Held, ForwardTyped, F!Effects
<1>3. Staged'
  BY <1>0, <1>1 DEF Staged
<1>4. Aimed'
  BY <1>1 DEF Aimed
<1> QED
  BY <1>2, <1>3, <1>4 DEF Jobs

LEMMA StartJobs ==
  ASSUME F!ForwardingBounds, ForwardTyped, Jobs, NEW e \in F!Effects,
         F!JobStarts(e) \/ F!KeyRead(e) \/ F!KeyFailed(e)
  PROVE  Jobs'
<1> USE DEF F!effectVars, F!followVars, F!daemonVars, F!historyVars
<1>0. /\ Held /\ Staged /\ Aimed /\ Shows
      /\ job \in [F!Effects -> F!Jobs] /\ queued \in [F!Effects -> Nat]
  BY DEF Jobs, ForwardTyped
<1>1. /\ UNCHANGED <<active, effect, born, wanted, follow, calls, open, bound, clashed, shown, overtaken>>
      /\ \A d \in F!Effects, p \in Ports : p \in open'[d] <=> bound'[p] = d
      /\ broken \subseteq broken'
      /\ Due(e)' = Due(e) /\ Desired(e)' = Desired(e)
      /\ F!Listening' = F!Listening
  BY <1>0 DEF F!JobStarts, F!KeyRead, F!KeyFailed, Held, Due, Desired, At, F!Listening
<1>2. CASE F!JobStarts(e)
  <2>1. /\ queued[e] > 0 /\ job[e].stage = "idle" /\ broken' = broken
        /\ job'[e].stage = "closing" /\ job'[e].target = Desired(e)
        /\ job'[e].todo = open[e] \ Desired(e) /\ job'[e].failed = {}
        /\ \A d \in F!Effects : d # e => job'[d] = job[d] /\ queued'[d] = queued[d]
    BY <1>0, <1>2 DEF F!JobStarts, F!SetJob, Desired
  <2>2. Shows'
    <3>1. ~F!Rests(e)'
      BY <2>1 DEF F!Rests
    <3>2. \A d \in F!Effects : job'[d].stage # "opening" => job[d].stage # "opening"
      BY <2>1
    <3> QED BY <1>0, <1>1, <3>1, <3>2 DEF Shows
  <2> QED BY <1>1, <2>1, <2>2, JobParts
<1>3. CASE F!KeyRead(e)
  <2>1. /\ job[e].stage = "key" /\ queued' = queued /\ broken' = broken
        /\ job'[e].stage = "opening" /\ job'[e].target = job[e].target
        /\ job'[e].todo = job[e].todo /\ job'[e].failed = job[e].failed
        /\ \A d \in F!Effects : d # e => job'[d] = job[d]
    BY <1>0, <1>3 DEF F!KeyRead, F!SetJob, F!Jobs
  <2>2. Shows'
    <3>1. ~F!Rests(e)'
      BY <2>1 DEF F!Rests
    <3>2. \A d \in F!Effects : job'[d].stage # "opening" => job[d].stage # "opening"
      BY <2>1
    <3> QED BY <1>0, <1>1, <3>1, <3>2 DEF Shows
  <2>3. job[e] # F!NoJob
    BY <2>1 DEF F!NoJob
  <2>4. /\ job[e].failed \subseteq clashed \cup job[e].todo
        /\ open[e] \subseteq job[e].target /\ job[e].todo = job[e].target \ open[e]
        /\ queued[e] = 0 /\ ~Due(e) => job[e].target = Desired(e)
    BY <1>0, <2>1 DEF Staged, Aimed
  <2> QED BY <1>1, <2>1, <2>2, <2>3, <2>4, JobParts
<1>4. CASE F!KeyFailed(e)
  <2>1. /\ job[e].stage = "key" /\ queued' = queued /\ broken' = broken \cup {e}
        /\ job'[e].stage = "rejected" /\ job'[e].failed = {} /\ job'[e].todo = {}
        /\ \A d \in F!Effects : d # e => job'[d] = job[d]
    BY <1>0, <1>4 DEF F!KeyFailed, F!SetJob, F!NoJob
  <2>2. Shows'
    <3>1. \A d \in F!Effects : job'[d].stage # "opening" => job[d].stage # "opening"
      BY <2>1
    <3> QED BY <1>0, <1>1, <2>1, <3>1 DEF Shows
  <2>3. job[e] # F!NoJob
    BY <2>1 DEF F!NoJob
  <2> QED BY <1>1, <2>1, <2>2, <2>3, JobParts
<1> QED
  BY <1>2, <1>3, <1>4

\* A report at the end of a job.
LEMMA ReportJobs ==
  ASSUME F!ForwardingBounds, ForwardTyped, Jobs, NEW e \in F!Effects, NEW left \in SUBSET Ports,
         job[e].stage \in {"closing", "opening"}, F!Report(e, left),
         UNCHANGED <<active, effect, born, wanted, open, release, queued, follow, calls, bound, clashed, broken>>,
         open[e] \subseteq job[e].target, job[e].target \ open[e] \subseteq clashed,
         left \subseteq shown.failed \/ left \subseteq clashed,
         left \cap open[e] \subseteq clashed
  PROVE  Jobs'
<1>0. /\ Held /\ Staged /\ Aimed /\ Shows
      /\ job \in [F!Effects -> F!Jobs] /\ queued \in [F!Effects -> Nat]
  BY DEF Jobs, ForwardTyped
<1>1. /\ \A d \in F!Effects, p \in Ports : p \in open'[d] <=> bound'[p] = d
      /\ Due(e)' = Due(e) /\ Desired(e)' = Desired(e)
      /\ F!Listening' = F!Listening
  BY <1>0 DEF Held, Due, Desired, At, F!Listening
<1>2. /\ job'[e].stage = "idle" /\ job'[e].failed = {} /\ job'[e].todo = {}
      /\ \A d \in F!Effects : d # e => job'[d] = job[d]
  BY <1>0 DEF F!Report, F!SetJob, F!NoJob
<1>3. /\ shown'.listening = open[e] /\ shown'.failed = left
      /\ overtaken' = (effect \notin {0, e} \/ (overtaken /\ effect # e))
  BY DEF F!Report, ForwardTyped
<1>4. Shows'
  <2>1. ASSUME ~overtaken', broken' = {}, \A d \in F!Effects : F!Rests(d)'
        PROVE  shown'.listening = F!Listening'
    <3>1. \A d \in F!Effects \ {e} : F!Rests(d)
      BY <1>2, <2>1 DEF F!Rests
    <3>2. effect \in {0, e}
      BY <1>3, <2>1
    <3> QED BY <1>1, <1>3, <2>1, <3>1, <3>2, AllReported
  <2>2. ASSUME NEW d \in F!Effects, job'[d].stage # "opening" PROVE shown'.failed \cap open'[d] \subseteq clashed'
    <3>1. CASE d = e
      BY <1>3, <3>1
    <3>2. CASE d # e
      <4>1. job[d].stage # "opening"
        BY <1>2, <2>2, <3>2
      <4>2. shown.failed \cap open[d] \subseteq clashed
        BY <1>0, <4>1 DEF Shows
      <4> QED BY <1>3, <4>2
    <3> QED BY <3>1, <3>2
  <2> QED BY <2>1, <2>2 DEF Shows
<1>5. job[e] # F!NoJob
  BY DEF F!NoJob
<1>6. queued[e] = 0 /\ ~Due(e) => job[e].target = Desired(e)
  BY <1>0 DEF Aimed
<1> QED
  BY <1>1, <1>2, <1>4, <1>5, <1>6, JobParts

LEMMA CloseJobs ==
  ASSUME F!ForwardingBounds, ForwardTyped, Jobs, NEW e \in F!Effects,
         (\E p \in Ports : F!CloseOne(e, p)) \/ F!Closed(e)
  PROVE  Jobs'
<1> USE DEF F!effectVars, F!followVars, F!daemonVars, F!historyVars
<1>0. /\ Held /\ Staged /\ Aimed /\ Shows
      /\ job \in [F!Effects -> F!Jobs] /\ queued \in [F!Effects -> Nat]
      /\ open \in [F!Effects -> SUBSET Ports] /\ bound \in [Ports -> F!Effects \cup {0}]
  BY DEF Jobs, ForwardTyped
<1>1. /\ UNCHANGED <<active, effect, born, wanted, follow, calls, queued, clashed, broken>>
      /\ Due(e)' = Due(e) /\ Desired(e)' = Desired(e)
      /\ job[e].stage = "closing" /\ job[e] # F!NoJob
  <2>1. /\ UNCHANGED <<active, effect, born, wanted, follow, calls, queued, clashed, broken>>
        /\ job[e].stage = "closing"
    BY DEF F!CloseOne, F!Closed
  <2>2. Due(e)' = Due(e) /\ Desired(e)' = Desired(e)
    BY <2>1 DEF Due, Desired, At
  <2>3. job[e] # F!NoJob
    BY <2>1 DEF F!NoJob
  <2> QED BY <2>1, <2>2, <2>3
<1>2. /\ job[e].todo = open[e] \ job[e].target /\ job[e].failed = {}
      /\ queued[e] = 0 /\ ~Due(e) => job[e].target = Desired(e)
      /\ shown.failed \cap open[e] \subseteq clashed
  BY <1>0, <1>1 DEF Staged, Aimed, Shows
<1>3. ASSUME NEW p \in Ports, F!CloseOne(e, p) PROVE Jobs'
  <2>1. /\ p \in open[e] /\ p \notin job[e].target
        /\ open'[e] = open[e] \ {p} /\ bound' = [bound EXCEPT ![p] = 0] /\ shown' = shown
        /\ overtaken' = overtaken
        /\ job'[e].stage = "closing" /\ job'[e].target = job[e].target
        /\ job'[e].todo = job[e].todo \ {p} /\ job'[e].failed = {}
        /\ \A d \in F!Effects : d # e => job'[d] = job[d] /\ open'[d] = open[d]
    BY <1>0, <1>1, <1>2, <1>3 DEF F!CloseOne, F!SetJob, F!Jobs
  <2>2. \A d \in F!Effects, q \in Ports : q \in open'[d] <=> bound'[q] = d
    <3>1. ASSUME NEW d \in F!Effects, NEW q \in Ports PROVE q \in open'[d] <=> bound'[q] = d
      <4>1. (q \in open[d] <=> bound[q] = d) /\ bound[p] = e /\ d # 0
        BY <1>0, <2>1 DEF Held, F!Effects
      <4> QED BY <1>0, <2>1, <4>1
    <3> QED BY <3>1
  <2>3. Shows'
    <3>1. ~F!Rests(e)'
      BY <2>1 DEF F!Rests
    <3>2. \A d \in F!Effects : job'[d].stage # "opening" => job[d].stage # "opening" /\ open'[d] \subseteq open[d]
      BY <1>1, <2>1
    <3> QED BY <1>0, <1>1, <2>1, <3>1, <3>2 DEF Shows
  <2> QED BY <1>1, <1>2, <2>1, <2>2, <2>3, JobParts
<1>4. CASE F!Closed(e)
  <2> DEFINE left == shown.failed \cap job[e].target
             more == job[e].target \ open[e]
  <2>1. /\ job[e].todo = {} /\ open[e] \subseteq job[e].target
        /\ UNCHANGED <<release, open, bound>>
    BY <1>2, <1>4 DEF F!Closed
  <2>2. left \in SUBSET Ports /\ left \subseteq shown.failed /\ left \cap open[e] \subseteq clashed
    BY <1>0, <1>2 DEF ForwardTyped, F!Jobs
  <2>3. CASE more = {}
    <3>1. F!Report(e, left)
      BY <1>4, <2>3 DEF F!Closed
    <3> HIDE DEF left
    <3> QED BY <1>1, <2>1, <2>2, <2>3, <3>1, ReportJobs
  <2>4. CASE more # {}
    <3>1. /\ shown' = shown /\ overtaken' = overtaken
          /\ job'[e].stage = "key" /\ job'[e].target = job[e].target
          /\ job'[e].todo = more /\ job'[e].failed = left
          /\ \A d \in F!Effects : d # e => job'[d] = job[d]
      <4>1. /\ shown' = shown /\ overtaken' = overtaken
            /\ job' = [job EXCEPT ![e] = [job[e] EXCEPT !.stage = "key", !.todo = more, !.failed = left]]
        BY <1>4, <2>4 DEF F!Closed, F!SetJob
      <4>2. job[e] \in F!Jobs
        BY <1>0
      <4> QED BY <1>0, <4>1, <4>2 DEF F!Jobs
    <3>2. Shows'
      <4>1. ~F!Rests(e)'
        BY <3>1 DEF F!Rests
      <4>2. \A d \in F!Effects : job'[d].stage # "opening" => job[d].stage # "opening"
        BY <1>1, <3>1
      <4> QED BY <1>0, <1>1, <2>1, <3>1, <4>1, <4>2 DEF Shows
    <3>3. left \subseteq clashed \cup more
      BY <2>2
    <3>4. \A d \in F!Effects, p \in Ports : p \in open'[d] <=> bound'[p] = d
      BY <1>0, <2>1 DEF Held
    <3> HIDE DEF left
    <3> QED BY <1>1, <1>2, <2>1, <3>1, <3>2, <3>3, <3>4, JobParts
  <2> QED BY <2>3, <2>4
<1> QED
  BY <1>3, <1>4

LEMMA OpenJobs ==
  ASSUME F!ForwardingBounds, ForwardTyped, Jobs, NEW e \in F!Effects,
         (\E p \in Ports : F!OpenOne(e, p)) \/ F!Opened(e)
  PROVE  Jobs'
<1> USE DEF F!effectVars, F!followVars, F!daemonVars, F!historyVars
<1>0. /\ Held /\ Staged /\ Aimed /\ Shows
      /\ job \in [F!Effects -> F!Jobs] /\ queued \in [F!Effects -> Nat]
      /\ open \in [F!Effects -> SUBSET Ports] /\ bound \in [Ports -> F!Effects \cup {0}]
  BY DEF Jobs, ForwardTyped
<1>1. /\ UNCHANGED <<active, effect, born, wanted, follow, calls, queued, broken>>
      /\ Due(e)' = Due(e) /\ Desired(e)' = Desired(e)
      /\ job[e].stage = "opening" /\ job[e] # F!NoJob
  <2>1. /\ UNCHANGED <<active, effect, born, wanted, follow, calls, queued, broken>>
        /\ job[e].stage = "opening"
    BY DEF F!OpenOne, F!Opened
  <2>2. Due(e)' = Due(e) /\ Desired(e)' = Desired(e)
    BY <2>1 DEF Due, Desired, At
  <2>3. job[e] # F!NoJob
    BY <2>1 DEF F!NoJob
  <2> QED BY <2>1, <2>2, <2>3
<1>2. /\ open[e] \subseteq job[e].target /\ job[e].todo \subseteq job[e].target \ open[e]
      /\ job[e].target \ (open[e] \cup job[e].todo) \subseteq clashed
      /\ job[e].failed \subseteq clashed \cup job[e].todo
      /\ queued[e] = 0 /\ ~Due(e) => job[e].target = Desired(e)
  BY <1>0, <1>1 DEF Staged, Aimed
<1>3. ASSUME NEW p \in Ports, F!OpenOne(e, p), bound[p] = 0 PROVE Jobs'
  <2>1. /\ p \in job[e].todo /\ shown' = shown /\ overtaken' = overtaken
        /\ open'[e] = open[e] \cup {p} /\ bound' = [bound EXCEPT ![p] = e]
        /\ job'[e].stage = "opening" /\ job'[e].target = job[e].target
        /\ job'[e].todo = job[e].todo \ {p} /\ job'[e].failed = job[e].failed \ {p}
        /\ \A d \in F!Effects : d # e => job'[d] = job[d] /\ open'[d] = open[d]
    <3>1. /\ p \in job[e].todo /\ shown' = shown /\ overtaken' = overtaken
          /\ open' = [open EXCEPT ![e] = @ \cup {p}] /\ bound' = [bound EXCEPT ![p] = e]
          /\ job' = [job EXCEPT ![e] = [job[e] EXCEPT !.todo = @ \ {p}, !.failed = @ \ {p}]]
      BY <1>3 DEF F!OpenOne, F!SetJob
    <3>2. job[e] \in F!Jobs
      BY <1>0
    <3> QED BY <1>0, <1>1, <3>1, <3>2 DEF F!Jobs
  <2>2. /\ clashed \ {p} \subseteq clashed'
        /\ clashed \subseteq clashed' \/ (e = effect /\ \A d \in F!Effects \ {e} : F!Rests(d))
    BY <1>3 DEF F!OpenOne
  <2>3. \A d \in F!Effects, q \in Ports : q \in open'[d] <=> bound'[q] = d
    <3>1. ASSUME NEW d \in F!Effects, NEW q \in Ports PROVE q \in open'[d] <=> bound'[q] = d
      <4>1. (q \in open[d] <=> bound[q] = d) /\ d # 0
        BY <1>0 DEF Held, F!Effects
      <4> QED BY <1>0, <1>3, <2>1, <4>1
    <3> QED BY <3>1
  <2>4. Shows'
    <3>1. ~F!Rests(e)'
      BY <2>1 DEF F!Rests
    <3>2. ASSUME NEW d \in F!Effects, job'[d].stage # "opening" PROVE shown'.failed \cap open'[d] \subseteq clashed'
      <4>1. d # e /\ job[d].stage # "opening" /\ open'[d] = open[d]
        BY <2>1, <3>2
      <4>2. p \notin open[d]
        BY <1>0, <1>3 DEF Held, F!Effects
      <4>3. shown.failed \cap open[d] \subseteq clashed
        BY <1>0, <4>1 DEF Shows
      <4> QED BY <2>1, <2>2, <4>1, <4>2, <4>3
    <3> QED BY <3>1, <3>2 DEF Shows
  <2>5. /\ job'[e].failed \subseteq clashed' \cup job'[e].todo
        /\ open'[e] \subseteq job'[e].target /\ job'[e].todo \subseteq job'[e].target \ open'[e]
        /\ job'[e].target \ (open'[e] \cup job'[e].todo) \subseteq clashed'
    BY <1>2, <2>1, <2>2
  <2> QED BY <1>1, <1>2, <2>1, <2>2, <2>3, <2>4, <2>5, JobParts
<1>4. ASSUME NEW p \in Ports, F!OpenOne(e, p), bound[p] # 0 PROVE Jobs'
  <2>1. /\ p \in job[e].todo /\ shown' = shown /\ overtaken' = overtaken
        /\ open' = open /\ bound' = bound /\ clashed' = clashed \cup {p}
        /\ job'[e].stage = "opening" /\ job'[e].target = job[e].target
        /\ job'[e].todo = job[e].todo \ {p} /\ job'[e].failed = job[e].failed \cup {p}
        /\ \A d \in F!Effects : d # e => job'[d] = job[d]
    <3>1. /\ p \in job[e].todo /\ shown' = shown /\ overtaken' = overtaken
          /\ open' = open /\ bound' = bound /\ clashed' = clashed \cup {p}
          /\ job' = [job EXCEPT ![e] = [job[e] EXCEPT !.todo = @ \ {p}, !.failed = @ \cup {p}]]
      BY <1>4 DEF F!OpenOne, F!SetJob
    <3>2. job[e] \in F!Jobs
      BY <1>0
    <3> QED BY <1>0, <1>1, <3>1, <3>2 DEF F!Jobs
  <2>2. Shows'
    <3>1. ~F!Rests(e)'
      BY <2>1 DEF F!Rests
    <3>2. \A d \in F!Effects : job'[d].stage # "opening" => job[d].stage # "opening"
      BY <2>1
    <3> QED BY <1>0, <2>1, <3>1, <3>2 DEF Shows
  <2>3. \A d \in F!Effects, q \in Ports : q \in open'[d] <=> bound'[q] = d
    BY <1>0, <2>1 DEF Held
  <2>4. /\ job'[e].failed \subseteq clashed' \cup job'[e].todo
        /\ open'[e] \subseteq job'[e].target /\ job'[e].todo \subseteq job'[e].target \ open'[e]
        /\ job'[e].target \ (open'[e] \cup job'[e].todo) \subseteq clashed'
    BY <1>2, <2>1
  <2> QED BY <1>1, <1>2, <2>1, <2>2, <2>3, <2>4, JobParts
<1>5. CASE F!Opened(e)
  <2>1. /\ job[e].todo = {} /\ F!Report(e, job[e].failed)
        /\ UNCHANGED <<release, open, bound, clashed>>
    BY <1>5 DEF F!Opened
  <2>2. job[e].failed \in SUBSET Ports /\ job[e].failed \subseteq clashed
    BY <1>0, <1>2, <2>1 DEF F!Jobs
  <2> QED BY <1>1, <1>2, <2>1, <2>2, ReportJobs
<1> QED
  BY <1>3, <1>4, <1>5

-----------------------------------------------------------------------------
(* The theorems *)

\* A step of the specification is one of the updater or leaves it where it is.
LEMMA UpdaterMoves == [Next]_<<machine, forwarding, terminals, models, timeline, updates, home>>
                        => U!Next \/ UNCHANGED updates
BY DEF Next

LEMMA HomeMoves == [Next]_<<machine, forwarding, terminals, models, timeline, updates, home>>
                     => H!Next \/ UNCHANGED home
BY DEF Next

LEMMA ModelMoves == [Next]_<<machine, forwarding, terminals, models, timeline, updates, home>>
                      => M!Next \/ UNCHANGED models
BY DEF Next

LEMMA ForwardMoves == [Next]_<<machine, forwarding, terminals, models, timeline, updates, home>>
                        => F!Next \/ UNCHANGED forwarding
BY DEF Next

\* The updater's inductive invariant: a restart under way has its record unless its write
\* failed or an error or a deadline took it, and one that failed is told from its own.
THEOREM UpdatedHolds == Spec => []Updated
<1>1. Init => Updated
  BY MachinesBounds, UpdaterInit DEF Init
<1>2. Updated /\ U!Next => Updated'
  BY MachinesBounds, UpdaterTypes, UpdaterKeeps DEF Updated
<1>3. Updated /\ UNCHANGED updates => Updated'
  BY DEF updates, Updated, UpdateTyped, Versioned, AtHand, Recorded, FailedKept, U!Ready,
         U!UpdateTold, U!NoSpin, U!Answered, U!NotAppliedTold, U!Offered
<1> QED
  BY <1>1, <1>2, <1>3, UpdaterMoves, PTL DEF Spec

\* What the window and the dialogs say of an update is so: no restart is left
\* spinning, a check asked for is answered, a download is offered (unless a check has
\* failed since: `dropped'), and a restart that did not install its update is told (unless
\* its record could not be written or had been taken: `unwritten', `taken')
\* (updater.ts).
THEOREM UpdateToldHolds == Spec => []UpdateTold
<1>1. Updated => UpdateTold
  BY DEF Updated, UpdateTold
<1> QED
  BY <1>1, UpdatedHolds, PTL

\* The home's inductive invariant.
THEOREM HomeHeldHolds == Spec => []HomeHeld
<1>1. Init => HomeHeld
  BY MachinesBounds, HomeInit DEF Init
<1>2. HomeHeld /\ H!Next => HomeHeld'
  BY MachinesBounds, HomeTypes, HomeKeeps DEF HomeHeld
<1>3. HomeHeld /\ UNCHANGED home => HomeHeld'
  BY DEF home, HomeHeld, HomeTyped, Keyed, Alone, Runs, Locked, Knows, Makes, Identified
<1> QED
  BY <1>1, <1>2, <1>3, HomeMoves, PTL DEF Spec

\* As long as daemons do not meet, the lock names who runs one, and over every stop,
\* kill and restart a paired phone stays known and the key it trusts stays the
\* daemon's (daemon-lock.ts, identity.ts, known-clients.ts).
THEOREM HomeKeptHolds == Spec => []HomeKept
<1>1. HomeHeld => HomeKept
  <2> SUFFICES ASSUME HomeHeld, ~met PROVE H!LockNames /\ H!PairingStays
    BY DEF HomeKept, H!HomeKept
  <2>1. H!LockNames
    BY MachinesBounds DEF HomeHeld, HomeTyped, Locked, H!LockNames, H!ActiveLock, H!Alive, H!HomeBounds, H!Procs
  <2>2. H!PairingStays
    BY DEF HomeHeld, Knows, Identified, H!PairingStays
  <2> QED BY <2>1, <2>2
<1> QED
  BY <1>1, HomeHeldHolds, PTL

\* The pickers' inductive invariant.
THEOREM PickedHolds == Spec => []Picked
<1>1. Init => Picked
  BY MachinesBounds, ModelInit DEF Init
<1>2. Picked /\ M!Next => Picked'
  BY MachinesBounds, ModelStep
<1>3. Picked /\ UNCHANGED models => Picked'
  BY DEF models, Picked, ModelTyped, Follows, PickLeads, PassedBy
<1> QED
  BY <1>1, <1>2, <1>3, ModelMoves, PTL DEF Spec

\* Once every request is answered and every event folded, each composer on screen shows
\* the model the session runs on, unless the session went past its pick
\* (use-model-choice.ts, the desktop's session route).
THEOREM ModelShownHolds == Spec => []ModelShown
<1>1. Picked => ModelShown
  <2> SUFFICES ASSUME Picked, M!Quiet, NEW c \in M!Clients, onScreen[c], ~passed[c]
               PROVE  M!Shown(c) = model
    BY DEF ModelShown, M!ModelShown
  <2>1. bus[c] = <<>> /\ sends = {}
    BY DEF M!Quiet
  <2>2. row[c] = model
    BY <2>1 DEF Picked, Follows
  <2>3. pick[c] # None => row[c] = pick[c]
    BY <2>1, EmptyElements DEF Picked, PickLeads
  <2> QED BY <2>2, <2>3 DEF M!Shown
<1> QED
  BY <1>1, PickedHolds, PTL

-----------------------------------------------------------------------------
(* The forwarded ports: the theorems *)

\* A step of a reconcile is none of the link.
LEMMA JobsApart ==
  ASSUME NEW e \in F!Effects, F!JobStep(e), Wires, Fresh
  PROVE  (Wires /\ Fresh)'
<1>1. UNCHANGED <<active, effect, wanted, release, follow, calls, callback, toDaemon, toPhone,
                  watched, asked, ports>>
  BY DEF F!JobStep, F!JobStarts, F!CloseOne, F!Closed, F!KeyRead, F!KeyFailed, F!OpenOne, F!Opened,
         F!followVars, F!daemonVars
<1>2. Framed' /\ Linked' /\ InTurns' /\ Intended'
  BY <1>1 DEF Wires, Framed, Linked, InTurns, Intended, At, Subscribes
<1>3. Asking'
  BY <1>1 DEF Wires, Asking, At, Subscribing, Listing, HasFrame
<1>4. Fresh'
  BY <1>1 DEF Fresh, Got, At, HasFrame
<1> QED
  BY <1>2, <1>3, <1>4 DEF Wires

\* The inductive invariant of the forwarded ports.
THEOREM ForwardedHolds == Spec => []Forwarded
<1>1. Init => Forwarded
  BY MachinesBounds, ForwardInit DEF Init
<1>2. Forwarded /\ F!Next => Forwarded'
  <2> SUFFICES ASSUME F!ForwardingBounds, Forwarded, F!Next PROVE Forwarded'
    BY MachinesBounds
  <2>0. ForwardTyped /\ Wires /\ Fresh /\ Jobs
    BY DEF Forwarded
  <2>1. CASE F!Online \/ F!Offline \/ F!Replace \/ F!Background \/ F!Foreground
    BY <2>0, <2>1, PhoneTypes, PhoneWires, PhoneJobs DEF Forwarded
  <2>2. CASE F!Subscribed \/ F!Listed \/ F!Pushed \/ F!Handle \/ (\E f \in F!Follows : F!Answer(f)) \/ F!PortsChange
    <3>1. (Wires /\ Fresh)'
      BY <2>0, <2>2, SubscribedWires, ListedWires, HandleWires, TellWires
    <3> QED BY <2>0, <2>2, <3>1, WireTypes, WireJobs DEF Forwarded, Wires
  <2>3. ASSUME NEW e \in F!Effects, F!JobStep(e) PROVE Forwarded'
    <3>1. Jobs'
      BY <2>0, <2>3, StartJobs, CloseJobs, OpenJobs DEF F!JobStep
    <3> QED BY <2>0, <2>3, <3>1, JobTypes, JobsApart DEF Forwarded
  <2> QED BY <2>1, <2>2, <2>3 DEF F!Next
<1>3. Forwarded /\ UNCHANGED forwarding => Forwarded'
  <2> SUFFICES ASSUME Forwarded, UNCHANGED forwarding PROVE Forwarded'
    OBVIOUS
  <2>1. ForwardTyped'
    BY DEF forwarding, Forwarded, ForwardTyped
  <2>2. Wires'
    BY DEF forwarding, Forwarded, Wires, Framed, Linked, Asking, InTurns, Intended,
           At, Subscribing, Listing, HasFrame, Subscribes
  <2>3. Fresh'
    BY DEF forwarding, Forwarded, Fresh, Got, At, HasFrame
  <2>4. Jobs'
    BY DEF forwarding, Forwarded, Jobs, Held, Staged, Aimed, Shows, Due, Desired, At,
           F!Rests, F!Listening
  <2> QED BY <2>1, <2>2, <2>3, <2>4 DEF Forwarded
<1> QED
  BY <1>1, <1>2, <1>3, ForwardMoves, PTL DEF Spec

\* Once nothing is under way, the phone listens on the Mac's ports exactly while it is in
\* the foreground and online, shows what it listens on, and the daemon watches for it just
\* then (port-forward.ts, daemon-client.ts, router.ts); but for a port that two effects met
\* on, a chain that was rejected and a report that came after its successor's.
THEOREM FollowedHolds == Spec => []Followed
<1>1. Forwarded => Followed
  <2> SUFFICES ASSUME Forwarded, F!Quiet PROVE F!ListensToList /\ F!ShownTrue /\ F!Watched
    BY DEF Followed, F!Followed, F!InStep, F!ListensToList, F!ShownTrue, F!Watched
  <2>0. /\ ForwardTyped /\ Linked /\ Asking /\ Intended /\ Fresh /\ Held /\ Staged /\ Aimed /\ Shows
        /\ toDaemon = <<>> /\ toPhone = <<>> /\ asked = {} /\ \A e \in F!Effects : F!Rests(e)
    BY DEF Forwarded, Wires, Jobs, F!Quiet
  <2>1. \A f : ~Subscribing(f) /\ ~Listing(f)
    BY <2>0, EmptyElements DEF Subscribing, Listing, HasFrame
  <2>2. \A f \in F!Follows : At(f) \notin {"sub", "get"}
    BY <2>0, <2>1 DEF Asking
  <2>3. \A e \in F!Effects : ~Due(e) \/ calls = 0
    BY <2>0, <2>2, MachinesBounds DEF Due, ForwardTyped, F!Follows, F!ForwardingBounds
  <2>4. active /\ effect # 0 => effect \in F!Effects /\ calls # 0 /\ wanted[effect] = ports
    <3>1. active /\ effect # 0 => effect \in F!Effects /\ calls # 0 /\ calls \in F!Follows /\ calls \in 1 .. calls
      BY <2>0, MachinesBounds DEF Linked, ForwardTyped, F!Follows, F!ForwardingBounds
    <3>2. active /\ effect # 0 => At(calls) = "done"
      BY <2>0, <2>2, <3>1 DEF Asking, At, ForwardTyped
    <3> QED BY <2>0, <3>1, <3>2, EmptyElements DEF Fresh, Got
  <2>5. ASSUME broken = {}, NEW e \in F!Effects
        PROVE  open[e] \subseteq Desired(e) /\ Desired(e) \ open[e] \subseteq clashed
    <3>1. job[e].stage = "idle" /\ queued[e] = 0
      BY <2>0, <2>5 DEF F!Rests, Staged
    <3>2. ~Due(e)
      BY <2>3, <2>4 DEF Due, F!Effects
    <3> QED BY <2>0, <3>1, <3>2 DEF Aimed
  <2>6. \A p \in Ports : bound[p] # 0 <=> \E e \in F!Effects : p \in open[e]
    BY <2>0 DEF Held, ForwardTyped, F!Effects
  <2>7. F!ListensToList
    <3>1. ASSUME broken = {}, active, effect # 0
          PROVE  F!Listening \subseteq ports /\ ports \ F!Listening \subseteq clashed
      <4>1. \A e \in F!Effects : open[e] \subseteq ports
        BY <2>4, <2>5, <3>1 DEF Desired
      <4>2. ports \ open[effect] \subseteq clashed /\ effect \in F!Effects /\ ports \subseteq Ports
        BY <2>0, <2>4, <2>5, <3>1 DEF Desired, ForwardTyped
      <4> QED BY <2>6, <4>1, <4>2 DEF F!Listening
    <3>2. ASSUME broken = {}, ~(active /\ effect # 0) PROVE F!Listening = {}
      <4>1. \A e \in F!Effects : open[e] = {}
        BY <2>5, <3>2 DEF Desired, F!Effects
      <4> QED BY <2>6, <4>1 DEF F!Listening
    <3> QED BY <3>1, <3>2 DEF F!ListensToList
  <2>8. F!ShownTrue
    <3>1. ASSUME broken = {}, ~overtaken PROVE shown.listening = F!Listening
      BY <2>0, <3>1 DEF Shows
    <3>2. ASSUME broken = {} PROVE shown.failed \cap F!Listening \subseteq clashed
      <4>1. \A e \in F!Effects : shown.failed \cap open[e] \subseteq clashed
        BY <2>0, <3>2 DEF Shows, F!Rests
      <4> QED BY <2>6, <4>1 DEF F!Listening
    <3> QED BY <3>1, <3>2 DEF F!ShownTrue
  <2>9. F!Watched
    <3>1. watched <=> callback # 0
      BY <2>0, EmptyElements DEF Intended, Subscribes
    <3>2. callback # 0 => active /\ effect # 0
      <4>1. callback # 0 => callback \in F!Follows
        BY <2>0, MachinesBounds DEF ForwardTyped, F!Follows, F!ForwardingBounds
      <4>2. callback # 0 => effect # 0 /\ effect \in F!Effects
        BY <2>0 DEF Linked, ForwardTyped
      <4> QED BY <2>0, <2>2, <4>1, <4>2 DEF Intended, Linked
    <3> QED BY <2>0, <3>1, <3>2 DEF F!Watched, Linked
  <2> QED BY <2>7, <2>8, <2>9
<1> QED
  BY <1>1, ForwardedHolds, PTL

\* What the frames hold, the queries among them, and the answers on their way back.
Carried(queue) == UNION {T!ToSet(f.of) : f \in Elements(queue)}
Queries(queue) == {f.of[1] : f \in {f \in Elements(queue) : f.type = "chunk"}}
Replies(queue) == {m.of : m \in {m \in Elements(queue) : m.type = "in"}}

Ends == {"exited", "closed"}
Opens(queue) == queue # <<>> /\ Head(queue).type = "open"
Ended(queue) == \E f \in Elements(queue) : f.type \in Ends

\* "open" comes first, and nothing after the end.
Framing(queue) == \A i \in 1 .. Len(queue) :
  /\ queue[i].type = "open" => i = 1 /\ queue[i].of = <<>>
  /\ queue[i].type = "chunk" => Len(queue[i].of) = 1
  /\ queue[i].type \in Ends => i = Len(queue) /\ queue[i].of = <<>>

\* The frames hold the output in the order it was written.
Flows(queue) ==
  /\ \A i \in 1 .. Len(queue) : T!InTurn(queue[i].of)
  /\ \A i, j \in 1 .. Len(queue) : i < j =>
       \A x \in T!ToSet(queue[i].of), y \in T!ToSet(queue[j].of) : x < y

LEMMA TurnSet ==
  ASSUME NEW S, NEW s \in Seq(S)
  PROVE  /\ T!ToSet(s) = Elements(s) /\ T!ToSet(s) \subseteq S /\ DOMAIN s = 1 .. Len(s) /\ Len(s) \in Nat
         /\ \A n \in T!ToSet(s) : \E i \in 1 .. Len(s) : n = s[i]
         /\ \A i \in 1 .. Len(s) : s[i] \in T!ToSet(s)
  BY LenProperties, ElementOfSeq DEF T!ToSet, Elements

LEMMA TurnEmpty == T!ToSet(<<>>) = {} /\ T!InTurn(<<>>)
  BY DEF T!ToSet, T!InTurn

LEMMA TurnAppend ==
  ASSUME NEW S, NEW s \in Seq(S), NEW n \in S
  PROVE  /\ T!ToSet(Append(s, n)) = T!ToSet(s) \cup {n}
         /\ T!InTurn(s) /\ (\A x \in T!ToSet(s) : x < n) => T!InTurn(Append(s, n))
<1> DEFINE r == Append(s, n)
<1>1. /\ r \in Seq(S) /\ Len(r) = Len(s) + 1 /\ r[Len(s) + 1] = n
      /\ \A i \in 1 .. Len(s) : r[i] = s[i]
  BY AppendProperties
<1> HIDE DEF r
<1>2. /\ DOMAIN r = 1 .. Len(r) /\ T!ToSet(r) = Elements(r) /\ T!ToSet(s) = Elements(s)
      /\ DOMAIN s = 1 .. Len(s) /\ Len(s) \in Nat
  BY <1>1, TurnSet
<1>3. Elements(r) = Elements(s) \cup {n}
  BY AppendElements DEF r
<1>4. ASSUME T!InTurn(s), \A x \in Elements(s) : x < n PROVE T!InTurn(r)
  BY <1>1, <1>2, <1>4 DEF T!InTurn, Elements
<1> QED BY <1>2, <1>3, <1>4 DEF r

LEMMA TurnTail ==
  ASSUME NEW S, S \subseteq Nat, NEW s \in Seq(S), s # <<>>
  PROVE  /\ T!ToSet(s) = T!ToSet(Tail(s)) \cup {Head(s)} /\ Head(s) \in S /\ Tail(s) \in Seq(S)
         /\ T!InTurn(s) => T!InTurn(Tail(s)) /\ \A x \in T!ToSet(Tail(s)) : Head(s) < x
<1> DEFINE r == Tail(s)
<1>1. /\ r \in Seq(S) /\ Len(r) = Len(s) - 1 /\ Head(s) = s[1] /\ Head(s) \in S
      /\ \A i \in 1 .. Len(r) : r[i] = s[i + 1]
  BY HeadTailProperties
<1> HIDE DEF r
<1>2. /\ DOMAIN r = 1 .. Len(r) /\ T!ToSet(r) = Elements(r) /\ T!ToSet(s) = Elements(s)
      /\ DOMAIN s = 1 .. Len(s) /\ Len(s) \in Nat /\ Len(r) \in Nat
  BY <1>1, TurnSet
<1>3. Elements(s) = Elements(r) \cup {Head(s)}
  BY TailElements DEF r
<1>4. ASSUME T!InTurn(s) PROVE T!InTurn(r) /\ \A x \in Elements(r) : Head(s) < x
  <2>1. T!InTurn(r)
    <3> SUFFICES ASSUME NEW i \in 1 .. Len(r), NEW j \in 1 .. Len(r), i < j PROVE r[i] < r[j]
      BY <1>2 DEF T!InTurn
    <3>1. i + 1 \in 1 .. Len(s) /\ j + 1 \in 1 .. Len(s) /\ i + 1 < j + 1
      BY <1>1, <1>2
    <3> QED BY <1>1, <1>2, <1>4, <3>1 DEF T!InTurn
  <2>2. ASSUME NEW x \in Elements(r) PROVE Head(s) < x
    <3>1. PICK i \in 1 .. Len(r) : x = r[i]
      BY <2>2 DEF Elements
    <3>2. x = s[i + 1] /\ 1 \in 1 .. Len(s) /\ i + 1 \in 1 .. Len(s) /\ 1 < i + 1
      BY <1>1, <1>2, <3>1
    <3> QED BY <1>1, <1>2, <1>4, <3>2 DEF T!InTurn
  <2> QED BY <2>1, <2>2
<1> QED BY <1>1, <1>2, <1>3, <1>4 DEF r

LEMMA TurnConcat ==
  ASSUME NEW S, NEW s \in Seq(S), NEW t \in Seq(S)
  PROVE  /\ T!ToSet(s \o t) = T!ToSet(s) \cup T!ToSet(t)
         /\ T!InTurn(s) /\ T!InTurn(t) /\ (\A x \in T!ToSet(s), y \in T!ToSet(t) : x < y) => T!InTurn(s \o t)
<1> DEFINE r == s \o t
<1>1. /\ r \in Seq(S) /\ Len(r) = Len(s) + Len(t)
      /\ \A i \in 1 .. Len(s) + Len(t) : r[i] = IF i <= Len(s) THEN s[i] ELSE t[i - Len(s)]
  BY ConcatProperties
<1> HIDE DEF r
<1>2. /\ DOMAIN r = 1 .. Len(r) /\ DOMAIN s = 1 .. Len(s) /\ DOMAIN t = 1 .. Len(t)
      /\ Len(s) \in Nat /\ Len(t) \in Nat
  BY <1>1, TurnSet
<1>3. T!ToSet(r) = T!ToSet(s) \cup T!ToSet(t)
  <2>1. ASSUME NEW i \in 1 .. Len(r) PROVE r[i] \in T!ToSet(s) \cup T!ToSet(t)
    <3>1. CASE i <= Len(s)
      BY <1>1, <1>2, <3>1 DEF T!ToSet
    <3>2. CASE i > Len(s)
      <4>1. i - Len(s) \in 1 .. Len(t) /\ r[i] = t[i - Len(s)]
        BY <1>1, <1>2, <3>2
      <4> QED BY <1>2, <4>1 DEF T!ToSet
    <3> QED BY <1>2, <3>1, <3>2
  <2>2. T!ToSet(s) \subseteq T!ToSet(r)
    BY <1>1, <1>2 DEF T!ToSet
  <2>3. ASSUME NEW i \in 1 .. Len(t) PROVE t[i] \in T!ToSet(r)
    <3>1. /\ i + Len(s) \in 1 .. Len(s) + Len(t) /\ ~(i + Len(s) <= Len(s))
          /\ (i + Len(s)) - Len(s) = i
      BY <1>2
    <3>2. i + Len(s) \in 1 .. Len(r) /\ r[i + Len(s)] = t[i]
      BY <1>1, <3>1
    <3> QED BY <1>2, <3>2 DEF T!ToSet
  <2> QED BY <1>2, <2>1, <2>2, <2>3 DEF T!ToSet
<1>4. ASSUME T!InTurn(s), T!InTurn(t), \A x \in T!ToSet(s), y \in T!ToSet(t) : x < y,
             NEW i \in 1 .. Len(r), NEW j \in 1 .. Len(r), i < j
      PROVE  r[i] < r[j]
  <2>1. CASE j <= Len(s)
    BY <1>1, <1>2, <1>4, <2>1 DEF T!InTurn
  <2>2. CASE i > Len(s)
    <3>1. /\ r[i] = t[i - Len(s)] /\ r[j] = t[j - Len(s)] /\ i - Len(s) < j - Len(s)
          /\ i - Len(s) \in 1 .. Len(t) /\ j - Len(s) \in 1 .. Len(t)
      BY <1>1, <1>2, <1>4, <2>2
    <3> QED BY <1>2, <1>4, <3>1 DEF T!InTurn
  <2>3. CASE i <= Len(s) /\ j > Len(s)
    <3>1. /\ r[i] = s[i] /\ r[j] = t[j - Len(s)]
          /\ i \in 1 .. Len(s) /\ j - Len(s) \in 1 .. Len(t)
      BY <1>1, <1>2, <1>4, <2>3
    <3> QED BY <1>2, <1>4, <3>1 DEF T!ToSet
  <2> QED BY <1>2, <2>1, <2>2, <2>3
<1>5. T!InTurn(s) /\ T!InTurn(t) /\ (\A x \in T!ToSet(s), y \in T!ToSet(t) : x < y) => T!InTurn(r)
  BY <1>2, <1>4 DEF T!InTurn
<1> QED BY <1>3, <1>5 DEF r

\* Two parts of what is in turn are in turn, and the first goes before the second.
LEMMA TurnParts ==
  ASSUME NEW S, S \subseteq Nat, NEW s \in Seq(S), NEW t \in Seq(S), T!InTurn(s \o t)
  PROVE  /\ T!InTurn(s) /\ T!InTurn(t)
         /\ \A x \in T!ToSet(s), y \in T!ToSet(t) : x < y
<1> DEFINE r == s \o t
<1>1. /\ r \in Seq(S) /\ Len(r) = Len(s) + Len(t)
      /\ \A i \in 1 .. Len(s) + Len(t) : r[i] = IF i <= Len(s) THEN s[i] ELSE t[i - Len(s)]
  BY ConcatProperties
<1>0. T!InTurn(r)
  OBVIOUS
<1> HIDE DEF r
<1>2. /\ DOMAIN r = 1 .. Len(r) /\ DOMAIN s = 1 .. Len(s) /\ DOMAIN t = 1 .. Len(t)
      /\ Len(s) \in Nat /\ Len(t) \in Nat
  BY <1>1, TurnSet
<1>3. T!InTurn(s)
  BY <1>0, <1>1, <1>2 DEF T!InTurn
<1>4. ASSUME NEW i \in 1 .. Len(t) PROVE i + Len(s) \in 1 .. Len(r) /\ r[i + Len(s)] = t[i]
  <2>1. /\ i + Len(s) \in 1 .. Len(s) + Len(t) /\ ~(i + Len(s) <= Len(s))
        /\ (i + Len(s)) - Len(s) = i
    BY <1>2
  <2> QED BY <1>1, <2>1
<1>5. T!InTurn(t)
  <2> SUFFICES ASSUME NEW i \in 1 .. Len(t), NEW j \in 1 .. Len(t), i < j PROVE t[i] < t[j]
    BY <1>2 DEF T!InTurn
  <2>1. i + Len(s) < j + Len(s)
    BY <1>2
  <2> QED BY <1>0, <1>2, <1>4, <2>1 DEF T!InTurn
<1>6. ASSUME NEW i \in 1 .. Len(s), NEW j \in 1 .. Len(t) PROVE s[i] < t[j]
  <2>1. i \in 1 .. Len(r) /\ r[i] = s[i] /\ i < j + Len(s)
    BY <1>1, <1>2
  <2> QED BY <1>0, <1>2, <1>4, <2>1 DEF T!InTurn
<1> QED BY <1>2, <1>3, <1>5, <1>6 DEF T!ToSet

\* What the mirror parses next moves from the one part to the other.
LEMMA TurnMoves ==
  ASSUME NEW S, NEW s \in Seq(S), NEW t \in Seq(S)
  PROVE  /\ t # <<>> => Append(s, Head(t)) \o Tail(t) = s \o t
         /\ \A n \in S : s \o Append(t, n) = Append(s \o t, n)
<1>1. ASSUME t # <<>> PROVE Append(s, Head(t)) \o Tail(t) = s \o t
  <2> DEFINE a == Append(s, Head(t))
             p == a \o Tail(t)
             q == s \o t
  <2>1. /\ Head(t) \in S /\ Tail(t) \in Seq(S) /\ Len(Tail(t)) = Len(t) - 1 /\ Head(t) = t[1]
        /\ \A i \in 1 .. Len(Tail(t)) : Tail(t)[i] = t[i + 1]
    BY <1>1, HeadTailProperties
  <2>2. /\ a \in Seq(S) /\ Len(a) = Len(s) + 1 /\ a[Len(s) + 1] = Head(t)
        /\ \A i \in 1 .. Len(s) : a[i] = s[i]
    BY <2>1, AppendProperties
  <2> HIDE DEF a
  <2>3. /\ p \in Seq(S) /\ Len(p) = Len(a) + Len(Tail(t))
        /\ \A i \in 1 .. Len(a) + Len(Tail(t)) : p[i] = IF i <= Len(a) THEN a[i] ELSE Tail(t)[i - Len(a)]
    BY <2>1, <2>2, ConcatProperties
  <2>4. /\ q \in Seq(S) /\ Len(q) = Len(s) + Len(t)
        /\ \A i \in 1 .. Len(s) + Len(t) : q[i] = IF i <= Len(s) THEN s[i] ELSE t[i - Len(s)]
    BY ConcatProperties
  <2> HIDE DEF p, q
  <2>5. Len(s) \in Nat /\ Len(t) \in Nat
    BY LenProperties
  <2>6. ASSUME NEW i \in 1 .. Len(p) PROVE p[i] = q[i]
    <3>1. CASE i <= Len(s)
      <4>1. i \in 1 .. Len(s) /\ i <= Len(a) /\ i \in 1 .. Len(s) + Len(t)
        BY <2>1, <2>2, <2>3, <2>5, <3>1
      <4> QED BY <2>2, <2>3, <2>4, <3>1, <4>1
    <3>2. CASE i = Len(s) + 1
      BY <2>1, <2>2, <2>3, <2>4, <2>5, <3>2
    <3>3. CASE i > Len(s) + 1
      <4>1. i - Len(a) \in 1 .. Len(Tail(t)) /\ p[i] = Tail(t)[i - Len(a)]
        BY <2>1, <2>2, <2>3, <2>5, <3>3
      <4>2. q[i] = t[i - Len(s)] /\ i - Len(s) = (i - Len(a)) + 1
        BY <2>1, <2>2, <2>3, <2>4, <2>5, <3>3
      <4> QED BY <2>1, <4>1, <4>2
    <3> QED BY <2>5, <3>1, <3>2, <3>3
  <2> QED BY <2>1, <2>2, <2>3, <2>4, <2>5, <2>6, SeqEqual DEF p, q, a
<1>2. ASSUME NEW n \in S PROVE s \o Append(t, n) = Append(s \o t, n)
  <2>1. <<n>> \in Seq(S) /\ Append(t, n) = t \o <<n>>
    BY AppendIsConcat
  <2>2. s \o t \in Seq(S)
    BY ConcatProperties
  <2>3. Append(s \o t, n) = (s \o t) \o <<n>>
    BY <2>2, AppendIsConcat
  <2> QED BY <2>1, <2>3, ConcatAssociative
<1> QED BY <1>1, <1>2

-----------------------------------------------------------------------------
(* The frames on their way *)

LEMMA CarriedBy ==
  ASSUME NEW q \in Seq(T!Frames)
  PROVE  /\ \A f \in Elements(q) : f \in T!Frames /\ T!ToSet(f.of) \subseteq Carried(q)
         /\ Carried(q) \subseteq T!Chunks
         /\ \A n \in Carried(q) : \E i \in 1 .. Len(q) : n \in T!ToSet(q[i].of)
         /\ Framing(q) => Queries(q) \subseteq Carried(q)
         /\ Framing(q) => \A f \in Elements(q) : f.type = "chunk" => f.of = <<f.of[1]>> /\ f.of[1] \in T!Chunks /\ T!ToSet(f.of) = {f.of[1]}
<1>1. \A f \in Elements(q) : f \in T!Frames
  BY LenProperties DEF Elements
<1>2. \A f \in T!Frames : f.of \in Seq(T!Chunks) /\ T!ToSet(f.of) \subseteq T!Chunks
  BY TurnSet DEF T!Frames
<1>3. ASSUME NEW f \in T!Frames, Len(f.of) = 1
      PROVE  f.of = <<f.of[1]>> /\ f.of[1] \in T!Chunks /\ T!ToSet(f.of) = {f.of[1]}
  <2>1. f.of \in Seq(T!Chunks) /\ 1 \in 1 .. Len(f.of) /\ f.of[1] \in T!Chunks
    BY <1>2, <1>3, LenProperties
  <2>2. /\ <<f.of[1]>> \in Seq(T!Chunks) /\ Len(<<f.of[1]>>) = 1
        /\ \A i \in 1 .. Len(f.of) : f.of[i] = <<f.of[1]>>[i]
    BY <1>3, <2>1
  <2>3. f.of = <<f.of[1]>>
    BY <1>3, <2>1, <2>2, SeqEqual
  <2>4. T!ToSet(f.of) = {f.of[1]}
    BY <1>3, <2>1, LenProperties DEF T!ToSet
  <2> QED BY <2>1, <2>3, <2>4
<1>4. Framing(q) => \A f \in Elements(q) : f.type = "chunk" => Len(f.of) = 1
  BY DEF Framing, Elements
<1>5. ASSUME NEW n \in Carried(q) PROVE \E i \in 1 .. Len(q) : n \in T!ToSet(q[i].of)
  <2>1. PICK f \in Elements(q) : n \in T!ToSet(f.of)
    BY DEF Carried
  <2> QED BY <2>1 DEF Elements
<1>6. \A f \in Elements(q) : T!ToSet(f.of) \subseteq Carried(q)
  BY DEF Carried
<1>7. Carried(q) \subseteq T!Chunks
  BY <1>1, <1>2 DEF Carried
<1>8. Framing(q) => \A f \in Elements(q) : f.type = "chunk" => f.of = <<f.of[1]>> /\ f.of[1] \in T!Chunks /\ T!ToSet(f.of) = {f.of[1]}
  BY <1>1, <1>3, <1>4
<1>9. Framing(q) => Queries(q) \subseteq Carried(q)
  BY <1>6, <1>8 DEF Queries
<1> QED BY <1>1, <1>5, <1>6, <1>7, <1>8, <1>9

LEMMA FrameNone ==
  /\ <<>> \in Seq(T!Frames) /\ Framing(<<>>) /\ Flows(<<>>)
  /\ Carried(<<>>) = {} /\ Queries(<<>>) = {} /\ Replies(<<>>) = {} /\ ~Ended(<<>>) /\ ~Opens(<<>>)
  BY EmptyElements DEF Framing, Flows, Carried, Queries, Replies, Ended, Opens

LEMMA FrameAdded ==
  ASSUME NEW q \in Seq(T!Frames), NEW f \in T!Frames, ~Ended(q), f.type # "open" \/ q = <<>>,
         f.type = "chunk" => Len(f.of) = 1, f.type \in Ends \cup {"open"} => f.of = <<>>,
         T!InTurn(f.of), \A x \in Carried(q), y \in T!ToSet(f.of) : x < y, Framing(q), Flows(q)
  PROVE  /\ Append(q, f) \in Seq(T!Frames) /\ Append(q, f) # <<>>
         /\ Framing(Append(q, f)) /\ Flows(Append(q, f))
         /\ Carried(Append(q, f)) = Carried(q) \cup T!ToSet(f.of)
         /\ Queries(Append(q, f)) = Queries(q) \cup (IF f.type = "chunk" THEN {f.of[1]} ELSE {})
         /\ Ended(Append(q, f)) <=> f.type \in Ends
         /\ Opens(Append(q, f)) <=> IF q = <<>> THEN f.type = "open" ELSE Opens(q)
<1> DEFINE r == Append(q, f)
<1>1. /\ r \in Seq(T!Frames) /\ r # <<>> /\ Len(r) = Len(q) + 1 /\ r[Len(q) + 1] = f /\ Len(q) \in Nat
      /\ \A i \in 1 .. Len(q) : r[i] = q[i]
      /\ Elements(r) = Elements(q) \cup {f}
  BY AppendProperties, AppendElements, LenProperties
<1>2. Opens(r) <=> IF q = <<>> THEN f.type = "open" ELSE Opens(q)
  <2>1. Head(r) = IF q = <<>> THEN f ELSE Head(q)
    BY HeadTailAppend
  <2> QED BY <1>1, <2>1 DEF Opens
<1>0. q = <<>> => Len(q) = 0
  OBVIOUS
<1> HIDE DEF r
<1>3. \A i \in 1 .. Len(q) : q[i].type \notin Ends
  BY DEF Ended, Elements
<1>4. Framing(r)
  <2> SUFFICES ASSUME NEW i \in 1 .. Len(r)
               PROVE  /\ r[i].type = "open" => i = 1 /\ r[i].of = <<>>
                      /\ r[i].type = "chunk" => Len(r[i].of) = 1
                      /\ r[i].type \in Ends => i = Len(r) /\ r[i].of = <<>>
    BY DEF Framing
  <2>1. CASE i \in 1 .. Len(q)
    BY <1>1, <1>3, <2>1 DEF Framing
  <2>2. CASE i = Len(q) + 1
    BY <1>0, <1>1, <2>2
  <2> QED BY <1>1, <2>1, <2>2
<1>5. Flows(r)
  <2>1. ASSUME NEW i \in 1 .. Len(r) PROVE T!InTurn(r[i].of)
    <3>1. CASE i \in 1 .. Len(q)
      BY <1>1, <3>1 DEF Flows
    <3>2. CASE i = Len(q) + 1
      BY <1>1, <3>2
    <3> QED BY <1>1, <3>1, <3>2
  <2>2. ASSUME NEW i \in 1 .. Len(r), NEW j \in 1 .. Len(r), i < j,
               NEW x \in T!ToSet(r[i].of), NEW y \in T!ToSet(r[j].of)
        PROVE  x < y
    <3>1. i \in 1 .. Len(q) /\ r[i] = q[i]
      BY <1>1, <2>2
    <3>2. CASE j \in 1 .. Len(q)
      BY <1>1, <2>2, <3>1, <3>2 DEF Flows
    <3>3. CASE j = Len(q) + 1
      <4>1. x \in Carried(q)
        BY <2>2, <3>1 DEF Carried, Elements
      <4> QED BY <1>1, <2>2, <3>3, <4>1
    <3> QED BY <1>1, <3>2, <3>3
  <2> QED BY <2>1, <2>2 DEF Flows
<1>6. /\ Carried(r) = Carried(q) \cup T!ToSet(f.of)
      /\ Ended(r) <=> f.type \in Ends
  BY <1>1 DEF Carried, Ended
<1>7. Queries(r) = Queries(q) \cup (IF f.type = "chunk" THEN {f.of[1]} ELSE {})
  BY <1>1 DEF Queries
<1> QED BY <1>1, <1>2, <1>4, <1>5, <1>6, <1>7 DEF r

LEMMA FrameTaken ==
  ASSUME NEW q \in Seq(T!Frames), q # <<>>, Framing(q), Flows(q)
  PROVE  /\ Tail(q) \in Seq(T!Frames) /\ Head(q) \in T!Frames /\ Head(q) \in Elements(q)
         /\ Framing(Tail(q)) /\ Flows(Tail(q)) /\ T!InTurn(Head(q).of)
         /\ Carried(q) = Carried(Tail(q)) \cup T!ToSet(Head(q).of)
         /\ \A x \in T!ToSet(Head(q).of), y \in Carried(Tail(q)) : x < y
         /\ Queries(q) = Queries(Tail(q)) \cup (IF Head(q).type = "chunk" THEN {Head(q).of[1]} ELSE {})
         /\ ~Opens(Tail(q))
         /\ Head(q).type \notin Ends => (Ended(Tail(q)) <=> Ended(q))
         /\ Head(q).type \in Ends => Tail(q) = <<>>
         /\ Head(q).type \in Ends \cup {"open"} => Head(q).of = <<>>
         /\ Head(q).type = "chunk" => Head(q).of = <<Head(q).of[1]>> /\ Head(q).of[1] \in T!Chunks
                                      /\ T!ToSet(Head(q).of) = {Head(q).of[1]}
<1> DEFINE r == Tail(q)
           h == Head(q)
<1>1. /\ r \in Seq(T!Frames) /\ h \in T!Frames /\ Len(r) = Len(q) - 1 /\ h = q[1] /\ Len(q) \in Nat /\ Len(q) >= 1
      /\ \A i \in 1 .. Len(r) : r[i] = q[i + 1] /\ i + 1 \in 1 .. Len(q)
      /\ Elements(q) = Elements(r) \cup {h} /\ h \in Elements(q)
  <2>1. /\ r \in Seq(T!Frames) /\ h \in T!Frames /\ Len(r) = Len(q) - 1 /\ h = q[1] /\ Len(q) \in Nat /\ Len(q) >= 1
        /\ \A i \in 1 .. Len(r) : r[i] = q[i + 1]
    BY HeadTailProperties, LenProperties, EmptySeq
  <2> QED BY <2>1, TailElements
<1>2. r = <<>> <=> Len(r) = 0
  BY <1>1, EmptySeq
<1>3. ~Opens(r)
  <2>1. r # <<>> => Head(r) = q[2] /\ 2 \in 1 .. Len(q)
    BY <1>1, <1>2, LenProperties
  <2> QED BY <2>1 DEF Opens, Framing
<1> HIDE DEF r, h
<1>4. Framing(r)
  <2> SUFFICES ASSUME NEW i \in 1 .. Len(r)
               PROVE  /\ r[i].type = "open" => i = 1 /\ r[i].of = <<>>
                      /\ r[i].type = "chunk" => Len(r[i].of) = 1
                      /\ r[i].type \in Ends => i = Len(r) /\ r[i].of = <<>>
    BY DEF Framing
  <2>1. r[i] = q[i + 1] /\ i + 1 \in 1 .. Len(q) /\ i + 1 # 1 /\ (i + 1 = Len(q) => i = Len(r))
    BY <1>1
  <2> QED BY <2>1 DEF Framing
<1>5. Flows(r) /\ T!InTurn(h.of)
  <2>1. \A i \in 1 .. Len(r) : T!InTurn(r[i].of)
    BY <1>1 DEF Flows
  <2>2. ASSUME NEW i \in 1 .. Len(r), NEW j \in 1 .. Len(r), i < j,
               NEW x \in T!ToSet(r[i].of), NEW y \in T!ToSet(r[j].of)
        PROVE  x < y
    <3>1. /\ r[i] = q[i + 1] /\ i + 1 \in 1 .. Len(q) /\ r[j] = q[j + 1] /\ j + 1 \in 1 .. Len(q)
          /\ i + 1 < j + 1
      BY <1>1, <2>2
    <3> QED BY <2>2, <3>1 DEF Flows
  <2>3. T!InTurn(h.of)
    BY <1>1 DEF Flows
  <2> QED BY <2>1, <2>2, <2>3 DEF Flows
<1>6. Carried(q) = Carried(r) \cup T!ToSet(h.of)
  BY <1>1 DEF Carried
<1>7. ASSUME NEW x \in T!ToSet(h.of), NEW y \in Carried(r) PROVE x < y
  <2>1. PICK i \in 1 .. Len(r) : y \in T!ToSet(r[i].of)
    BY <1>1, <1>7, CarriedBy
  <2>2. i + 1 \in 1 .. Len(q) /\ r[i] = q[i + 1] /\ 1 \in 1 .. Len(q) /\ 1 < i + 1
    BY <1>1
  <2> QED BY <1>1, <1>7, <2>1, <2>2 DEF Flows
<1>8. Queries(q) = Queries(r) \cup (IF h.type = "chunk" THEN {h.of[1]} ELSE {})
  BY <1>1 DEF Queries
<1>9. h.type \notin Ends => (Ended(r) <=> Ended(q))
  BY <1>1 DEF Ended
<1>10. h.type \in Ends => r = <<>>
  <2>1. h.type \in Ends => Len(q) = 1
    BY <1>1 DEF Framing
  <2> QED BY <1>1, <1>2, <2>1
<1>11. h.type \in Ends \cup {"open"} => h.of = <<>>
  BY <1>1 DEF Framing
<1>12. h.type = "chunk" => h.of = <<h.of[1]>> /\ h.of[1] \in T!Chunks /\ T!ToSet(h.of) = {h.of[1]}
  BY <1>1, CarriedBy
<1> QED BY <1>1, <1>3, <1>4, <1>5, <1>6, <1>7, <1>8, <1>9, <1>10, <1>11, <1>12 DEF r, h

\* The messages of a socket: the answers in order.
LEMMA MessageAdded ==
  ASSUME NEW q \in Seq(T!Messages), NEW m \in T!Messages, Ascending(q, "in"),
         m.type = "in" => \A n \in Replies(q) : n < m.of
  PROVE  /\ Append(q, m) \in Seq(T!Messages) /\ Ascending(Append(q, m), "in")
         /\ Replies(Append(q, m)) = Replies(q) \cup (IF m.type = "in" THEN {m.of} ELSE {})
         /\ Elements(Append(q, m)) = Elements(q) \cup {m}
<1>1. Append(q, m) \in Seq(T!Messages) /\ Elements(Append(q, m)) = Elements(q) \cup {m}
  BY AppendElements
<1>2. Ascending(Append(q, m), "in")
  BY AppendAscending DEF Replies
<1> QED BY <1>1, <1>2 DEF Replies

LEMMA MessageTaken ==
  ASSUME NEW q \in Seq(T!Messages), q # <<>>, Ascending(q, "in")
  PROVE  /\ Tail(q) \in Seq(T!Messages) /\ Head(q) \in T!Messages /\ Head(q) \in Elements(q)
         /\ Ascending(Tail(q), "in")
         /\ Replies(q) = Replies(Tail(q)) \cup (IF Head(q).type = "in" THEN {Head(q).of} ELSE {})
         /\ Head(q).type = "in" => Head(q).of \notin Replies(Tail(q))
         /\ Elements(q) = Elements(Tail(q)) \cup {Head(q)}
<1>1. /\ Tail(q) \in Seq(T!Messages) /\ Head(q) \in T!Messages /\ Head(q) \in Elements(q)
      /\ Elements(q) = Elements(Tail(q)) \cup {Head(q)}
  BY TailElements
<1>2. /\ Ascending(Tail(q), "in")
      /\ Head(q).type = "in" => \A x \in Elements(Tail(q)) : x.type = "in" => Head(q).of < x.of
  BY TailAscending
<1>3. \A x \in Elements(Tail(q)) : x.of \in Int
  <2>1. \A x \in T!Messages : x.of \in Int
    BY DEF T!Messages, T!Chunks
  <2>2. \A x \in Elements(Tail(q)) : x \in T!Messages
    BY <1>1, TurnSet
  <2> QED BY <2>1, <2>2
<1>4. Head(q).type = "in" => Head(q).of \notin Replies(Tail(q))
  BY <1>2, <1>3 DEF Replies
<1> QED BY <1>1, <1>2, <1>4 DEF Replies

-----------------------------------------------------------------------------
(* The inductive invariant *)

Served == {c \in T!Conns : shellOf[c] # 0}

\* The type invariant in three parts: the shell's, the pane's and the sockets'.
ShellTyped ==
  /\ shells \in 0 .. MaxConns /\ shell \in {0, shells}
  /\ written \in Seq(T!Chunks) /\ unparsed \in Seq(T!Chunks) /\ mirror \in Seq(T!Chunks)
  /\ mirror \o unparsed = written
  /\ socket \in 0 .. conns /\ grid \in 0 .. panes
  /\ socket # 0 => shell # 0 /\ shellOf[socket] = shell
PaneTyped ==
  /\ tab \in BOOLEAN
  /\ panes \in 0 .. MaxPanes /\ pane \in {0, panes}
  /\ pane # 0 => tab
  /\ conn \in 0 .. conns /\ seen \in Seq(T!Chunks)
SocketTyped ==
  /\ conns \in 0 .. MaxConns
  /\ ownerOf \in [T!Conns -> T!Panes \cup {0}] /\ shellOf \in [T!Conns -> T!Shells \cup {0}]
  /\ closed \subseteq 1 .. conns
  /\ toClient \in [T!Conns -> Seq(T!Frames)] /\ toServer \in [T!Conns -> Seq(T!Messages)]
HistoryTyped ==
  /\ out \in 0 .. MaxOutput /\ answers \in [T!Chunks -> Nat]
  /\ skipped \subseteq T!Chunks /\ torn \subseteq T!Chunks /\ late \in BOOLEAN

\* A pane is mounted with its socket; a shell that is gone left nothing; a socket has one
\* shell; the output is in order; a socket to come carries nothing.
PaneHas ==
  /\ pane = 0 => conn = 0
  /\ conn # 0 => ownerOf[conn] = pane /\ conn \notin closed
ShellHas ==
  /\ shell = 0 => written = <<>> /\ socket = 0
  /\ T!InTurn(written) /\ T!ToSet(written) \subseteq 1 .. out /\ skipped \subseteq 1 .. out
  /\ \A n \in T!Chunks : n > out => answers[n] = 0
SocketHas ==
  /\ shells <= Cardinality(Served)
  /\ \A c \in T!Conns : c > conns => shellOf[c] = 0 /\ toClient[c] = <<>> /\ toServer[c] = <<>>
  /\ \A c \in T!Conns : ownerOf[c] <= panes

TermTyped == ShellTyped /\ PaneTyped /\ SocketTyped /\ HistoryTyped /\ PaneHas /\ ShellHas /\ SocketHas

\* Output goes down a socket in order and its answers come back in order; a socket that was not
\* attached carries nothing but its refusal, and no answers.
Wired(c) ==
  /\ Framing(toClient[c]) /\ Flows(toClient[c]) /\ Carried(toClient[c]) \subseteq 1 .. out
  /\ Ascending(toServer[c], "in") /\ Replies(toServer[c]) \subseteq 1 .. out
  /\ \A n \in Replies(toServer[c]), m \in Queries(toClient[c]) : n < m
  /\ shellOf[c] = 0 => /\ Replies(toServer[c]) = {}
                       /\ \A f \in Elements(toClient[c]) : f.type \in {"open", "closed"}
SocketsWired == \A c \in T!Conns : Wired(c)

\* The pane's socket is the one attached until its end is on its way.
Live ==
  /\ conn # 0 /\ shellOf[conn] # 0 /\ ~Ended(toClient[conn]) => socket = conn
  /\ socket # 0 => ~Ended(toClient[socket])

\* What the pane shows and what is on its way to it make up the output.
Showing ==
  conn # 0 /\ conn = socket =>
    /\ (IF Opens(toClient[conn]) THEN {} ELSE T!ToSet(seen)) \cup Carried(toClient[conn])
         = T!ToSet(written) \ skipped
    /\ ~Opens(toClient[conn]) =>
         T!InTurn(seen) /\ \A x \in T!ToSet(seen), y \in Carried(toClient[conn]) : x < y

\* The pane's size is the shell's, or will be sent, or is on its way.
Sized ==
  conn # 0 /\ conn = socket =>
    \/ Opens(toClient[conn]) \/ grid = pane \/ late
    \/ \E m \in Elements(toServer[conn]) : m.type = "size"

\* A query is under way in one place.
Numbers(c) == Replies(toServer[c]) \cup Queries(toClient[c])
Apart ==
  /\ \A c, d \in T!Conns : c # d => Numbers(c) \cap Numbers(d) = {}
  /\ \A c \in T!Conns : c # socket => Queries(toClient[c]) \cap T!ToSet(written) \subseteq torn
  /\ socket = 0 => \A c \in T!Conns : T!ToSet(unparsed) \cap Numbers(c) \subseteq torn

\* The queries that are yet to be answered, by the mirror or by the pane.
Owed ==
  (IF socket = 0 THEN T!ToSet(unparsed) ELSE Queries(toClient[socket]))
    \cup UNION {Replies(toServer[c]) : c \in {c \in T!Conns : shellOf[c] = shell}}
Settled == \A n \in T!ToSet(written) \ torn : answers[n] = IF n \in Owed THEN 0 ELSE 1

TermHeld == TermTyped /\ SocketsWired /\ Live /\ Showing /\ Sized /\ Apart /\ Settled

-----------------------------------------------------------------------------
(* Its steps: the types *)

PaneStep == T!OpenTab \/ T!Mount \/ T!Unmount \/ T!CloseTab \/ T!Connect \/ T!Lost
TakeStep == T!Opened \/ T!Restored \/ T!Shown \/ T!ExitTold \/ T!CloseTold
ServerStep == \E c \in T!Conns : T!SpawnFails(c) \/ T!Spawn(c) \/ T!Adopt(c) \/ T!Handle(c) \/ T!CloseSeen(c)
ShellStep == T!Write \/ T!Parse \/ T!Exit

LEMMA FrameKinds ==
  ASSUME NEW s \in Seq(T!Chunks)
  PROVE  \A type \in {"open", "snapshot", "chunk", "exited", "closed"} :
           T!Frame(type, s) \in T!Frames /\ T!Frame(type, s).type = type /\ T!Frame(type, s).of = s
  BY DEF T!Frame, T!Frames

\* What a socket that is refused is sent.
Refusal == <<T!Frame("open", <<>>), T!Frame("closed", <<>>)>>
LEMMA RefusalFrames ==
  /\ Refusal \in Seq(T!Frames) /\ Framing(Refusal) /\ Flows(Refusal)
  /\ Carried(Refusal) = {} /\ Queries(Refusal) = {}
  /\ \A f \in Elements(Refusal) : f.type \in {"open", "closed"}
<1> DEFINE f == T!Frame("open", <<>>)
           g == T!Frame("closed", <<>>)
<1>1. /\ f \in T!Frames /\ f.type = "open" /\ f.of = <<>> /\ f.type \notin Ends
      /\ g \in T!Frames /\ g.type = "closed" /\ g.of = <<>> /\ g.type \in Ends
  BY FrameKinds, EmptySeq DEF Ends
<1> DEFINE q == Append(<<>>, f)
<1>2. Refusal = Append(q, g)
  BY DEF Refusal
<1>3. T!InTurn(<<>>) /\ T!ToSet(<<>>) = {}
  BY TurnEmpty
<1> HIDE DEF f, g
<1>4. \A s \in Seq(T!Frames), x \in T!Frames : Elements(Append(s, x)) = Elements(s) \cup {x}
  BY AppendElements
<1>5. /\ q \in Seq(T!Frames) /\ Framing(q) /\ Flows(q) /\ Carried(q) = {} \cup T!ToSet(f.of)
      /\ Queries(q) = {} \cup {} /\ ~Ended(q)
  BY <1>1, <1>3, FrameNone, FrameAdded
<1>6. Elements(q) = {} \cup {f}
  BY <1>1, <1>4, FrameNone, EmptyElements
<1> HIDE DEF q
<1>7. Elements(Refusal) = Elements(q) \cup {g}
  BY <1>1, <1>2, <1>4, <1>5
<1>8. /\ Refusal \in Seq(T!Frames) /\ Framing(Refusal) /\ Flows(Refusal)
      /\ Carried(Refusal) = Carried(q) \cup T!ToSet(g.of) /\ Queries(Refusal) = Queries(q) \cup {}
  <2>1. \A x \in Carried(q), y \in T!ToSet(g.of) : x < y
    BY <1>1, <1>3
  <2> QED BY <1>1, <1>2, <1>3, <1>5, <2>1, FrameAdded
<1> QED BY <1>1, <1>3, <1>5, <1>6, <1>7, <1>8

LEMMA MessageKinds ==
  /\ T!Message("size", 0) \in T!Messages /\ T!Message("size", 0).type = "size"
  /\ \A n \in T!Chunks : T!Message("in", n) \in T!Messages /\ T!Message("in", n).type = "in" /\ T!Message("in", n).of = n
  BY DEF T!Message, T!Messages

LEMMA TypedIsTypeOK == TermTyped => T!TypeOK
  BY DEF TermTyped, T!TypeOK, ShellTyped, PaneTyped, SocketTyped, HistoryTyped

LEMMA TermInit == T!TerminalsBounds /\ T!Init => TermHeld
<1> SUFFICES ASSUME T!TerminalsBounds, T!Init PROVE TermHeld
  OBVIOUS
<1> USE DEF T!TerminalsBounds
<1>1. TermTyped
  <2>1. /\ <<>> \in Seq(T!Chunks) /\ <<>> \o <<>> = <<>> /\ <<>> \in Seq(T!Frames) /\ <<>> \in Seq(T!Messages)
    BY EmptySeq, ConcatEmptySeq
  <2>2. Served = {} /\ Cardinality({}) = 0
    BY FS_EmptySet DEF T!Init, Served
  <2>3. ShellTyped
    BY <2>1 DEF T!Init, ShellTyped
  <2>4. PaneTyped
    <3>1. tab \in BOOLEAN /\ (pane # 0 => tab)
      BY DEF T!Init
    <3> QED BY <2>1, <3>1 DEF T!Init, PaneTyped
  <2>5. SocketTyped
    BY <2>1 DEF T!Init, SocketTyped
  <2>6. HistoryTyped
    <3>1. late \in BOOLEAN
      BY DEF T!Init
    <3> QED BY <3>1 DEF T!Init, HistoryTyped
  <2>7. PaneHas /\ ShellHas /\ SocketHas
    BY <2>2, TurnEmpty DEF T!Init, PaneHas, ShellHas, SocketHas
  <2> QED BY <2>3, <2>4, <2>5, <2>6, <2>7 DEF TermTyped
<1>3. SocketsWired
  BY FrameNone, EmptyElements, EmptyOrder, TurnEmpty DEF SocketsWired, Wired, T!Init
<1>4. Live /\ Showing /\ Sized
  BY DEF Live, Showing, Sized, T!Init
<1>5. Apart
  BY FrameNone, TurnEmpty DEF Apart, Numbers, T!Init
<1>6. Settled
  BY TurnEmpty DEF Settled, T!Init
<1> QED BY <1>1, <1>3, <1>4, <1>5, <1>6 DEF TermHeld

LEMMA PaneTypes ==
  ASSUME T!TerminalsBounds, TermTyped, PaneStep
  PROVE  /\ TermTyped'
         /\ UNCHANGED <<T!shellVars, shellOf, toClient, out, answers, skipped, late>>
<1> USE DEF T!TerminalsBounds
<1>0. ShellTyped /\ PaneTyped /\ SocketTyped /\ HistoryTyped /\ PaneHas /\ ShellHas /\ SocketHas
  BY DEF TermTyped
<1>1. /\ UNCHANGED <<shell, shells, written, unparsed, mirror, socket, grid>>
      /\ UNCHANGED <<shellOf, toClient, out, answers, skipped, late>>
      /\ panes' >= panes /\ conns' >= conns
  <2>1. /\ UNCHANGED <<shell, shells, written, unparsed, mirror, socket, grid>>
        /\ UNCHANGED <<shellOf, toClient, out, answers, skipped, late>>
        /\ panes' \in {panes, panes + 1} /\ conns' \in {conns, conns + 1}
    BY DEF PaneStep, T!OpenTab, T!Mount, T!Unmount, T!CloseTab, T!Connect, T!Lost, T!Leave, T!shellVars, T!socketVars, T!historyVars
  <2> QED BY <1>0, <2>1 DEF PaneTyped, SocketTyped
<1>2. PaneTyped' /\ (SocketTyped /\ HistoryTyped)' /\ PaneHas' /\ SocketHas'
  <2>1. CASE T!OpenTab
    <3>1. tab' /\ UNCHANGED <<pane, panes, conn, seen, conns, ownerOf, closed, toServer, torn>>
      BY <2>1 DEF T!OpenTab, T!socketVars, T!historyVars
    <3> QED BY <1>0, <1>1, <3>1 DEF PaneTyped, SocketTyped, HistoryTyped, PaneHas, SocketHas, Served
  <2>2. CASE T!Mount
    <3>1. /\ tab /\ pane = 0 /\ panes < MaxPanes /\ panes' = panes + 1 /\ pane' = panes + 1 /\ seen' = <<>>
          /\ UNCHANGED <<tab, conn, conns, ownerOf, closed, toServer, torn>>
      BY <2>2 DEF T!Mount, T!socketVars, T!historyVars
    <3>2. PaneTyped' /\ PaneHas'
      BY <1>0, <1>1, <3>1, EmptySeq DEF PaneTyped, PaneHas
    <3>3. \A c \in T!Conns : ownerOf'[c] <= panes'
      <4>1. \A c \in T!Conns : ownerOf[c] \in Int /\ panes \in Int
        BY <1>0 DEF PaneTyped, SocketTyped, T!Panes
      <4> QED BY <1>0, <3>1, <4>1 DEF SocketHas
    <3> QED BY <1>0, <1>1, <3>1, <3>2, <3>3 DEF SocketTyped, HistoryTyped, SocketHas, Served
  <2>3. CASE T!Unmount \/ T!CloseTab
    <3>1. /\ pane' = 0 /\ conn' = 0 /\ seen' = <<>> /\ closed' = closed \cup ({conn} \ {0})
          /\ tab' = tab \/ tab' = FALSE
          /\ UNCHANGED <<panes, conns, ownerOf, toServer, torn>>
      BY <2>3 DEF T!Unmount, T!CloseTab, T!Leave, T!historyVars
    <3>2. PaneTyped' /\ PaneHas'
      <4>1. 0 \in 0 .. conns'
        BY <1>0, <3>1 DEF SocketTyped
      <4> QED BY <1>0, <1>1, <3>1, <4>1, EmptySeq DEF PaneTyped, PaneHas
    <3>3. closed' \subseteq 1 .. conns'
      BY <1>0, <3>1 DEF PaneTyped, SocketTyped
    <3> QED BY <1>0, <1>1, <3>1, <3>2, <3>3 DEF SocketTyped, HistoryTyped, SocketHas, Served
  <2>4. CASE T!Connect
    <3>1. /\ pane # 0 /\ conns < MaxConns /\ conns' = conns + 1 /\ conn' = conns + 1
          /\ ownerOf' = [ownerOf EXCEPT ![conns + 1] = pane]
          /\ UNCHANGED <<tab, pane, panes, seen, closed, toServer, torn>>
      BY <2>4 DEF T!Connect, T!historyVars
    <3>2. conns + 1 \in T!Conns /\ pane \in T!Panes
      BY <1>0, <3>1 DEF PaneTyped, SocketTyped, T!Conns, T!Panes
    <3>3. PaneTyped' /\ PaneHas'
      BY <1>0, <1>1, <3>1, <3>2 DEF PaneTyped, SocketTyped, PaneHas
    <3>4. SocketTyped'
      BY <1>0, <1>1, <3>1, <3>2 DEF SocketTyped
    <3>5. SocketHas'
      <4>1. \A c \in T!Conns : c > conns + 1 => c > conns
        BY <1>0 DEF SocketTyped, T!Conns
      <4>2. \A c \in T!Conns : ownerOf'[c] <= panes
        BY <1>0, <3>1, <3>2 DEF PaneTyped, SocketTyped, SocketHas
      <4> QED BY <1>0, <1>1, <3>1, <4>1, <4>2 DEF SocketHas, Served
    <3> QED BY <1>0, <1>1, <3>1, <3>3, <3>4, <3>5 DEF HistoryTyped
  <2>5. CASE T!Lost
    <3>1. /\ conn # 0 /\ conn' = 0 /\ closed' = closed \cup {conn}
          /\ toServer' = [toServer EXCEPT ![conn] = <<>>]
          /\ UNCHANGED <<tab, pane, panes, seen, conns, ownerOf>>
      BY <2>5 DEF T!Lost
    <3>2. conn \in T!Conns /\ conn \in 1 .. conns
      BY <1>0, <3>1 DEF PaneTyped, SocketTyped, T!Conns
    <3>3. torn' \subseteq T!Chunks
      <4>1. toServer[conn] \in Seq(T!Messages)
        BY <1>0, <3>2 DEF SocketTyped
      <4>2. \A m \in T!Messages : m.of \in T!Chunks \cup {0}
        BY DEF T!Messages
      <4>3. \A i \in DOMAIN toServer[conn] : toServer[conn][i] \in T!Messages
        BY <4>1, LenProperties
      <4> QED BY <1>0, <2>5, <4>2, <4>3 DEF T!Lost, HistoryTyped
    <3>4. PaneTyped' /\ PaneHas'
      <4>1. 0 \in 0 .. conns'
        BY <1>0, <3>1 DEF SocketTyped
      <4> QED BY <1>0, <1>1, <3>1, <4>1 DEF PaneTyped, PaneHas
    <3>5. SocketTyped'
      BY <1>0, <1>1, <3>1, <3>2, EmptySeq DEF SocketTyped
    <3> QED BY <1>0, <1>1, <3>1, <3>2, <3>3, <3>4, <3>5 DEF HistoryTyped, SocketHas, SocketTyped, Served
  <2> QED BY <2>1, <2>2, <2>3, <2>4, <2>5 DEF PaneStep
<1>3. ShellTyped'
  <2>1. socket' \in 0 .. conns' /\ grid' \in 0 .. panes'
    BY <1>0, <1>1, <1>2 DEF ShellTyped, PaneTyped, SocketTyped
  <2> QED BY <1>0, <1>1, <2>1 DEF ShellTyped
<1>4. ShellHas'
  BY <1>0, <1>1 DEF ShellHas
<1> QED BY <1>1, <1>2, <1>3, <1>4 DEF TermTyped, T!shellVars

\* What a frame that is taken does to the wires.
LEMMA TakeTypes ==
  ASSUME T!TerminalsBounds, TermTyped, SocketsWired, TakeStep
  PROVE  /\ TermTyped'
         /\ conn # 0 /\ conn \in T!Conns /\ toClient[conn] \in Seq(T!Frames) /\ toClient[conn] # <<>>
         /\ UNCHANGED <<T!shellVars, shellOf, out, answers, skipped, torn, late>>
         /\ toClient' = [toClient EXCEPT ![conn] = Tail(@)]
<1> USE DEF T!TerminalsBounds
<1>0. ShellTyped /\ PaneTyped /\ SocketTyped /\ HistoryTyped /\ PaneHas /\ ShellHas /\ SocketHas
  BY DEF TermTyped
<1>1. /\ conn # 0 /\ toClient[conn] # <<>>
      /\ UNCHANGED <<shell, shells, written, unparsed, mirror, socket, grid, panes>>
      /\ UNCHANGED <<conns, ownerOf, shellOf, closed, out, answers, skipped, torn, late>>
      /\ toClient' = [toClient EXCEPT ![conn] = Tail(@)]
  BY DEF TakeStep, T!Opened, T!Restored, T!Shown, T!ExitTold, T!CloseTold, T!Next1, T!Take, T!shellVars, T!historyVars
<1>2. conn \in T!Conns /\ conn <= conns /\ toClient[conn] \in Seq(T!Frames)
  BY <1>0, <1>1 DEF PaneTyped, SocketTyped, T!Conns
<1>3. /\ Head(toClient[conn]) \in T!Frames /\ Tail(toClient[conn]) \in Seq(T!Frames)
      /\ Head(toClient[conn]).of \in Seq(T!Chunks)
      /\ Head(toClient[conn]).type = "chunk" => Head(toClient[conn]).of[1] \in T!Chunks
  <2>1. Framing(toClient[conn]) /\ Flows(toClient[conn])
    BY <1>2 DEF SocketsWired, Wired
  <2> QED BY <1>1, <1>2, <2>1, FrameTaken DEF T!Frames
<1>4. PaneTyped' /\ PaneHas'
  <2>1. CASE T!Opened
    BY <1>0, <1>1, <2>1, EmptySeq DEF T!Opened, PaneTyped, PaneHas
  <2>2. CASE T!Restored \/ T!Shown
    <3>1. seen' \in Seq(T!Chunks)
      BY <1>0, <1>3, <2>2, ConcatProperties DEF T!Restored, T!Shown, PaneTyped
    <3> QED BY <1>0, <1>1, <2>2, <3>1 DEF T!Restored, T!Shown, PaneTyped, PaneHas
  <2>3. CASE T!ExitTold \/ T!CloseTold
    <3>1. conn' = 0 /\ 0 \in 0 .. conns'
      BY <1>0, <1>1, <2>3 DEF T!ExitTold, T!CloseTold, SocketTyped
    <3>2. CASE T!ExitTold
      <4>1. tab' = FALSE /\ pane' = 0 /\ seen' = <<>>
        BY <3>2 DEF T!ExitTold
      <4> QED BY <1>0, <1>1, <3>1, <4>1, EmptySeq DEF PaneTyped, PaneHas
    <3>3. CASE T!CloseTold
      <4>1. UNCHANGED <<tab, pane, seen>>
        BY <3>3 DEF T!CloseTold
      <4> QED BY <1>0, <1>1, <3>1, <4>1 DEF PaneTyped, PaneHas
    <3> QED BY <2>3, <3>2, <3>3
  <2> QED BY <2>1, <2>2, <2>3 DEF TakeStep
<1>5. SocketTyped' /\ SocketHas'
  <2>1. toClient' \in [T!Conns -> Seq(T!Frames)]
    BY <1>0, <1>1, <1>2, <1>3 DEF SocketTyped
  <2>2. toServer' = toServer \/ \E m \in T!Messages : toServer' = [toServer EXCEPT ![conn] = Append(@, m)]
    BY <1>3, MessageKinds DEF TakeStep, T!Opened, T!Restored, T!Shown, T!ExitTold, T!CloseTold, T!Says, T!Next1
  <2>3. /\ toServer' \in [T!Conns -> Seq(T!Messages)]
        /\ \A c \in T!Conns : c # conn => toServer'[c] = toServer[c]
    <3>1. CASE toServer' = toServer
      BY <1>0, <3>1 DEF SocketTyped
    <3>2. ASSUME NEW m \in T!Messages, toServer' = [toServer EXCEPT ![conn] = Append(@, m)]
          PROVE  toServer' \in [T!Conns -> Seq(T!Messages)] /\ \A c \in T!Conns : c # conn => toServer'[c] = toServer[c]
      <4>1. Append(toServer[conn], m) \in Seq(T!Messages)
        BY <1>0, <1>2, <3>2, AppendProperties DEF SocketTyped
      <4> QED BY <1>0, <1>2, <3>2, <4>1 DEF SocketTyped
    <3> QED BY <2>2, <3>1, <3>2
  <2>4. SocketTyped'
    BY <1>0, <1>1, <2>1, <2>3 DEF SocketTyped
  <2>5. \A c \in T!Conns : c > conns => c # conn
    <3>1. conns \in Int /\ conn \in Int
      BY <1>0, <1>2 DEF SocketTyped, T!Conns
    <3> QED BY <1>2, <3>1 DEF T!Conns
  <2> QED BY <1>0, <1>1, <2>3, <2>4, <2>5 DEF SocketHas, SocketTyped, Served
<1>6. ShellTyped' /\ HistoryTyped' /\ ShellHas'
  BY <1>0, <1>1 DEF ShellTyped, HistoryTyped, ShellHas
<1> QED BY <1>1, <1>2, <1>4, <1>5, <1>6 DEF TermTyped, T!shellVars

LEMMA FlyingCarried ==
  ASSUME SocketTyped, NEW c \in T!Conns
  PROVE  T!Flying(c) = Carried(toClient[c]) /\ T!Flying(c) \subseteq T!Chunks
<1>1. toClient[c] \in Seq(T!Frames)
  BY DEF SocketTyped
<1>2. DOMAIN toClient[c] = 1 .. Len(toClient[c])
  BY <1>1, LenProperties
<1>3. T!Flying(c) = Carried(toClient[c])
  BY <1>2 DEF T!Flying, Carried, Elements
<1> QED BY <1>1, <1>3, CarriedBy

\* The frames of an attachment to a shell that runs.
LEMMA Replayed ==
  ASSUME mirror \in Seq(T!Chunks), T!InTurn(mirror)
  PROVE  LET q == <<T!Frame("open", <<>>)>> \o T!Snapshot
         IN /\ q \in Seq(T!Frames) /\ Framing(q) /\ Flows(q) /\ Carried(q) = T!ToSet(mirror)
            /\ Queries(q) = {} /\ ~Ended(q) /\ Opens(q)
<1> DEFINE o == T!Frame("open", <<>>)
           s == T!Frame("snapshot", mirror)
<1>1. /\ o \in T!Frames /\ o.type = "open" /\ o.of = <<>>
      /\ s \in T!Frames /\ s.type = "snapshot" /\ s.of = mirror
  BY FrameKinds, EmptySeq
<1> HIDE DEF o, s
<1> DEFINE p == Append(<<>>, o)
<1>2. /\ p \in Seq(T!Frames) /\ p # <<>> /\ Framing(p) /\ Flows(p) /\ Carried(p) = {}
      /\ Queries(p) = {} /\ ~Ended(p) /\ Opens(p) /\ p = <<o>>
  <2>1. p = <<>> \o <<o>> /\ <<o>> \in Seq(T!Frames) /\ <<>> \o <<o>> = <<o>>
    BY <1>1, FrameNone, AppendIsConcat, ConcatEmptySeq
  <2>2. T!ToSet(o.of) = {} /\ T!InTurn(o.of)
    BY <1>1, TurnEmpty
  <2>3. o.type \notin Ends
    BY <1>1 DEF Ends
  <2>4. /\ p \in Seq(T!Frames) /\ p # <<>> /\ Framing(p) /\ Flows(p) /\ Carried(p) = {} \cup T!ToSet(o.of)
        /\ Queries(p) = {} /\ ~Ended(p) /\ Opens(p)
    BY <1>1, <2>2, <2>3, FrameNone, FrameAdded
  <2> QED BY <2>1, <2>2, <2>4
<1> HIDE DEF p
<1>3. CASE mirror = <<>>
  <2>1. T!Snapshot = <<>> /\ p \o <<>> = p /\ T!ToSet(mirror) = {}
    BY <1>2, <1>3, ConcatEmptySeq, TurnEmpty DEF T!Snapshot
  <2> QED BY <1>2, <2>1 DEF o
<1>4. CASE mirror # <<>>
  <2>1. T!Snapshot = <<s>>
    BY <1>4 DEF T!Snapshot, s
  <2>2. Append(p, s) = p \o <<s>>
    BY <1>1, <1>2, AppendIsConcat
  <2>3. s.type \notin Ends \cup {"open", "chunk"}
    BY <1>1 DEF Ends
  <2> DEFINE q == Append(p, s)
  <2>4. /\ q \in Seq(T!Frames) /\ Framing(q) /\ Flows(q) /\ Carried(q) = {} \cup T!ToSet(s.of)
        /\ Queries(q) = {} /\ ~Ended(q) /\ Opens(q)
    BY <1>1, <1>2, <2>3, FrameAdded
  <2> HIDE DEF q
  <2>5. q = <<T!Frame("open", <<>>)>> \o T!Snapshot
    BY <1>2, <2>1, <2>2 DEF q, o
  <2> QED BY <1>1, <2>4, <2>5
<1> QED BY <1>3, <1>4

\* A socket that waits was opened and is not served; one more can be.
LEMMA WaitingRoom ==
  ASSUME T!TerminalsBounds, TermTyped, NEW c \in T!Conns, T!Waiting(c)
  PROVE  /\ c \in 1 .. conns /\ shellOf[c] = 0 /\ toClient[c] = <<>> /\ c # 0
         /\ shells + 1 <= MaxConns /\ Cardinality(Served \cup {c}) = Cardinality(Served) + 1
<1>0. PaneTyped /\ SocketTyped /\ SocketHas /\ ShellTyped /\ MaxConns \in Nat
  BY DEF TermTyped, T!TerminalsBounds
<1>1. c \in 1 .. conns /\ shellOf[c] = 0 /\ toClient[c] = <<>> /\ c # 0
  BY <1>0 DEF T!Waiting, PaneTyped, SocketTyped, T!Conns
<1>2. IsFiniteSet(T!Conns) /\ Cardinality(T!Conns) = MaxConns
  BY <1>0, FS_Interval DEF T!Conns
<1>3. Served \subseteq T!Conns /\ c \notin Served
  BY <1>1 DEF Served
<1>4. IsFiniteSet(Served)
  BY <1>2, <1>3, FS_Subset
<1>5. Cardinality(Served \cup {c}) = Cardinality(Served) + 1
  BY <1>3, <1>4, FS_AddElement
<1>6. Cardinality(Served \cup {c}) <= MaxConns
  BY <1>2, <1>3, FS_Subset
<1>7. Cardinality(Served) \in Nat
  BY <1>4, FS_CardinalityType
<1> QED BY <1>0, <1>1, <1>5, <1>6, <1>7 DEF SocketHas, ShellTyped

LEMMA ServerTypes ==
  ASSUME T!TerminalsBounds, TermTyped, SocketsWired, ServerStep
  PROVE  TermTyped'
<1> USE DEF T!TerminalsBounds
<1>0. ShellTyped /\ PaneTyped /\ SocketTyped /\ HistoryTyped /\ PaneHas /\ ShellHas /\ SocketHas
  BY DEF TermTyped
<1>u. T!UnderWay \subseteq T!Chunks
  <2>1. socket # 0 => socket \in T!Conns
    BY <1>0 DEF ShellTyped, SocketTyped, T!Conns
  <2>2. T!ToSet(unparsed) \subseteq T!Chunks
    BY <1>0, TurnSet DEF ShellTyped
  <2> QED BY <1>0, <2>1, <2>2, FlyingCarried DEF T!UnderWay
<1>w. \A c \in T!Conns : ownerOf[c] \in 0 .. panes
  BY <1>0 DEF SocketTyped, SocketHas, PaneTyped, T!Panes
<1>1. ASSUME NEW c \in T!Conns, T!SpawnFails(c) PROVE TermTyped'
  <2>1. /\ T!Waiting(c) /\ toClient' = [toClient EXCEPT ![c] = Refusal]
        /\ UNCHANGED <<T!shellVars, T!paneVars, conns, ownerOf, shellOf, closed, toServer, out, answers, T!historyVars>>
    BY <1>1 DEF T!SpawnFails, Refusal
  <2>2. c \in 1 .. conns
    BY <2>1, WaitingRoom
  <2>3. toClient' \in [T!Conns -> Seq(T!Frames)]
    BY <1>0, <2>1, RefusalFrames DEF SocketTyped
  <2>4. SocketTyped' /\ SocketHas'
    BY <1>0, <2>1, <2>2, <2>3 DEF SocketTyped, SocketHas, Served, T!shellVars, T!paneVars
  <2>5. ShellTyped' /\ PaneTyped' /\ HistoryTyped'
    BY <1>0, <2>1 DEF ShellTyped, PaneTyped, HistoryTyped, T!shellVars, T!paneVars, T!historyVars
  <2>6. PaneHas' /\ ShellHas'
    BY <1>0, <2>1 DEF PaneHas, ShellHas, T!shellVars, T!paneVars, T!historyVars
  <2> QED BY <2>4, <2>5, <2>6 DEF TermTyped
<1>2. ASSUME NEW c \in T!Conns, T!Spawn(c) PROVE TermTyped'
  <2>1. /\ T!Waiting(c) /\ shell = 0 /\ shells' = shells + 1 /\ shell' = shells + 1
        /\ socket' = c /\ grid' = ownerOf[c] /\ shellOf' = [shellOf EXCEPT ![c] = shells + 1]
        /\ toClient' = [toClient EXCEPT ![c] = Append(@, T!Frame("open", <<>>))]
        /\ skipped' = {} /\ late' = FALSE
        /\ UNCHANGED <<written, unparsed, mirror, T!paneVars, conns, ownerOf, closed, toServer, out, answers, torn>>
    BY <1>2 DEF T!Spawn, T!Sent
  <2>2. /\ c \in 1 .. conns /\ shellOf[c] = 0 /\ shells + 1 <= MaxConns /\ c # 0
        /\ Cardinality(Served \cup {c}) = Cardinality(Served) + 1
    BY <2>1, WaitingRoom
  <2>3. toClient' \in [T!Conns -> Seq(T!Frames)]
    <3>1. Append(toClient[c], T!Frame("open", <<>>)) \in Seq(T!Frames)
      BY <1>0, FrameKinds, EmptySeq, AppendProperties DEF SocketTyped
    <3> QED BY <1>0, <2>1, <3>1 DEF SocketTyped
  <2>s. shells + 1 \in T!Shells /\ shells \in Nat
    BY <1>0, <2>2 DEF ShellTyped, T!Shells, T!Conns
  <2>4. SocketTyped'
    BY <1>0, <2>1, <2>3, <2>s DEF SocketTyped
  <2>5. SocketHas'
    <3>1. Served' = Served \cup {c}
      BY <1>0, <2>1, <2>s DEF Served, SocketTyped
    <3>2. Cardinality(Served) \in Nat
      <4>1. Served \subseteq T!Conns /\ IsFiniteSet(T!Conns)
        BY FS_Interval DEF Served, T!Conns
      <4> QED BY <4>1, FS_Subset, FS_CardinalityType
    <3>3. shells' <= Cardinality(Served')
      BY <1>0, <2>1, <2>2, <2>s, <3>1, <3>2 DEF SocketHas
    <3>4. \A d \in T!Conns : d > conns => d # c
      BY <1>0, <2>2 DEF SocketTyped, T!Conns
    <3> QED BY <1>0, <2>1, <3>3, <3>4 DEF SocketHas, SocketTyped, T!paneVars
  <2>6. ShellTyped'
    <3>1. socket' \in 0 .. conns' /\ grid' \in 0 .. panes'
      BY <1>0, <1>w, <2>1, <2>2 DEF SocketTyped, T!paneVars
    <3>2. shellOf'[c] = shells + 1
      BY <1>0, <2>1 DEF SocketTyped
    <3>3. shells' \in 0 .. MaxConns /\ shell' = shells' /\ shell' # 0 /\ shellOf'[socket'] = shell'
      BY <2>1, <2>2, <2>s, <3>2
    <3> QED BY <1>0, <2>1, <3>1, <3>3 DEF ShellTyped
  <2>7. HistoryTyped' /\ PaneTyped'
    <3>1. late' \in BOOLEAN
      BY <2>1
    <3> QED BY <1>0, <2>1, <3>1 DEF HistoryTyped, PaneTyped, T!paneVars
  <2>8. PaneHas' /\ ShellHas'
    BY <1>0, <2>1, <2>s DEF PaneHas, ShellHas, T!paneVars
  <2> QED BY <2>4, <2>5, <2>6, <2>7, <2>8 DEF TermTyped
<1>3. ASSUME NEW c \in T!Conns, T!Adopt(c) PROVE TermTyped'
  <2>1. /\ T!Waiting(c) /\ shell # 0 /\ socket' = c /\ shellOf' = [shellOf EXCEPT ![c] = shell]
        /\ skipped' = T!ToSet(unparsed) /\ torn' = torn \cup T!UnderWay
        /\ UNCHANGED <<shell, shells, written, unparsed, mirror, grid, T!paneVars, conns, ownerOf, closed,
                       toServer, out, answers, late>>
    BY <1>3 DEF T!Adopt
  <2>2. /\ c \in 1 .. conns /\ shellOf[c] = 0 /\ c # 0
        /\ Cardinality(Served \cup {c}) = Cardinality(Served) + 1
    BY <2>1, WaitingRoom
  <2>p. /\ T!InTurn(mirror) /\ T!ToSet(unparsed) \subseteq T!ToSet(written)
    <3>1. mirror \in Seq(T!Chunks) /\ unparsed \in Seq(T!Chunks) /\ T!InTurn(mirror \o unparsed) /\ T!Chunks \subseteq Nat
      BY <1>0 DEF ShellTyped, ShellHas, T!Chunks
    <3>2. T!InTurn(mirror) /\ T!ToSet(mirror \o unparsed) = T!ToSet(mirror) \cup T!ToSet(unparsed)
      BY <3>1, TurnParts, TurnConcat
    <3> QED BY <1>0, <3>2 DEF ShellTyped
  <2>3. toClient' \in [T!Conns -> Seq(T!Frames)]
    <3>1. <<T!Frame("open", <<>>)>> \o T!Snapshot \in Seq(T!Frames)
      BY <1>0, <2>p, Replayed DEF ShellTyped
    <3>2. \A d \in T!Conns : Append(toClient[d], T!Frame("closed", <<>>)) \in Seq(T!Frames)
      BY <1>0, FrameKinds, EmptySeq, AppendProperties DEF SocketTyped
    <3> QED BY <1>0, <1>3, <3>1, <3>2 DEF T!Adopt, SocketTyped
  <2>s. shell \in T!Shells
    BY <1>0, <2>1 DEF ShellTyped, T!Shells, T!Conns
  <2>4. SocketTyped'
    BY <1>0, <2>1, <2>3, <2>s DEF SocketTyped
  <2>5. SocketHas'
    <3>1. Served' = Served \cup {c}
      BY <1>0, <2>1 DEF Served, SocketTyped
    <3>2. Cardinality(Served) \in Nat
      <4>1. Served \subseteq T!Conns /\ IsFiniteSet(T!Conns)
        BY FS_Interval DEF Served, T!Conns
      <4> QED BY <4>1, FS_Subset, FS_CardinalityType
    <3>3. shells' <= Cardinality(Served')
      BY <1>0, <2>1, <2>2, <3>1, <3>2 DEF SocketHas, ShellTyped
    <3>4. \A d \in T!Conns : d > conns => d # c /\ (socket # 0 => d # socket)
      BY <1>0, <2>2 DEF SocketTyped, ShellTyped, T!Conns
    <3>5. ASSUME NEW d \in T!Conns, d > conns PROVE shellOf'[d] = 0 /\ toClient'[d] = <<>>
      <4>1. d # socket /\ d # c
        BY <1>0, <3>4, <3>5 DEF SocketTyped, T!Conns
      <4> QED BY <1>0, <1>3, <2>1, <3>5, <4>1 DEF T!Adopt, SocketHas, SocketTyped
    <3> QED BY <1>0, <2>1, <3>3, <3>5 DEF SocketHas, SocketTyped, T!paneVars
  <2>6. ShellTyped'
    <3>1. socket' \in 0 .. conns' /\ grid' \in 0 .. panes'
      BY <1>0, <2>1, <2>2 DEF ShellTyped, SocketTyped, T!paneVars
    <3>2. shellOf'[socket'] = shell'
      BY <1>0, <2>1 DEF SocketTyped
    <3> QED BY <1>0, <2>1, <3>1, <3>2 DEF ShellTyped
  <2>7. HistoryTyped' /\ PaneTyped'
    <3>1. skipped' \subseteq T!Chunks /\ torn' \subseteq T!Chunks
      BY <1>0, <1>u, <2>1, TurnSet DEF HistoryTyped, ShellTyped
    <3> QED BY <1>0, <2>1, <3>1 DEF HistoryTyped, PaneTyped, T!paneVars
  <2>8. PaneHas' /\ ShellHas'
    BY <1>0, <2>1, <2>p DEF PaneHas, ShellHas, T!paneVars
  <2> QED BY <2>4, <2>5, <2>6, <2>7, <2>8 DEF TermTyped
<1>4. ASSUME NEW c \in T!Conns, T!Handle(c) PROVE TermTyped'
  <2>1. /\ toServer[c] # <<>> /\ toServer' = [toServer EXCEPT ![c] = Tail(@)]
        /\ UNCHANGED <<shell, shells, written, unparsed, mirror, socket, T!paneVars, conns, ownerOf,
                       shellOf, closed, toClient, out, skipped, torn>>
    BY <1>4 DEF T!Handle
  <2>2. toServer[c] \in Seq(T!Messages) /\ Ascending(toServer[c], "in") /\ Replies(toServer[c]) \subseteq 1 .. out
    BY <1>0 DEF SocketTyped, SocketsWired, Wired
  <2>3. /\ Tail(toServer[c]) \in Seq(T!Messages) /\ Head(toServer[c]) \in Elements(toServer[c])
    BY <2>1, <2>2, MessageTaken
  <2>4. c \in 1 .. conns
    BY <1>0, <2>1 DEF SocketHas, SocketTyped, T!Conns
  <2>5. SocketTyped' /\ SocketHas'
    BY <1>0, <2>1, <2>3, <2>4 DEF SocketTyped, SocketHas, Served, T!paneVars
  <2>6. grid' \in {grid, ownerOf[c]} /\ late' \in BOOLEAN
    <3>1. late' = late \/ late' = (c # socket)
      BY <1>4 DEF T!Handle
    <3>2. late' \in BOOLEAN
      BY <1>0, <3>1 DEF HistoryTyped
    <3> QED BY <1>4, <3>2 DEF T!Handle
  <2>7. /\ answers' \in [T!Chunks -> Nat]
        /\ \A n \in T!Chunks : n > out => answers'[n] = answers[n]
    <3>1. CASE answers' = answers
      BY <1>0, <3>1 DEF HistoryTyped
    <3>2. CASE answers' # answers
      <4>1. LET m == Head(toServer[c]) IN m.type = "in" /\ answers' = [answers EXCEPT ![m.of] = @ + 1]
        BY <1>4, <3>2 DEF T!Handle
      <4>2. Head(toServer[c]).of \in 1 .. out
        BY <2>2, <2>3, <4>1 DEF Replies
      <4>3. Head(toServer[c]).of \in T!Chunks /\ out \in Nat
        BY <1>0, <4>2 DEF HistoryTyped, T!Chunks
      <4> QED BY <1>0, <4>1, <4>2, <4>3 DEF HistoryTyped
    <3> QED BY <3>1, <3>2
  <2>8. ShellTyped'
    BY <1>0, <1>w, <2>1, <2>6 DEF ShellTyped, T!paneVars
  <2>9. HistoryTyped' /\ PaneTyped'
    BY <1>0, <2>1, <2>6, <2>7 DEF HistoryTyped, PaneTyped, T!paneVars
  <2>10. PaneHas' /\ ShellHas'
    BY <1>0, <2>1, <2>7 DEF PaneHas, ShellHas, T!paneVars
  <2> QED BY <2>5, <2>8, <2>9, <2>10 DEF TermTyped
<1>5. ASSUME NEW c \in T!Conns, T!CloseSeen(c) PROVE TermTyped'
  <2>1. /\ c \in closed /\ closed' = closed \ {c}
        /\ toClient' = [toClient EXCEPT ![c] = <<>>]
        /\ socket' = socket \/ socket' = 0
        /\ torn' = torn \/ torn' = torn \cup T!UnderWay
        /\ UNCHANGED <<shell, shells, written, unparsed, mirror, grid, T!paneVars, conns, ownerOf, shellOf,
                       toServer, out, answers, skipped, late>>
    BY <1>5 DEF T!CloseSeen
  <2>2. SocketTyped' /\ SocketHas'
    BY <1>0, <2>1, FrameNone DEF SocketTyped, SocketHas, Served, T!paneVars
  <2>3. ShellTyped'
    <3>1. socket' \in 0 .. conns'
      BY <1>0, <2>1 DEF ShellTyped, SocketTyped
    <3> QED BY <1>0, <2>1, <3>1 DEF ShellTyped, T!paneVars
  <2>4. HistoryTyped' /\ PaneTyped'
    BY <1>0, <1>u, <2>1 DEF HistoryTyped, PaneTyped, T!paneVars
  <2>5. PaneHas' /\ ShellHas'
    BY <1>0, <2>1 DEF PaneHas, ShellHas, T!paneVars
  <2> QED BY <2>2, <2>3, <2>4, <2>5 DEF TermTyped
<1> QED BY <1>1, <1>2, <1>3, <1>4, <1>5 DEF ServerStep

LEMMA ShellTypes ==
  ASSUME T!TerminalsBounds, TermTyped, SocketsWired, ShellStep
  PROVE  TermTyped'
<1> USE DEF T!TerminalsBounds
<1>0. ShellTyped /\ PaneTyped /\ SocketTyped /\ HistoryTyped /\ PaneHas /\ ShellHas /\ SocketHas
  BY DEF TermTyped
<1>c. T!Chunks \subseteq Nat
  BY DEF T!Chunks
<1>1. CASE T!Write
  <2>1. /\ shell # 0 /\ out < MaxOutput /\ out' = out + 1
        /\ written' = Append(written, out + 1) /\ unparsed' = Append(unparsed, out + 1)
        /\ toClient' = IF socket = 0 THEN toClient
                       ELSE [toClient EXCEPT ![socket] = Append(@, T!Frame("chunk", <<out + 1>>))]
        /\ UNCHANGED <<shell, shells, mirror, socket, grid, T!paneVars, conns, ownerOf, shellOf, closed,
                       toServer, answers, T!historyVars>>
    BY <1>1 DEF T!Write, T!Sent
  <2>2. out + 1 \in T!Chunks /\ out \in Nat
    BY <1>0, <2>1 DEF HistoryTyped, T!Chunks
  <2>3. /\ written' \in Seq(T!Chunks) /\ unparsed' \in Seq(T!Chunks) /\ mirror' \in Seq(T!Chunks)
        /\ mirror' \o unparsed' = written'
    BY <1>0, <2>1, <2>2, AppendProperties, TurnMoves DEF ShellTyped
  <2>4. ShellTyped'
    BY <1>0, <2>1, <2>3 DEF ShellTyped, T!paneVars
  <2>5. SocketTyped' /\ SocketHas'
    <3>0. <<out + 1>> \in Seq(T!Chunks)
      BY <2>2
    <3>1. \A c \in T!Conns : Append(toClient[c], T!Frame("chunk", <<out + 1>>)) \in Seq(T!Frames)
      BY <1>0, <3>0, FrameKinds, AppendProperties DEF SocketTyped
    <3>2. /\ toClient' \in [T!Conns -> Seq(T!Frames)]
          /\ \A c \in T!Conns : c # socket => toClient'[c] = toClient[c]
      BY <1>0, <2>1, <3>1 DEF SocketTyped
    <3>3. \A c \in T!Conns : c > conns => c # socket
      BY <1>0 DEF ShellTyped, SocketTyped, T!Conns
    <3> QED BY <1>0, <2>1, <3>2, <3>3 DEF SocketTyped, SocketHas, Served, T!paneVars
  <2>6. HistoryTyped' /\ PaneTyped' /\ PaneHas'
    <3>1. out' \in 0 .. MaxOutput
      BY <1>0, <2>1 DEF HistoryTyped
    <3> QED BY <1>0, <2>1, <3>1 DEF HistoryTyped, PaneTyped, PaneHas, T!paneVars, T!historyVars
  <2>7. ShellHas'
    <3>1. \A x \in T!ToSet(written) : x < out + 1
      BY <1>0, <2>2 DEF ShellHas
    <3>2. T!InTurn(written') /\ T!ToSet(written') = T!ToSet(written) \cup {out + 1}
      BY <1>0, <2>1, <2>2, <3>1, TurnAppend DEF ShellTyped, ShellHas
    <3>3. T!ToSet(written') \subseteq 1 .. out' /\ skipped' \subseteq 1 .. out'
      BY <1>0, <2>1, <2>2, <3>2 DEF ShellHas, T!historyVars
    <3>4. \A n \in T!Chunks : n > out' => answers'[n] = 0
      BY <1>0, <1>c, <2>1, <2>2 DEF ShellHas
    <3> QED BY <2>1, <3>2, <3>3, <3>4 DEF ShellHas
  <2> QED BY <2>4, <2>5, <2>6, <2>7 DEF TermTyped
<1>2. CASE T!Parse
  <2>1. /\ unparsed # <<>> /\ unparsed' = Tail(unparsed) /\ mirror' = Append(mirror, Head(unparsed))
        /\ UNCHANGED <<shell, shells, written, socket, grid, T!paneVars, T!socketVars, out, T!historyVars>>
    BY <1>2 DEF T!Parse
  <2>2. Head(unparsed) \in T!Chunks /\ Tail(unparsed) \in Seq(T!Chunks)
    BY <1>0, <2>1, HeadTailProperties DEF ShellTyped
  <2>3. mirror' \in Seq(T!Chunks) /\ mirror' \o unparsed' = written'
    BY <1>0, <2>1, <2>2, AppendProperties, TurnMoves DEF ShellTyped
  <2>4. ShellTyped'
    BY <1>0, <2>1, <2>2, <2>3 DEF ShellTyped, T!paneVars, T!socketVars
  <2>5. /\ answers' \in [T!Chunks -> Nat]
        /\ \A n \in T!Chunks : n > out => answers'[n] = answers[n]
    <3>1. Head(unparsed) \in 1 .. out
      <4>1. T!ToSet(mirror \o unparsed) = T!ToSet(mirror) \cup T!ToSet(unparsed)
        BY <1>0, TurnConcat DEF ShellTyped
      <4>2. Head(unparsed) \in T!ToSet(unparsed)
        <5>1. unparsed \in Seq(T!Chunks) /\ unparsed # <<>>
          BY <1>0, <2>1 DEF ShellTyped
        <5>2. Head(unparsed) \in Elements(unparsed) /\ Elements(unparsed) = T!ToSet(unparsed)
          BY <5>1, TailElements, TurnSet
        <5> QED BY <5>2
      <4> QED BY <1>0, <4>1, <4>2 DEF ShellTyped, ShellHas
    <3>2. answers' = answers \/ answers' = [answers EXCEPT ![Head(unparsed)] = @ + 1]
      BY <1>2 DEF T!Parse
    <3>3. \A n \in T!Chunks : n > out => n # Head(unparsed)
      BY <1>0, <1>c, <3>1 DEF HistoryTyped
    <3> QED BY <1>0, <2>2, <3>2, <3>3 DEF HistoryTyped
  <2>6. SocketTyped' /\ SocketHas' /\ PaneTyped' /\ PaneHas' /\ HistoryTyped'
    BY <1>0, <2>1, <2>5 DEF SocketTyped, SocketHas, PaneTyped, PaneHas, HistoryTyped, Served,
       T!socketVars, T!paneVars, T!historyVars
  <2>7. ShellHas'
    BY <1>0, <2>1, <2>5 DEF ShellHas, T!historyVars
  <2> QED BY <2>4, <2>6, <2>7 DEF TermTyped
<1>3. CASE T!Exit
  <2>1. /\ shell # 0 /\ shell' = 0 /\ socket' = 0 /\ grid' = 0
        /\ written' = <<>> /\ unparsed' = <<>> /\ mirror' = <<>>
        /\ answers' = [n \in T!Chunks |-> 0] /\ skipped' = {} /\ torn' = {} /\ late' = FALSE
        /\ toClient' = IF socket = 0 THEN toClient
                       ELSE [toClient EXCEPT ![socket] = Append(@, T!Frame("exited", <<>>))]
        /\ UNCHANGED <<shells, T!paneVars, conns, ownerOf, shellOf, closed, toServer, out>>
    BY <1>3 DEF T!Exit, T!Sent
  <2>2. ShellTyped'
    <3>1. <<>> \in Seq(T!Chunks) /\ <<>> \o <<>> = <<>>
      BY EmptySeq, ConcatEmptySeq
    <3>2. 0 \in 0 .. conns /\ 0 \in 0 .. panes
      BY <1>0 DEF SocketTyped, PaneTyped
    <3> QED BY <1>0, <2>1, <3>1, <3>2 DEF ShellTyped, T!paneVars
  <2>3. SocketTyped' /\ SocketHas'
    <3>1. \A c \in T!Conns : Append(toClient[c], T!Frame("exited", <<>>)) \in Seq(T!Frames)
      BY <1>0, EmptySeq, FrameKinds, AppendProperties DEF SocketTyped
    <3>2. /\ toClient' \in [T!Conns -> Seq(T!Frames)]
          /\ \A c \in T!Conns : c # socket => toClient'[c] = toClient[c]
      BY <1>0, <2>1, <3>1 DEF SocketTyped
    <3>3. \A c \in T!Conns : c > conns => c # socket
      BY <1>0 DEF ShellTyped, SocketTyped, T!Conns
    <3> QED BY <1>0, <2>1, <3>2, <3>3 DEF SocketTyped, SocketHas, Served, T!paneVars
  <2>4. HistoryTyped' /\ PaneTyped' /\ PaneHas'
    <3>1. late' \in BOOLEAN
      BY <2>1
    <3> QED BY <1>0, <2>1, <3>1 DEF HistoryTyped, PaneTyped, PaneHas, T!paneVars
  <2>5. ShellHas'
    BY <2>1, TurnEmpty DEF ShellHas
  <2> QED BY <2>2, <2>3, <2>4, <2>5 DEF TermTyped
<1> QED BY <1>1, <1>2, <1>3 DEF ShellStep

-----------------------------------------------------------------------------
(* Its steps: the wires and what they carry *)

Wiring == SocketsWired /\ Live /\ Showing /\ Sized /\ Apart /\ Settled

LEMMA WireTyped ==
  ASSUME T!TerminalsBounds, TermTyped, SocketsWired
  PROVE  /\ \A c \in T!Conns :
              /\ toClient[c] \in Seq(T!Frames) /\ toServer[c] \in Seq(T!Messages)
              /\ Queries(toClient[c]) \subseteq Carried(toClient[c]) /\ Numbers(c) \subseteq 1 .. out
         /\ socket # 0 => socket \in T!Conns /\ shellOf[socket] = shell /\ shell # 0
         /\ conn # 0 => conn \in T!Conns
         /\ out \in Nat /\ T!Chunks \subseteq Nat /\ T!ToSet(unparsed) \subseteq T!ToSet(written)
<1>0. ShellTyped /\ PaneTyped /\ SocketTyped /\ HistoryTyped
  BY DEF TermTyped
<1>1. ASSUME NEW c \in T!Conns
      PROVE  /\ toClient[c] \in Seq(T!Frames) /\ toServer[c] \in Seq(T!Messages)
             /\ Queries(toClient[c]) \subseteq Carried(toClient[c]) /\ Numbers(c) \subseteq 1 .. out
  <2>1. toClient[c] \in Seq(T!Frames) /\ toServer[c] \in Seq(T!Messages)
    BY <1>0 DEF SocketTyped
  <2>2. Queries(toClient[c]) \subseteq Carried(toClient[c])
    BY <2>1, CarriedBy DEF SocketsWired, Wired
  <2> QED BY <2>1, <2>2 DEF SocketsWired, Wired, Numbers
<1>2. T!ToSet(unparsed) \subseteq T!ToSet(written)
  <2>1. T!ToSet(mirror \o unparsed) = T!ToSet(mirror) \cup T!ToSet(unparsed)
    BY <1>0, TurnConcat DEF ShellTyped
  <2> QED BY <1>0, <2>1 DEF ShellTyped
<1>3. /\ socket # 0 => socket \in T!Conns /\ shellOf[socket] = shell /\ shell # 0
      /\ conn # 0 => conn \in T!Conns
  BY <1>0 DEF ShellTyped, PaneTyped, SocketTyped, T!Conns, T!TerminalsBounds
<1>4. out \in Nat /\ T!Chunks \subseteq Nat
  BY <1>0 DEF HistoryTyped, T!Chunks
<1> QED BY <1>1, <1>2, <1>3, <1>4

LEMMA OwedWhere ==
  \A n : n \in Owed <=>
    \/ IF socket = 0 THEN n \in T!ToSet(unparsed) ELSE n \in Queries(toClient[socket])
    \/ \E d \in T!Conns : shellOf[d] = shell /\ n \in Replies(toServer[d])
  BY DEF Owed

LEMMA PaneWires ==
  ASSUME T!TerminalsBounds, TermTyped, Wiring, PaneStep
  PROVE  Wiring'
<1>0. /\ UNCHANGED <<T!shellVars, shellOf, toClient, out, answers, skipped, late>>
      /\ SocketTyped /\ ShellTyped /\ SocketHas /\ SocketsWired
  BY PaneTypes DEF TermTyped, Wiring
<1>1. CASE ~T!Lost
  <2>1. /\ UNCHANGED <<toServer, torn>>
        /\ UNCHANGED <<pane, conn, seen>> \/ conn' = 0 \/ (conn' = conns + 1 /\ conns < MaxConns)
    <3>1. CASE T!OpenTab
      BY <3>1 DEF T!OpenTab, T!socketVars, T!historyVars
    <3>2. CASE T!Mount
      BY <3>2 DEF T!Mount, T!socketVars, T!historyVars, TermTyped, PaneHas
    <3>3. CASE T!Unmount \/ T!CloseTab \/ T!Connect
      BY <3>3 DEF T!Unmount, T!CloseTab, T!Connect, T!Leave, T!historyVars
    <3> QED BY <1>1, <3>1, <3>2, <3>3 DEF PaneStep
  <2>2. SocketsWired' /\ Apart' /\ Settled'
    <3>1. SocketsWired'
      BY <1>0, <2>1 DEF SocketsWired, Wired
    <3>2. Apart'
      BY <1>0, <2>1 DEF Wiring, Apart, Numbers, T!shellVars
    <3>3. Owed' = Owed
      BY <1>0, <2>1 DEF Owed, T!shellVars
    <3> QED BY <1>0, <2>1, <3>1, <3>2, <3>3 DEF Wiring, Settled, T!shellVars
  <2>3. conn' = conns + 1 /\ conns < MaxConns => conn' # socket' /\ shellOf'[conn'] = 0
    <3>1. conns < MaxConns => conns + 1 \in T!Conns /\ conns + 1 > conns
      BY <1>0 DEF SocketTyped, T!Conns, T!TerminalsBounds
    <3> QED BY <1>0, <3>1 DEF SocketTyped, ShellTyped, SocketHas, T!shellVars
  <2>4. Live' /\ Showing' /\ Sized'
    <3>1. socket' # 0 => ~Ended(toClient'[socket'])
      BY <1>0 DEF Wiring, Live, T!shellVars
    <3>2. CASE UNCHANGED <<pane, conn, seen>>
      BY <1>0, <2>1, <3>2 DEF Wiring, Live, Showing, Sized, T!shellVars
    <3>3. CASE conn' = 0 \/ (conn' # socket' /\ shellOf'[conn'] = 0)
      BY <3>1, <3>3 DEF Live, Showing, Sized
    <3> QED BY <2>1, <2>3, <3>2, <3>3
  <2> QED BY <2>2, <2>4 DEF Wiring
<1>2. CASE T!Lost
  <2>0. PICK k \in T!Conns : k = conn /\ k # 0
    BY <1>2, WireTyped DEF T!Lost, Wiring
  <2>1. /\ conn # 0 /\ conn' = 0 /\ k \in T!Conns
        /\ toServer' = [toServer EXCEPT ![k] = <<>>]
        /\ torn' = torn \cup ({toServer[k][i].of : i \in DOMAIN toServer[k]} \ {0})
    BY <1>2, <2>0 DEF T!Lost
  <2>2. toServer'[k] = <<>> /\ \A c \in T!Conns : c # k => toServer'[c] = toServer[c]
    BY <1>0, <2>1 DEF SocketTyped
  <2>3. Replies(toServer[k]) \subseteq torn' /\ torn \subseteq torn'
    <3>1. DOMAIN toServer[k] = 1 .. Len(toServer[k])
      BY <1>0, <2>1, LenProperties DEF SocketTyped
    <3>2. Replies(toServer[k]) \subseteq {toServer[k][i].of : i \in DOMAIN toServer[k]}
      BY <3>1 DEF Replies, Elements
    <3>3. \A n \in Replies(toServer[k]) : n # 0
      BY <1>0, <2>1 DEF SocketsWired, Wired
    <3> QED BY <2>1, <3>2, <3>3
  <2>4. Replies(<<>>) = {}
    BY FrameNone
  <2>5. SocketsWired'
    <3>1. Wired(k)'
      BY <1>0, <2>1, <2>2, <2>4, EmptyOrder DEF SocketsWired, Wired
    <3> QED BY <1>0, <2>2, <3>1 DEF SocketsWired, Wired
  <2>6. Live' /\ Showing' /\ Sized'
    BY <1>0, <2>1 DEF Wiring, Live, Showing, Sized, T!shellVars
  <2>7. Apart'
    <3>1. \A c \in T!Conns : Numbers(c)' \subseteq Numbers(c)
      BY <1>0, <2>2, <2>4 DEF Numbers
    <3>2. Apart
      BY DEF Wiring
    <3>3. \A c, d \in T!Conns : c # d => Numbers(c)' \cap Numbers(d)' = {}
      BY <3>1, <3>2 DEF Apart
    <3>4. \A c \in T!Conns : c # socket' => Queries(toClient'[c]) \cap T!ToSet(written') \subseteq torn'
      BY <1>0, <2>3, <3>2 DEF Apart, T!shellVars
    <3>5. socket' = 0 => \A c \in T!Conns : T!ToSet(unparsed') \cap Numbers(c)' \subseteq torn'
      BY <1>0, <2>3, <3>1, <3>2 DEF Apart, T!shellVars
    <3> QED BY <3>3, <3>4, <3>5 DEF Apart
  <2>8. Settled'
    <3> SUFFICES ASSUME NEW n \in T!ToSet(written) \ torn'
                 PROVE  answers[n] = IF n \in Owed' THEN 0 ELSE 1
      BY <1>0 DEF Settled, T!shellVars
    <3>1. n \in T!ToSet(written) \ torn /\ n \notin Replies(toServer[k])
      BY <2>3
    <3>2. n \in Owed' <=> n \in Owed
      BY <1>0, <2>2, <2>4, <3>1 DEF Owed, T!shellVars
    <3> QED BY <3>1, <3>2 DEF Wiring, Settled
  <2> QED BY <2>5, <2>6, <2>7, <2>8 DEF Wiring
<1> QED BY <1>1, <1>2

LEMMA TakeWires ==
  ASSUME T!TerminalsBounds, TermTyped, Wiring, TakeStep
  PROVE  Wiring'
<1>c. PICK c \in T!Conns : c = conn /\ c # 0
  BY TakeTypes DEF Wiring
<1> DEFINE q == toClient[c]
           h == Head(q)
<1>0. /\ c # 0 /\ c \in T!Conns /\ q \in Seq(T!Frames) /\ q # <<>>
      /\ UNCHANGED <<T!shellVars, shellOf, out, answers, skipped, torn, late>>
      /\ toClient' = [toClient EXCEPT ![c] = Tail(@)]
      /\ SocketsWired /\ Live /\ Showing /\ Sized /\ Apart /\ Settled
      /\ SocketTyped /\ PaneTyped
  BY <1>c, TakeTypes DEF Wiring, TermTyped
<1>1. toClient'[c] = Tail(q) /\ \A d \in T!Conns : d # c => toClient'[d] = toClient[d]
  BY <1>0 DEF SocketTyped
<1>2. Wired(c) /\ Framing(q) /\ Flows(q)
  BY <1>0 DEF SocketsWired, Wired
<1>3. /\ Tail(q) \in Seq(T!Frames) /\ h \in T!Frames /\ h \in Elements(q)
      /\ Framing(Tail(q)) /\ Flows(Tail(q)) /\ T!InTurn(h.of)
      /\ Carried(q) = Carried(Tail(q)) \cup T!ToSet(h.of)
      /\ \A x \in T!ToSet(h.of), y \in Carried(Tail(q)) : x < y
      /\ Queries(q) = Queries(Tail(q)) \cup (IF h.type = "chunk" THEN {h.of[1]} ELSE {})
      /\ ~Opens(Tail(q))
      /\ h.type \notin Ends => (Ended(Tail(q)) <=> Ended(q))
      /\ h.type \in Ends => Tail(q) = <<>>
      /\ h.type \in Ends \cup {"open"} => h.of = <<>>
      /\ h.type = "chunk" => h.of = <<h.of[1]>> /\ h.of[1] \in T!Chunks /\ T!ToSet(h.of) = {h.of[1]}
  BY <1>0, <1>2, FrameTaken
<1>4. /\ toServer[c] \in Seq(T!Messages) /\ Queries(Tail(q)) \subseteq Carried(Tail(q))
      /\ Ascending(toServer[c], "in")
  BY <1>0, <1>2, <1>3, CarriedBy DEF SocketTyped, Wired
<1>5. Opens(q) <=> h.type = "open"
  BY <1>0 DEF Opens
<1>e. q = toClient[conn] /\ c = conn
  BY <1>c
<1>o. /\ T!Opened => h.type = "open" /\ UNCHANGED <<conn, pane>> /\ seen' = <<>>
      /\ T!Restored => h.type = "snapshot" /\ UNCHANGED <<conn, pane>> /\ seen' = seen \o h.of
      /\ T!Shown => h.type = "chunk" /\ UNCHANGED <<conn, pane>> /\ seen' = seen \o h.of
      /\ T!ExitTold \/ T!CloseTold => h.type \in Ends /\ conn' = 0
  BY <1>e DEF T!Opened, T!Restored, T!Shown, T!ExitTold, T!CloseTold, T!Next1, Ends
\* Only what answers a query adds to the answers on their way back.
<1> DEFINE new == IF h.type = "chunk" THEN {h.of[1]} ELSE {}
<1>6. /\ toServer'[c] \in Seq(T!Messages) /\ Ascending(toServer'[c], "in")
      /\ Replies(toServer'[c]) = Replies(toServer[c]) \cup new
      /\ Elements(toServer[c]) \subseteq Elements(toServer'[c])
      /\ T!Opened => \E m \in Elements(toServer'[c]) : m.type = "size"
      /\ \A d \in T!Conns : d # c => toServer'[d] = toServer[d]
      /\ shellOf[c] = 0 => new = {}
  <2>1. CASE T!Opened
    <3> DEFINE m == T!Message("size", 0)
    <3>1. m \in T!Messages /\ m.type = "size" /\ new = {}
      BY <1>o, <2>1, MessageKinds
    <3>2. toServer' = [toServer EXCEPT ![c] = Append(@, m)]
      BY <1>e, <2>1 DEF T!Opened, T!Says
    <3> HIDE DEF m
    <3>3. toServer'[c] = Append(toServer[c], m) /\ \A d \in T!Conns : d # c => toServer'[d] = toServer[d]
      BY <1>0, <3>2 DEF SocketTyped
    <3>4. /\ Append(toServer[c], m) \in Seq(T!Messages) /\ Ascending(Append(toServer[c], m), "in")
          /\ Replies(Append(toServer[c], m)) = Replies(toServer[c]) \cup {}
          /\ Elements(Append(toServer[c], m)) = Elements(toServer[c]) \cup {m}
      BY <1>4, <3>1, MessageAdded
    <3> QED BY <3>1, <3>3, <3>4
  <2>2. CASE T!Shown
    <3> DEFINE n == h.of[1]
               m == T!Message("in", n)
    <3>1. n \in T!Chunks /\ n \in Queries(q) /\ new = {n}
      BY <1>3, <1>o, <2>2
    <3>2. m \in T!Messages /\ m.type = "in" /\ m.of = n
      BY <3>1, MessageKinds
    <3>3. toServer' = [toServer EXCEPT ![c] = Append(@, m)]
      BY <1>e, <2>2 DEF T!Shown, T!Says
    <3> HIDE DEF m, n
    <3>4. toServer'[c] = Append(toServer[c], m) /\ \A d \in T!Conns : d # c => toServer'[d] = toServer[d]
      BY <1>0, <3>3 DEF SocketTyped
    <3>5. \A x \in Replies(toServer[c]) : x < m.of
      BY <1>2, <3>1, <3>2 DEF Wired
    <3>6. shellOf[c] # 0
      BY <1>2, <1>3, <1>o, <2>2 DEF Wired
    <3>7. h.type # "open" /\ ~T!Opened
      BY <1>o, <2>2
    <3> QED BY <1>4, <3>1, <3>2, <3>4, <3>5, <3>6, <3>7, MessageAdded
  <2>3. CASE T!Restored \/ T!ExitTold \/ T!CloseTold
    <3>1. UNCHANGED toServer /\ new = {} /\ ~T!Opened
      BY <1>o, <2>3 DEF T!Restored, T!ExitTold, T!CloseTold, Ends
    <3> QED BY <1>4, <3>1
  <2> QED BY <2>1, <2>2, <2>3 DEF TakeStep
<1> HIDE DEF q, h, new
<1>7. new \subseteq Queries(q) /\ Queries(q) = Queries(Tail(q)) \cup new /\ Carried(Tail(q)) \subseteq Carried(q)
  BY <1>3 DEF new
<1>n. Numbers(c)' = Numbers(c) /\ \A d \in T!Conns : d # c => Numbers(d)' = Numbers(d)
  BY <1>1, <1>6, <1>7 DEF Numbers, q
<1>8. SocketsWired'
  <2>1. \A n \in Replies(toServer'[c]), m \in Queries(Tail(q)) : n < m
    <3>1. \A n \in Replies(toServer[c]), m \in Queries(Tail(q)) : n < m
      BY <1>2, <1>7 DEF Wired, q
    <3>2. \A n \in new, m \in Queries(Tail(q)) : n < m
      BY <1>3, <1>4 DEF new
    <3> QED BY <1>6, <3>1, <3>2
  <2>2. /\ Carried(Tail(q)) \subseteq 1 .. out /\ Replies(toServer'[c]) \subseteq 1 .. out
    <3>1. Carried(q) \subseteq 1 .. out /\ Queries(q) \subseteq Carried(q) /\ Replies(toServer[c]) \subseteq 1 .. out
      BY <1>0, <1>2, CarriedBy DEF Wired, q
    <3> QED BY <1>6, <1>7, <3>1
  <2>3. shellOf[c] = 0 => \A f \in Elements(Tail(q)) : f.type \in {"open", "closed"}
    <3>1. Elements(Tail(q)) \subseteq Elements(q)
      BY <1>0, TailElements
    <3> QED BY <1>2, <3>1 DEF Wired, q
  <2>4. Wired(c)'
    BY <1>0, <1>1, <1>2, <1>3, <1>6, <2>1, <2>2, <2>3 DEF Wired
  <2>5. ASSUME NEW d \in T!Conns, d # c PROVE Wired(d)'
    BY <1>0, <1>1, <1>6, <2>5 DEF SocketsWired, Wired
  <2> QED BY <2>4, <2>5 DEF SocketsWired
<1>9. Live'
  <2>1. socket' # 0 => ~Ended(toClient'[socket'])
    <3>1. h.type \in Ends => ~Ended(Tail(q))
      BY <1>3, FrameNone
    <3>2. CASE socket = c
      BY <1>0, <1>1, <1>3, <3>1, <3>2 DEF Live, T!shellVars, q
    <3>3. CASE socket # c /\ socket # 0
      <4>1. socket \in T!Conns
        BY <1>0, <3>3, WireTyped
      <4> QED BY <1>0, <1>1, <3>3, <4>1 DEF Live, T!shellVars
    <3> QED BY <1>0, <3>2, <3>3 DEF T!shellVars
  <2>2. conn' # 0 => conn' = c /\ h.type \notin Ends
    BY <1>c, <1>o DEF TakeStep, Ends
  <2>3. conn' # 0 /\ shellOf'[conn'] # 0 /\ ~Ended(toClient'[conn']) => socket' = conn'
    BY <1>0, <1>1, <1>3, <1>c, <2>2 DEF Live, T!shellVars, q
  <2> QED BY <2>1, <2>3 DEF Live
<1>10. Showing' /\ Sized'
  <2>1. CASE conn' = 0
    BY <2>1 DEF Showing, Sized
  <2>2. CASE conn' # 0
    <3>1. conn' = c /\ pane' = pane /\ (T!Opened \/ T!Restored \/ T!Shown)
      BY <1>c, <1>o, <2>2 DEF TakeStep
    <3>2. Showing'
      <4> SUFFICES ASSUME c = socket
                   PROVE  /\ T!ToSet(seen') \cup Carried(Tail(q)) = T!ToSet(written) \ skipped
                          /\ T!InTurn(seen') /\ \A x \in T!ToSet(seen'), y \in Carried(Tail(q)) : x < y
        BY <1>0, <1>1, <1>3, <3>1 DEF Showing, T!shellVars
      <4>1. /\ (IF h.type = "open" THEN {} ELSE T!ToSet(seen)) \cup Carried(q) = T!ToSet(written) \ skipped
            /\ h.type # "open" => T!InTurn(seen) /\ \A x \in T!ToSet(seen), y \in Carried(q) : x < y
        BY <1>0, <1>5, <1>c DEF Showing, q
      <4>2. CASE T!Opened
        BY <1>3, <1>o, <4>1, <4>2, TurnEmpty
      <4>3. CASE T!Restored \/ T!Shown
        <5>1. h.type # "open" /\ seen' = seen \o h.of
          BY <1>o, <4>3
        <5>2. seen \in Seq(T!Chunks) /\ h.of \in Seq(T!Chunks)
          BY <1>0, <1>3 DEF PaneTyped, T!Frames
        <5>3. T!ToSet(seen') = T!ToSet(seen) \cup T!ToSet(h.of)
          BY <5>1, <5>2, TurnConcat
        <5>4. T!InTurn(seen')
          BY <1>3, <4>1, <5>1, <5>2, TurnConcat
        <5> QED BY <1>3, <4>1, <5>1, <5>3, <5>4
      <4> QED BY <3>1, <4>2, <4>3
    <3>3. Sized'
      <4> SUFFICES ASSUME c = socket
                   PROVE  grid = pane \/ late \/ \E m \in Elements(toServer'[c]) : m.type = "size"
        BY <1>0, <3>1 DEF Sized, T!shellVars
      <4>1. h.type = "open" => T!Opened
        BY <1>o, <3>1
      <4>2. h.type = "open" \/ grid = pane \/ late \/ \E m \in Elements(toServer[c]) : m.type = "size"
        BY <1>0, <1>5, <1>c DEF Sized, q
      <4> QED BY <1>6, <4>1, <4>2
    <3> QED BY <3>2, <3>3
  <2> QED BY <2>1, <2>2
<1>11. Apart'
  <2>1. \A d \in T!Conns : Queries(toClient'[d]) \subseteq Queries(toClient[d])
    BY <1>1, <1>7 DEF q
  <2>2. \A d, e \in T!Conns : d # e => Numbers(d)' \cap Numbers(e)' = {}
    BY <1>0, <1>n DEF Apart
  <2>3. \A d \in T!Conns : d # socket' => Queries(toClient'[d]) \cap T!ToSet(written') \subseteq torn'
    BY <1>0, <2>1 DEF Apart, T!shellVars
  <2>4. socket' = 0 => \A d \in T!Conns : T!ToSet(unparsed') \cap Numbers(d)' \subseteq torn'
    BY <1>0, <1>n DEF Apart, T!shellVars
  <2> QED BY <2>2, <2>3, <2>4 DEF Apart
<1>12. Settled'
  <2> SUFFICES ASSUME NEW n \in T!ToSet(written) \ torn PROVE n \in Owed' <=> n \in Owed
    BY <1>0 DEF Settled, T!shellVars
  <2>1. CASE socket = c
    <3>1. shellOf[c] = shell /\ socket # 0
      BY <1>0, <2>1, WireTyped
    <3>2. n \in Owed <=> n \in Queries(q) \/ \E d \in T!Conns : shellOf[d] = shell /\ n \in Replies(toServer[d])
      BY <2>1, <3>1, OwedWhere DEF q
    <3>3. Owed' = Queries(Tail(q)) \cup UNION {Replies(toServer'[d]) : d \in {d \in T!Conns : shellOf[d] = shell}}
      BY <1>0, <1>1, <2>1, <3>1 DEF Owed, T!shellVars
    <3>4. n \in Owed' <=> n \in Queries(Tail(q)) \/ \E d \in T!Conns : shellOf[d] = shell /\ n \in Replies(toServer'[d])
      BY <3>3
    <3>5. CASE n \in new
      BY <1>6, <1>7, <3>1, <3>2, <3>4, <3>5
    <3>6. CASE n \notin new
      <4>1. \A d \in T!Conns : n \in Replies(toServer'[d]) <=> n \in Replies(toServer[d])
        BY <1>6, <3>6
      <4> QED BY <1>7, <3>2, <3>4, <3>6, <4>1
    <3> QED BY <3>5, <3>6
  <2>2. CASE socket # c
    <3>1. n \notin new
      BY <1>0, <1>7, <2>2 DEF Apart, q
    <3>2. \A d \in T!Conns : n \in Replies(toServer'[d]) <=> n \in Replies(toServer[d])
      BY <1>6, <3>1
    <3>3. socket # 0 => socket \in T!Conns
      BY <1>0, WireTyped
    <3>4. socket # 0 => toClient'[socket] = toClient[socket]
      BY <1>1, <2>2, <3>3
    <3> QED BY <1>0, <3>2, <3>4 DEF Owed, T!shellVars
  <2> QED BY <2>1, <2>2
<1> QED BY <1>8, <1>9, <1>10, <1>11, <1>12 DEF Wiring

\* A socket that is refused opens, is told so and carries nothing else.
LEMMA RefusedWires ==
  ASSUME T!TerminalsBounds, TermTyped, Wiring, NEW c \in T!Conns, T!SpawnFails(c)
  PROVE  Wiring'
<1>0. /\ shell = 0 /\ toClient' = [toClient EXCEPT ![c] = Refusal]
      /\ UNCHANGED <<T!shellVars, T!paneVars, shellOf, toServer, out, answers, T!historyVars>>
      /\ SocketsWired /\ Live /\ Showing /\ Sized /\ Apart /\ Settled
      /\ shellOf[c] = 0 /\ toClient[c] = <<>> /\ socket = 0 /\ SocketTyped
  BY WaitingRoom DEF T!SpawnFails, Refusal, Wiring, TermTyped, ShellHas
<1>2. toClient'[c] = Refusal /\ \A d \in T!Conns : d # c => toClient'[d] = toClient[d]
  BY <1>0 DEF SocketTyped
<1>3. /\ Framing(toClient'[c]) /\ Flows(toClient'[c]) /\ Carried(toClient'[c]) = {}
      /\ Queries(toClient'[c]) = {}
      /\ \A g \in Elements(toClient'[c]) : g.type \in {"open", "closed"}
  BY <1>2, RefusalFrames
<1>4. Queries(toClient[c]) = {}
  BY <1>0, FrameNone
<1>5. SocketsWired'
  <2>1. Wired(c)'
    BY <1>0, <1>3 DEF SocketsWired, Wired
  <2>2. ASSUME NEW d \in T!Conns, d # c PROVE Wired(d)'
    BY <1>0, <1>2, <2>2 DEF SocketsWired, Wired
  <2> QED BY <2>1, <2>2 DEF SocketsWired
<1>6. Live' /\ Showing' /\ Sized'
  <2>1. socket' = 0 /\ conn' = conn /\ shellOf' = shellOf
    BY <1>0 DEF T!shellVars, T!paneVars
  <2>2. conn # 0 => conn \in T!Conns
    BY <1>0, WireTyped
  <2>3. conn # 0 /\ shellOf[conn] # 0 => Ended(toClient[conn])
    BY <1>0 DEF Live
  <2>4. conn # 0 /\ shellOf[conn] # 0 => Ended(toClient'[conn])
    BY <1>0, <1>2, <2>2, <2>3
  <2> QED BY <2>1, <2>4 DEF Live, Showing, Sized
<1>7. \A d \in T!Conns : Numbers(d)' = Numbers(d) /\ Queries(toClient'[d]) = Queries(toClient[d])
  BY <1>0, <1>2, <1>3, <1>4 DEF Numbers
<1>8. Apart'
  BY <1>0, <1>7 DEF Apart, T!shellVars, T!historyVars
<1>9. Settled'
  <2>1. Owed' = Owed
    BY <1>0 DEF Owed, T!shellVars
  <2> QED BY <1>0, <2>1 DEF Settled, T!shellVars, T!historyVars
<1> QED BY <1>5, <1>6, <1>8, <1>9 DEF Wiring

LEMMA SpawnWires ==
  ASSUME T!TerminalsBounds, TermTyped, Wiring, NEW c \in T!Conns, T!Spawn(c)
  PROVE  Wiring'
<1> DEFINE f == T!Frame("open", <<>>)
<1>0. /\ shell = 0 /\ socket' = c /\ c # 0
      /\ shellOf' = [shellOf EXCEPT ![c] = shells + 1] /\ shells + 1 # 0
      /\ toClient' = [toClient EXCEPT ![c] = Append(@, f)] /\ skipped' = {}
      /\ UNCHANGED <<written, unparsed, mirror, T!paneVars, toServer, out, answers, torn>>
      /\ SocketsWired /\ Live /\ Showing /\ Sized /\ Apart /\ Settled
      /\ shellOf[c] = 0 /\ toClient[c] = <<>> /\ socket = 0 /\ SocketTyped /\ written = <<>>
  <2>1. shells + 1 # 0
    BY DEF TermTyped, ShellTyped
  <2> QED BY <2>1, WaitingRoom DEF T!Spawn, T!Sent, Wiring, TermTyped, ShellHas
<1>1. f \in T!Frames /\ f.type = "open" /\ f.of = <<>> /\ f.type \notin Ends
  BY FrameKinds, EmptySeq DEF Ends
<1> HIDE DEF f
<1>2. /\ toClient'[c] = Append(<<>>, f) /\ \A d \in T!Conns : d # c => toClient'[d] = toClient[d] /\ shellOf'[d] = shellOf[d]
      /\ shellOf'[c] # 0
  BY <1>0 DEF SocketTyped
<1>3. /\ Framing(toClient'[c]) /\ Flows(toClient'[c]) /\ Carried(toClient'[c]) = {}
      /\ Queries(toClient'[c]) = {} /\ ~Ended(toClient'[c]) /\ Opens(toClient'[c])
  <2>1. T!InTurn(f.of) /\ T!ToSet(f.of) = {}
    BY <1>1, TurnEmpty
  <2>3. /\ Framing(Append(<<>>, f)) /\ Flows(Append(<<>>, f)) /\ Carried(Append(<<>>, f)) = {} \cup T!ToSet(f.of)
        /\ Queries(Append(<<>>, f)) = {} /\ ~Ended(Append(<<>>, f)) /\ Opens(Append(<<>>, f))
    BY <1>1, <2>1, FrameNone, FrameAdded
  <2> QED BY <1>1, <1>2, <2>1, <2>3
<1>4. Queries(toClient[c]) = {}
  BY <1>0, FrameNone
<1>5. SocketsWired'
  <2>1. Wired(c)'
    BY <1>0, <1>2, <1>3 DEF SocketsWired, Wired
  <2>2. ASSUME NEW d \in T!Conns, d # c PROVE Wired(d)'
    BY <1>0, <1>2, <2>2 DEF SocketsWired, Wired
  <2> QED BY <2>1, <2>2 DEF SocketsWired
<1>e. T!ToSet(written) = {} /\ conn' = conn
  BY <1>0, TurnEmpty DEF T!paneVars
<1>6. Live' /\ Showing' /\ Sized'
  <2>2. conn # 0 => conn \in T!Conns
    BY <1>0, WireTyped
  <2>3. conn # 0 /\ shellOf[conn] # 0 => Ended(toClient[conn])
    BY <1>0 DEF Live
  <2>4. conn # 0 /\ conn # c /\ shellOf'[conn] # 0 => Ended(toClient'[conn])
    BY <1>0, <1>2, <2>2, <2>3
  <2>5. Live'
    BY <1>0, <1>3, <1>e, <2>4 DEF Live
  <2>6. Showing' /\ Sized'
    BY <1>0, <1>3, <1>e DEF Showing, Sized
  <2> QED BY <2>5, <2>6
<1>7. \A d \in T!Conns : Numbers(d)' = Numbers(d) /\ Queries(toClient'[d]) = Queries(toClient[d])
  BY <1>0, <1>2, <1>3, <1>4 DEF Numbers
<1>8. Apart'
  BY <1>0, <1>7, <1>e DEF Apart
<1>9. Settled'
  BY <1>0, <1>e DEF Settled
<1> QED BY <1>5, <1>6, <1>8, <1>9 DEF Wiring

LEMMA AdoptWires ==
  ASSUME T!TerminalsBounds, TermTyped, Wiring, NEW c \in T!Conns, T!Adopt(c)
  PROVE  Wiring'
<1> DEFINE f == T!Frame("closed", <<>>)
           p == <<T!Frame("open", <<>>)>> \o T!Snapshot
<1>0. /\ shell # 0 /\ socket' = c /\ c # 0
      /\ shellOf' = [shellOf EXCEPT ![c] = shell]
      /\ toClient' = [d \in T!Conns |-> IF d = c THEN p
                                      ELSE IF d = socket THEN Append(toClient[d], f) ELSE toClient[d]]
      /\ skipped' = T!ToSet(unparsed) /\ torn' = torn \cup T!UnderWay
      /\ UNCHANGED <<shell, written, unparsed, mirror, T!paneVars, toServer, out, answers, late>>
      /\ SocketsWired /\ Live /\ Showing /\ Sized /\ Apart /\ Settled
      /\ shellOf[c] = 0 /\ toClient[c] = <<>> /\ SocketTyped /\ ShellTyped /\ ShellHas
  BY WaitingRoom DEF T!Adopt, Wiring, TermTyped
<1>1. f \in T!Frames /\ f.type = "closed" /\ f.of = <<>> /\ f.type \in Ends
  BY FrameKinds, EmptySeq DEF Ends
<1>m. /\ T!InTurn(mirror) /\ T!ToSet(written) = T!ToSet(mirror) \cup T!ToSet(unparsed)
      /\ T!ToSet(mirror) = T!ToSet(written) \ T!ToSet(unparsed)
  <2>1. mirror \in Seq(T!Chunks) /\ unparsed \in Seq(T!Chunks) /\ T!InTurn(mirror \o unparsed) /\ T!Chunks \subseteq Nat
    BY <1>0 DEF ShellTyped, ShellHas, T!Chunks
  <2>2. T!InTurn(mirror) /\ \A x \in T!ToSet(mirror), y \in T!ToSet(unparsed) : x < y
    BY <2>1, TurnParts
  <2>3. T!ToSet(mirror \o unparsed) = T!ToSet(mirror) \cup T!ToSet(unparsed)
    BY <2>1, TurnConcat
  <2>4. T!ToSet(mirror) \subseteq Nat
    BY <2>1, TurnSet
  <2>5. T!ToSet(mirror) \cap T!ToSet(unparsed) = {}
    BY <2>2, <2>4
  <2> QED BY <1>0, <2>2, <2>3, <2>5 DEF ShellTyped
<1>2. /\ p \in Seq(T!Frames) /\ Framing(p) /\ Flows(p) /\ Carried(p) = T!ToSet(mirror)
      /\ Queries(p) = {} /\ ~Ended(p) /\ Opens(p)
  BY <1>0, <1>m, Replayed DEF ShellTyped
<1> HIDE DEF f, p
<1>s. socket # 0 => socket \in T!Conns /\ shellOf[socket] = shell /\ socket # c
  BY <1>0, WireTyped
<1>3. /\ toClient'[c] = p /\ shellOf'[c] = shell
      /\ \A d \in T!Conns : d # c => shellOf'[d] = shellOf[d]
      /\ \A d \in T!Conns : d # c /\ d # socket => toClient'[d] = toClient[d]
      /\ socket # 0 => toClient'[socket] = Append(toClient[socket], f)
  BY <1>0, <1>s DEF SocketTyped
<1>4. socket # 0 =>
        /\ Framing(toClient'[socket]) /\ Flows(toClient'[socket]) /\ Ended(toClient'[socket])
        /\ Carried(toClient'[socket]) = Carried(toClient[socket])
        /\ Queries(toClient'[socket]) = Queries(toClient[socket])
  <2>1. T!ToSet(f.of) = {} /\ T!InTurn(f.of)
    BY <1>1, TurnEmpty
  <2>2. SUFFICES ASSUME socket # 0
                 PROVE  LET r == Append(toClient[socket], f)
                        IN Framing(r) /\ Flows(r) /\ Ended(r) /\ Carried(r) = Carried(toClient[socket])
                           /\ Queries(r) = Queries(toClient[socket])
    BY <1>3
  <2> DEFINE q == toClient[socket]
  <2>3. q \in Seq(T!Frames) /\ ~Ended(q) /\ Framing(q) /\ Flows(q)
    BY <1>0, <1>s, <2>2 DEF SocketTyped, Live, SocketsWired, Wired
  <2> HIDE DEF q
  <2>4. /\ Framing(Append(q, f)) /\ Flows(Append(q, f)) /\ Ended(Append(q, f))
        /\ Carried(Append(q, f)) = Carried(q) \cup T!ToSet(f.of) /\ Queries(Append(q, f)) = Queries(q) \cup {}
    BY <1>1, <2>1, <2>3, FrameAdded
  <2> QED BY <2>1, <2>4 DEF q
<1>5. Wired(c) /\ Replies(toServer[c]) = {} /\ Queries(toClient[c]) = {}
  BY <1>0, FrameNone DEF SocketsWired, Wired
<1>6. SocketsWired'
  <2>1. Wired(c)'
    <3>1. T!ToSet(mirror) \subseteq 1 .. out
      BY <1>0, <1>m DEF ShellHas
    <3> QED BY <1>0, <1>2, <1>3, <1>5, <3>1, EmptyOrder DEF Wired
  <2>2. ASSUME NEW d \in T!Conns, d # c, d # socket PROVE Wired(d)'
    BY <1>0, <1>3, <2>2 DEF SocketsWired, Wired
  <2>3. ASSUME socket # 0, NEW d \in T!Conns, d = socket PROVE Wired(d)'
    BY <1>0, <1>3, <1>4, <1>s, <2>3 DEF SocketsWired, Wired
  <2>4. \A d \in T!Conns : (d # c /\ d # socket) \/ d = c \/ (socket # 0 /\ d = socket)
    BY DEF T!Conns
  <2> QED BY <2>1, <2>2, <2>3, <2>4 DEF SocketsWired
<1>7. \A d \in T!Conns : Queries(toClient'[d]) = Queries(toClient[d]) /\ Numbers(d)' = Numbers(d)
  <2>1. \A d \in T!Conns : (d # c /\ d # socket) \/ d = c \/ (socket # 0 /\ d = socket)
    BY DEF T!Conns
  <2>2. \A d \in T!Conns : Queries(toClient'[d]) = Queries(toClient[d])
    BY <1>2, <1>3, <1>4, <1>5, <2>1
  <2> QED BY <1>0, <2>2 DEF Numbers
<1>8. Live'
  <2>1. conn' = conn /\ (conn # 0 => conn \in T!Conns)
    BY <1>0, WireTyped DEF T!paneVars
  <2>2. conn # 0 /\ conn # c /\ shellOf[conn] # 0 => Ended(toClient'[conn])
    BY <1>0, <1>3, <1>4, <2>1 DEF Live
  <2> QED BY <1>0, <1>2, <1>3, <2>1, <2>2 DEF Live
<1>9. Showing' /\ Sized'
  <2> SUFFICES ASSUME conn' = socket' PROVE {} \cup Carried(p) = T!ToSet(written) \ skipped'
    BY <1>0, <1>2, <1>3 DEF Showing, Sized
  <2> QED BY <1>0, <1>2, <1>m
<1>u. /\ T!ToSet(unparsed) \subseteq torn' /\ torn \subseteq torn'
      /\ socket # 0 => Queries(toClient[socket]) \subseteq torn'
  <2>1. socket # 0 => T!Flying(socket) = Carried(toClient[socket]) /\ Queries(toClient[socket]) \subseteq Carried(toClient[socket])
    BY <1>0, <1>s, FlyingCarried, WireTyped
  <2> QED BY <1>0, <2>1 DEF T!UnderWay
<1>10. Apart'
  <2>1. \A d, e \in T!Conns : d # e => Numbers(d)' \cap Numbers(e)' = {}
    BY <1>0, <1>7 DEF Apart
  <2>2. ASSUME NEW d \in T!Conns, d # socket' PROVE Queries(toClient'[d]) \cap T!ToSet(written') \subseteq torn'
    BY <1>0, <1>7, <1>u, <2>2 DEF Apart, T!Conns
  <2>3. socket' # 0
    BY <1>0
  <2> QED BY <2>1, <2>2, <2>3 DEF Apart
<1>11. Settled'
  <2> SUFFICES ASSUME NEW n \in T!ToSet(written) \ torn' PROVE n \in torn' \/ (n \in Owed' <=> n \in Owed)
    BY <1>0, <1>u DEF Settled
  <2>1. n \notin T!ToSet(unparsed) /\ (socket # 0 => n \notin Queries(toClient[socket]))
    BY <1>u
  <2>2. n \in Owed <=> \E d \in T!Conns : shellOf[d] = shell /\ n \in Replies(toServer[d])
    BY <2>1, OwedWhere
  <2>3. n \in Owed' <=> \E d \in T!Conns : shellOf'[d] = shell /\ n \in Replies(toServer[d])
    <3>1. Owed' = Queries(p) \cup UNION {Replies(toServer[d]) : d \in {d \in T!Conns : shellOf'[d] = shell}}
      BY <1>0, <1>3 DEF Owed
    <3> QED BY <1>2, <3>1
  <2>4. \A d \in T!Conns : n \in Replies(toServer[d]) => shellOf'[d] = shellOf[d]
    BY <1>3, <1>5
  <2> QED BY <2>2, <2>3, <2>4
<1> QED BY <1>6, <1>8, <1>9, <1>10, <1>11 DEF Wiring

LEMMA HandledWires ==
  ASSUME T!TerminalsBounds, TermTyped, Wiring, NEW c \in T!Conns, T!Handle(c)
  PROVE  Wiring'
<1> DEFINE q == toServer[c]
           m == Head(q)
<1>0. /\ q # <<>> /\ toServer' = [toServer EXCEPT ![c] = Tail(@)]
      /\ UNCHANGED <<shell, written, unparsed, socket, T!paneVars, shellOf, toClient, out, skipped, torn, ownerOf>>
      /\ SocketsWired /\ Live /\ Showing /\ Sized /\ Apart /\ Settled /\ SocketTyped /\ PaneHas /\ HistoryTyped
  BY DEF T!Handle, Wiring, TermTyped
<1>1. Wired(c) /\ q \in Seq(T!Messages) /\ Ascending(q, "in")
  BY <1>0 DEF SocketsWired, Wired, SocketTyped
<1>2. /\ Tail(q) \in Seq(T!Messages) /\ m \in T!Messages /\ m \in Elements(q) /\ Ascending(Tail(q), "in")
      /\ Replies(q) = Replies(Tail(q)) \cup (IF m.type = "in" THEN {m.of} ELSE {})
      /\ m.type = "in" => m.of \notin Replies(Tail(q))
      /\ Elements(q) = Elements(Tail(q)) \cup {m}
  BY <1>0, <1>1, MessageTaken
<1>3. toServer'[c] = Tail(q) /\ \A d \in T!Conns : d # c => toServer'[d] = toServer[d]
  BY <1>0 DEF SocketTyped
<1>4. IF shell = 0 \/ shellOf[c] # shell THEN UNCHANGED <<answers, grid, late>>
      ELSE IF m.type = "in"
           THEN answers' = [answers EXCEPT ![m.of] = @ + 1] /\ UNCHANGED <<grid, late>>
           ELSE grid' = ownerOf[c] /\ late' = (c # socket) /\ UNCHANGED answers
  BY DEF T!Handle
<1>5. \A d \in T!Conns : Replies(toServer'[d]) \subseteq Replies(toServer[d]) /\ Numbers(d)' \subseteq Numbers(d)
  BY <1>0, <1>2, <1>3 DEF Numbers
<1>6. SocketsWired'
  <2>1. Wired(c)'
    BY <1>0, <1>1, <1>2, <1>3, <1>5 DEF Wired
  <2>2. ASSUME NEW d \in T!Conns, d # c PROVE Wired(d)'
    BY <1>0, <1>3, <2>2 DEF SocketsWired, Wired
  <2> QED BY <2>1, <2>2 DEF SocketsWired
<1>7. Live' /\ Showing'
  BY <1>0 DEF Live, Showing, T!paneVars
<1>8. Sized'
  <2> SUFFICES ASSUME conn # 0, conn = socket, ~Opens(toClient[conn]), grid' # pane, late' # TRUE
               PROVE  \E x \in Elements(toServer'[conn]) : x.type = "size"
    BY <1>0 DEF Sized, T!paneVars
  <2>0. conn \in T!Conns /\ shellOf[conn] = shell /\ shell # 0 /\ ownerOf[conn] = pane
    BY <1>0, WireTyped DEF PaneHas
  <2>1. CASE conn # c
    <3>1. shell = 0 \/ shellOf[c] # shell \/ m.type = "in"
      BY <1>4, <2>1
    <3>2. grid' = grid /\ late' = late
      BY <1>4, <3>1
    <3> QED BY <1>0, <1>3, <2>0, <2>1, <3>2 DEF Sized
  <2>2. CASE conn = c
    <3>1. m.type = "in"
      BY <1>4, <2>0, <2>2
    <3>2. grid' = grid /\ late' = late
      BY <1>4, <3>1
    <3>3. \E x \in Elements(q) : x.type = "size"
      BY <1>0, <2>2, <3>2 DEF Sized
    <3> QED BY <1>2, <1>3, <2>2, <3>1, <3>3
  <2> QED BY <2>1, <2>2
<1>9. Apart'
  <2>1. \A d, e \in T!Conns : d # e => Numbers(d)' \cap Numbers(e)' = {}
    BY <1>0, <1>5 DEF Apart
  <2>2. \A d \in T!Conns : d # socket' => Queries(toClient'[d]) \cap T!ToSet(written') \subseteq torn'
    BY <1>0 DEF Apart
  <2>3. socket' = 0 => \A d \in T!Conns : T!ToSet(unparsed') \cap Numbers(d)' \subseteq torn'
    BY <1>0, <1>5 DEF Apart
  <2> QED BY <2>1, <2>2, <2>3 DEF Apart
<1>10. Settled'
  <2> SUFFICES ASSUME NEW n \in T!ToSet(written) \ torn
               PROVE  answers'[n] = IF n \in Owed' THEN 0 ELSE 1
    BY <1>0 DEF Settled
  <2>0. answers[n] = (IF n \in Owed THEN 0 ELSE 1) /\ n \in T!Chunks
    <3>1. T!ToSet(written) \subseteq T!Chunks
      BY TurnSet DEF TermTyped, ShellTyped
    <3> QED BY <1>0, <3>1 DEF Settled
  <2>1. n \in Owed' <=>
          \/ IF socket = 0 THEN n \in T!ToSet(unparsed) ELSE n \in Queries(toClient[socket])
          \/ \E d \in T!Conns : shellOf[d] = shell /\ n \in Replies(toServer'[d])
    BY <1>0 DEF Owed
  <2>2. CASE shellOf[c] = shell /\ m.type = "in" /\ n = m.of
    <3>0. n \in Replies(q) /\ n \notin Replies(Tail(q)) /\ shell # 0
      BY <1>1, <1>2, <2>2 DEF Wired
    <3>1. n \in Replies(q) /\ n \notin Replies(Tail(q)) /\ answers' = [answers EXCEPT ![n] = @ + 1]
      BY <1>4, <2>2, <3>0
    <3>2. n \in Owed
      BY <2>2, <3>1, OwedWhere
    <3>3. answers'[n] = 1
      BY <1>0, <2>0, <3>1, <3>2 DEF HistoryTyped
    <3>4. n \notin Queries(toClient[c])
      BY <1>1, <3>1, WireTyped, <1>0 DEF Wired
    <3>5. n \in Numbers(c)
      BY <3>1 DEF Numbers
    <3>6. \A d \in T!Conns : d # c => n \notin Numbers(d)
      BY <1>0, <3>5 DEF Apart
    <3>7. socket = 0 => n \notin T!ToSet(unparsed)
      BY <1>0, <3>5 DEF Apart
    <3>8. socket # 0 => n \notin Queries(toClient[socket])
      BY <1>0, <3>4, <3>6, WireTyped DEF Numbers
    <3>9. \A d \in T!Conns : n \notin Replies(toServer'[d])
      BY <1>3, <3>1, <3>6 DEF Numbers
    <3> QED BY <2>1, <3>3, <3>7, <3>8, <3>9
  <2>3. CASE ~(shellOf[c] = shell /\ m.type = "in" /\ n = m.of)
    <3>1. answers'[n] = answers[n]
      BY <1>0, <1>4, <2>0, <2>3 DEF HistoryTyped
    <3>2. \A d \in T!Conns : shellOf[d] = shell => (n \in Replies(toServer'[d]) <=> n \in Replies(toServer[d]))
      BY <1>2, <1>3, <2>3
    <3>3. n \in Owed' <=> n \in Owed
      BY <2>1, <3>2, OwedWhere
    <3> QED BY <2>0, <3>1, <3>3
  <2> QED BY <2>2, <2>3
<1> QED BY <1>6, <1>7, <1>8, <1>9, <1>10 DEF Wiring

LEMMA CloseWires ==
  ASSUME T!TerminalsBounds, TermTyped, Wiring, NEW c \in T!Conns, T!CloseSeen(c)
  PROVE  Wiring'
<1>0. /\ c \in closed /\ shellOf[c] # 0 /\ toClient' = [toClient EXCEPT ![c] = <<>>]
      /\ IF socket = c THEN socket' = 0 /\ torn' = torn \cup T!UnderWay ELSE UNCHANGED <<socket, torn>>
      /\ UNCHANGED <<shell, written, unparsed, grid, T!paneVars, shellOf, toServer, out, answers, skipped, late>>
      /\ SocketsWired /\ Live /\ Showing /\ Sized /\ Apart /\ Settled /\ SocketTyped /\ PaneHas
  BY DEF T!CloseSeen, Wiring, TermTyped
<1>1. toClient'[c] = <<>> /\ \A d \in T!Conns : d # c => toClient'[d] = toClient[d]
  BY <1>0 DEF SocketTyped
<1>2. conn # 0 => conn \in T!Conns /\ conn # c
  BY <1>0, WireTyped DEF PaneHas
<1>3. \A d \in T!Conns : Queries(toClient'[d]) \subseteq Queries(toClient[d]) /\ Numbers(d)' \subseteq Numbers(d)
  BY <1>0, <1>1, FrameNone DEF Numbers
<1>u. /\ torn \subseteq torn'
      /\ socket = c => T!ToSet(unparsed) \cup Queries(toClient[c]) \subseteq torn'
  <2>1. T!Flying(c) = Carried(toClient[c]) /\ Queries(toClient[c]) \subseteq Carried(toClient[c])
    BY <1>0, FlyingCarried, WireTyped
  <2>2. c # 0
    BY DEF T!Conns
  <2> QED BY <1>0, <2>1, <2>2 DEF T!UnderWay
<1>4. SocketsWired'
  <2>1. Wired(c)'
    BY <1>0, <1>1, FrameNone DEF SocketsWired, Wired
  <2>2. ASSUME NEW d \in T!Conns, d # c PROVE Wired(d)'
    BY <1>0, <1>1, <2>2 DEF SocketsWired, Wired
  <2> QED BY <2>1, <2>2 DEF SocketsWired
<1>5. Live'
  <2>1. socket' # 0 => socket' = socket /\ socket \in T!Conns /\ socket # c
    BY <1>0, WireTyped
  <2>2. conn # 0 => toClient'[conn] = toClient[conn] /\ (socket = conn => socket' = conn)
    BY <1>0, <1>1, <1>2
  <2> QED BY <1>0, <1>1, <2>1, <2>2 DEF Live, T!paneVars
<1>6. Showing' /\ Sized'
  <2>1. conn # 0 => toClient'[conn] = toClient[conn] /\ (socket' = conn <=> socket = conn)
    BY <1>0, <1>1, <1>2
  <2> QED BY <1>0, <2>1 DEF Showing, Sized, T!paneVars
<1>7. Apart'
  <2>1. \A d, e \in T!Conns : d # e => Numbers(d)' \cap Numbers(e)' = {}
    BY <1>0, <1>3 DEF Apart
  <2>2. ASSUME NEW d \in T!Conns, d # socket' PROVE Queries(toClient'[d]) \cap T!ToSet(written') \subseteq torn'
    BY <1>0, <1>3, <1>u, <2>2 DEF Apart
  <2>3. socket' = 0 => \A d \in T!Conns : T!ToSet(unparsed') \cap Numbers(d)' \subseteq torn'
    BY <1>0, <1>3, <1>u DEF Apart
  <2> QED BY <2>1, <2>2, <2>3 DEF Apart
<1>8. Settled'
  <2> SUFFICES ASSUME NEW n \in T!ToSet(written) \ torn' PROVE n \in Owed' <=> n \in Owed
    BY <1>0, <1>u DEF Settled
  <2>1. CASE socket = c
    <3>1. n \notin T!ToSet(unparsed) /\ n \notin Queries(toClient[c])
      BY <1>u, <2>1
    <3>2. n \in Owed <=> \E d \in T!Conns : shellOf[d] = shell /\ n \in Replies(toServer[d])
      BY <2>1, <3>1, OwedWhere
    <3>3. Owed' = T!ToSet(unparsed) \cup UNION {Replies(toServer[d]) : d \in {d \in T!Conns : shellOf[d] = shell}}
      BY <1>0, <2>1 DEF Owed
    <3> QED BY <3>1, <3>2, <3>3
  <2>2. CASE socket # c
    <3>1. socket # 0 => toClient'[socket] = toClient[socket]
      BY <1>0, <1>1, <2>2, WireTyped
    <3>2. Owed' = Owed
      BY <1>0, <2>2, <3>1 DEF Owed
    <3> QED BY <3>2
  <2> QED BY <2>1, <2>2
<1> QED BY <1>4, <1>5, <1>6, <1>7, <1>8 DEF Wiring

LEMMA WriteWires ==
  ASSUME T!TerminalsBounds, TermTyped, Wiring, T!Write
  PROVE  Wiring'
<1> DEFINE n == out + 1
           f == T!Frame("chunk", <<n>>)
<1>0. /\ shell # 0 /\ out' = n /\ written' = Append(written, n) /\ unparsed' = Append(unparsed, n)
      /\ toClient' = IF socket = 0 THEN toClient ELSE [toClient EXCEPT ![socket] = Append(@, f)]
      /\ UNCHANGED <<shell, socket, grid, T!paneVars, shellOf, toServer, answers, skipped, torn, late>>
      /\ SocketsWired /\ Live /\ Showing /\ Sized /\ Apart /\ Settled
      /\ SocketTyped /\ HistoryTyped /\ ShellTyped /\ ShellHas /\ n \in T!Chunks
  <2>1. out < MaxOutput /\ out \in Nat => n \in T!Chunks
    BY DEF T!Chunks, T!TerminalsBounds
  <2> QED BY <2>1 DEF T!Write, T!Sent, Wiring, TermTyped, T!historyVars, HistoryTyped
<1>1. <<n>> \in Seq(T!Chunks) /\ T!ToSet(<<n>>) = {n} /\ T!InTurn(<<n>>) /\ Len(<<n>>) = 1 /\ <<n>>[1] = n
  BY <1>0 DEF T!ToSet, T!InTurn
<1>2. f \in T!Frames /\ f.type = "chunk" /\ f.of = <<n>> /\ f.type \notin Ends
  BY <1>1, FrameKinds DEF Ends
<1> HIDE DEF f
<1>3. /\ T!ToSet(written') = T!ToSet(written) \cup {n} /\ T!ToSet(unparsed') = T!ToSet(unparsed) \cup {n}
  BY <1>0, TurnAppend DEF ShellTyped
<1>4. /\ \A x \in T!ToSet(written) : x < n /\ x # n
      /\ \A c \in T!Conns : \A x \in Numbers(c) : x < n /\ x # n
      /\ n \notin skipped /\ n \notin T!ToSet(unparsed)
  <2>1. \A x \in 1 .. out : x < n /\ x # n
    BY <1>0 DEF HistoryTyped
  <2>2. n \notin 1 .. out
    BY <1>0 DEF HistoryTyped
  <2> QED BY <1>0, <2>1, <2>2, WireTyped DEF ShellHas
<1>s. socket # 0 => socket \in T!Conns /\ shellOf[socket] = shell /\ ~Ended(toClient[socket])
  BY <1>0, WireTyped DEF Live
<1>5. /\ \A c \in T!Conns : c # socket => toClient'[c] = toClient[c]
      /\ socket # 0 => toClient'[socket] = Append(toClient[socket], f)
  BY <1>0, <1>s DEF SocketTyped
<1>6. socket # 0 =>
        /\ Framing(toClient'[socket]) /\ Flows(toClient'[socket]) /\ ~Ended(toClient'[socket])
        /\ Carried(toClient'[socket]) = Carried(toClient[socket]) \cup {n}
        /\ Queries(toClient'[socket]) = Queries(toClient[socket]) \cup {n}
        /\ Opens(toClient'[socket]) <=> Opens(toClient[socket])
        /\ \A x \in Carried(toClient[socket]) : x < n
  <2> SUFFICES ASSUME socket # 0
               PROVE  LET q == toClient[socket]
                          r == Append(q, f)
                      IN /\ Framing(r) /\ Flows(r) /\ ~Ended(r) /\ Carried(r) = Carried(q) \cup {n}
                         /\ Queries(r) = Queries(q) \cup {n} /\ (Opens(r) <=> Opens(q))
                         /\ \A x \in Carried(q) : x < n
    BY <1>5
  <2> DEFINE q == toClient[socket]
  <2>1. q \in Seq(T!Frames) /\ Framing(q) /\ Flows(q) /\ ~Ended(q) /\ Carried(q) \subseteq 1 .. out
    BY <1>0, <1>s DEF SocketTyped, SocketsWired, Wired
  <2> HIDE DEF q
  <2>2. \A x \in Carried(q) : x < n
    BY <1>0, <2>1 DEF HistoryTyped
  <2>3. \A x \in Carried(q), y \in T!ToSet(f.of) : x < y
    BY <1>1, <1>2, <2>2
  <2>4. q = <<>> => ~Opens(q)
    BY DEF Opens
  <2>5. /\ Framing(Append(q, f)) /\ Flows(Append(q, f)) /\ ~Ended(Append(q, f))
        /\ Carried(Append(q, f)) = Carried(q) \cup T!ToSet(f.of) /\ Queries(Append(q, f)) = Queries(q) \cup {f.of[1]}
        /\ Opens(Append(q, f)) <=> IF q = <<>> THEN f.type = "open" ELSE Opens(q)
    BY <1>1, <1>2, <2>1, <2>3, FrameAdded DEF Ends
  <2> QED BY <1>1, <1>2, <2>2, <2>4, <2>5 DEF q
<1> HIDE DEF n
<1>7. SocketsWired'
  <2>0. 1 .. out \subseteq 1 .. out' /\ n \in 1 .. out'
    BY <1>0 DEF HistoryTyped, n
  <2>1. ASSUME NEW c \in T!Conns, c # socket PROVE Wired(c)'
    BY <1>0, <1>5, <2>0, <2>1 DEF SocketsWired, Wired
  <2>2. ASSUME socket # 0, NEW c \in T!Conns, c = socket PROVE Wired(c)'
    <3>1. Wired(c)
      BY <1>0 DEF SocketsWired
    <3>2. \A x \in Replies(toServer[c]) : x < n
      BY <1>4 DEF Numbers
    <3>3. \A x \in Replies(toServer[c]), y \in Queries(toClient'[c]) : x < y
      BY <1>6, <2>2, <3>1, <3>2 DEF Wired
    <3> QED BY <1>0, <1>6, <1>s, <2>0, <2>2, <3>1, <3>3 DEF Wired
  <2>3. \A c \in T!Conns : c # socket \/ (socket # 0 /\ c = socket)
    BY DEF T!Conns
  <2> QED BY <2>1, <2>2, <2>3 DEF SocketsWired
<1>8. Live'
  <2>1. conn' = conn /\ (conn # 0 => conn \in T!Conns)
    BY <1>0, WireTyped DEF T!paneVars
  <2> QED BY <1>0, <1>5, <1>6, <2>1 DEF Live
<1>9. Showing' /\ Sized'
  <2> SUFFICES ASSUME conn # 0, conn = socket
               PROVE  /\ (IF Opens(toClient'[conn]) THEN {} ELSE T!ToSet(seen)) \cup Carried(toClient'[conn])
                           = T!ToSet(written') \ skipped
                      /\ ~Opens(toClient'[conn]) =>
                           T!InTurn(seen) /\ \A x \in T!ToSet(seen), y \in Carried(toClient'[conn]) : x < y
                      /\ \/ Opens(toClient'[conn]) \/ grid = pane \/ late
                         \/ \E m \in Elements(toServer[conn]) : m.type = "size"
    BY <1>0 DEF Showing, Sized, T!paneVars
  <2>1. /\ (IF Opens(toClient[conn]) THEN {} ELSE T!ToSet(seen)) \cup Carried(toClient[conn])
                           = T!ToSet(written) \ skipped
        /\ ~Opens(toClient[conn]) =>
                           T!InTurn(seen) /\ \A x \in T!ToSet(seen), y \in Carried(toClient[conn]) : x < y
        /\ \/ Opens(toClient[conn]) \/ grid = pane \/ late
           \/ \E m \in Elements(toServer[conn]) : m.type = "size"
    BY <1>0 DEF Showing, Sized
  <2>2. ~Opens(toClient[conn]) => \A x \in T!ToSet(seen) : x < n
    BY <1>4, <2>1
  <2>3. T!ToSet(written') \ skipped = (T!ToSet(written) \ skipped) \cup {n}
    BY <1>3, <1>4
  <2>4. /\ Carried(toClient'[conn]) = Carried(toClient[conn]) \cup {n}
        /\ Opens(toClient'[conn]) <=> Opens(toClient[conn])
    BY <1>6
  <2> QED BY <2>1, <2>2, <2>3, <2>4
<1>10. /\ \A c \in T!Conns : Queries(toClient'[c]) = Queries(toClient[c]) \cup (IF c = socket THEN {n} ELSE {})
       /\ \A c \in T!Conns : Numbers(c)' = Numbers(c) \cup (IF c = socket THEN {n} ELSE {})
  <2>1. \A c \in T!Conns : c # socket \/ (socket # 0 /\ c = socket)
    BY DEF T!Conns
  <2>2. \A c \in T!Conns : Queries(toClient'[c]) = Queries(toClient[c]) \cup (IF c = socket THEN {n} ELSE {})
    BY <1>5, <1>6, <2>1
  <2> QED BY <1>0, <2>2 DEF Numbers
<1>11. Apart'
  <2>1. ASSUME NEW c \in T!Conns, NEW d \in T!Conns, c # d PROVE Numbers(c)' \cap Numbers(d)' = {}
    BY <1>0, <1>4, <1>10, <2>1 DEF Apart
  <2>2. ASSUME NEW c \in T!Conns, c # socket' PROVE Queries(toClient'[c]) \cap T!ToSet(written') \subseteq torn'
    <3>1. n \notin Queries(toClient[c]) /\ Queries(toClient'[c]) = Queries(toClient[c])
      BY <1>0, <1>4, <1>10, <2>2 DEF Numbers
    <3> QED BY <1>0, <1>3, <2>2, <3>1 DEF Apart
  <2>3. ASSUME socket' = 0, NEW c \in T!Conns PROVE T!ToSet(unparsed') \cap Numbers(c)' \subseteq torn'
    <3>1. n \notin Numbers(c) /\ Numbers(c)' = Numbers(c)
      <4>1. c # socket
        BY <1>0, <2>3 DEF T!Conns
      <4> QED BY <1>4, <1>10, <4>1
    <3> QED BY <1>0, <1>3, <2>3, <3>1 DEF Apart
  <2> QED BY <2>1, <2>2, <2>3 DEF Apart
<1>12. Settled'
  <2> SUFFICES ASSUME NEW x \in T!ToSet(written') \ torn
               PROVE  answers[x] = IF x \in Owed' THEN 0 ELSE 1
    BY <1>0 DEF Settled
  <2>1. x \in Owed' <=>
          \/ IF socket = 0 THEN x \in T!ToSet(unparsed') ELSE x \in Queries(toClient'[socket])
          \/ \E d \in T!Conns : shellOf[d] = shell /\ x \in Replies(toServer[d])
    BY <1>0 DEF Owed
  <2>2. CASE x = n
    <3>1. x \in Owed'
      BY <1>3, <1>6, <2>1, <2>2
    <3>2. answers[n] = 0
      BY <1>0 DEF ShellHas, HistoryTyped, n
    <3> QED BY <2>2, <3>1, <3>2
  <2>3. CASE x # n
    <3>1. x \in T!ToSet(written) \ torn
      BY <1>3, <2>3
    <3>2. x \in Owed' <=> x \in Owed
      BY <1>3, <1>6, <2>1, <2>3, OwedWhere
    <3> QED BY <1>0, <3>1, <3>2 DEF Settled
  <2> QED BY <2>2, <2>3
<1> QED BY <1>7, <1>8, <1>9, <1>11, <1>12 DEF Wiring

LEMMA ParseWires ==
  ASSUME T!TerminalsBounds, TermTyped, Wiring, T!Parse
  PROVE  Wiring'
<1> DEFINE h == Head(unparsed)
<1>0. /\ unparsed # <<>> /\ unparsed' = Tail(unparsed)
      /\ answers' = IF socket = 0 THEN [answers EXCEPT ![h] = @ + 1] ELSE answers
      /\ UNCHANGED <<shell, written, socket, grid, T!paneVars, shellOf, toClient, toServer, out, skipped, torn, late>>
      /\ SocketsWired /\ Live /\ Showing /\ Sized /\ Apart /\ Settled
      /\ HistoryTyped /\ ShellTyped /\ ShellHas
  BY DEF T!Parse, Wiring, TermTyped, T!socketVars, T!historyVars
<1>1. /\ T!ToSet(unparsed) = T!ToSet(unparsed') \cup {h} /\ h \notin T!ToSet(unparsed') /\ h \in T!Chunks
      /\ T!ToSet(unparsed) \subseteq T!ToSet(written)
  <2>1. mirror \in Seq(T!Chunks) /\ unparsed \in Seq(T!Chunks) /\ T!InTurn(mirror \o unparsed) /\ T!Chunks \subseteq Nat
    BY <1>0 DEF ShellTyped, ShellHas, T!Chunks
  <2>2. T!InTurn(unparsed)
    BY <2>1, TurnParts
  <2>3. /\ T!ToSet(unparsed) = T!ToSet(Tail(unparsed)) \cup {Head(unparsed)}
        /\ \A x \in T!ToSet(Tail(unparsed)) : Head(unparsed) < x
        /\ Head(unparsed) \in T!Chunks
    BY <1>0, <2>1, <2>2, TurnTail
  <2>4. Head(unparsed) \notin T!ToSet(Tail(unparsed))
    <3> SUFFICES ASSUME Head(unparsed) \in T!ToSet(Tail(unparsed)) PROVE FALSE
      OBVIOUS
    <3>1. Head(unparsed) < Head(unparsed) /\ Head(unparsed) \in Nat
      BY <2>1, <2>3
    <3> QED BY <3>1
  <2> QED BY <1>0, <2>3, <2>4, WireTyped
<1> HIDE DEF h
<1>2. SocketsWired' /\ Live' /\ Showing' /\ Sized'
  <2>1. SocketsWired'
    BY <1>0 DEF SocketsWired, Wired
  <2>2. Live' /\ Showing' /\ Sized'
    BY <1>0 DEF Live, Showing, Sized, T!paneVars
  <2> QED BY <2>1, <2>2
<1>3. Apart'
  <2>1. \A c \in T!Conns : Numbers(c)' = Numbers(c)
    BY <1>0 DEF Numbers
  <2> QED BY <1>0, <1>1, <2>1 DEF Apart
<1>4. Settled'
  <2> SUFFICES ASSUME NEW n \in T!ToSet(written) \ torn
               PROVE  answers'[n] = IF n \in Owed' THEN 0 ELSE 1
    BY <1>0 DEF Settled
  <2>0. answers[n] = (IF n \in Owed THEN 0 ELSE 1) /\ n \in T!Chunks
    <3>1. T!ToSet(written) \subseteq T!Chunks
      BY <1>0, TurnSet DEF ShellTyped
    <3> QED BY <1>0, <3>1 DEF Settled
  <2>1. n \in Owed' <=>
          \/ IF socket = 0 THEN n \in T!ToSet(unparsed') ELSE n \in Queries(toClient[socket])
          \/ \E d \in T!Conns : shellOf[d] = shell /\ n \in Replies(toServer[d])
    BY <1>0 DEF Owed
  <2>2. CASE socket = 0 /\ n = h
    <3>1. n \in Owed
      BY <1>1, <2>2, OwedWhere
    <3>2. \A d \in T!Conns : n \notin Replies(toServer[d])
      BY <1>0, <1>1, <2>2 DEF Apart, Numbers
    <3>3. answers'[n] = 1
      BY <1>0, <2>0, <2>2, <3>1 DEF HistoryTyped
    <3> QED BY <1>1, <2>1, <2>2, <3>2, <3>3
  <2>3. CASE socket # 0 \/ n # h
    <3>1. answers'[n] = answers[n]
      BY <1>0, <1>1, <2>0, <2>3 DEF HistoryTyped
    <3>2. n \in Owed' <=> n \in Owed
      BY <1>1, <2>1, <2>3, OwedWhere
    <3> QED BY <2>0, <3>1, <3>2
  <2> QED BY <2>2, <2>3
<1> QED BY <1>2, <1>3, <1>4 DEF Wiring

LEMMA ExitWires ==
  ASSUME T!TerminalsBounds, TermTyped, Wiring, T!Exit
  PROVE  Wiring'
<1> DEFINE f == T!Frame("exited", <<>>)
<1>0. /\ shell' = 0 /\ socket' = 0 /\ written' = <<>> /\ unparsed' = <<>>
      /\ toClient' = IF socket = 0 THEN toClient ELSE [toClient EXCEPT ![socket] = Append(@, f)]
      /\ UNCHANGED <<T!paneVars, shellOf, toServer, out>>
      /\ SocketsWired /\ Live /\ Apart /\ SocketTyped
  BY DEF T!Exit, T!Sent, Wiring, TermTyped
<1>1. f \in T!Frames /\ f.type = "exited" /\ f.of = <<>> /\ f.type \in Ends
  BY FrameKinds, EmptySeq DEF Ends
<1> HIDE DEF f
<1>s. socket # 0 => socket \in T!Conns /\ shellOf[socket] # 0 /\ ~Ended(toClient[socket])
  BY <1>0, WireTyped DEF Live
<1>3. /\ \A c \in T!Conns : c # socket => toClient'[c] = toClient[c]
      /\ socket # 0 => toClient'[socket] = Append(toClient[socket], f)
  BY <1>0, <1>s DEF SocketTyped
<1>4. socket # 0 =>
        /\ Framing(toClient'[socket]) /\ Flows(toClient'[socket]) /\ Ended(toClient'[socket])
        /\ Carried(toClient'[socket]) = Carried(toClient[socket])
        /\ Queries(toClient'[socket]) = Queries(toClient[socket])
  <2>1. T!ToSet(f.of) = {} /\ T!InTurn(f.of)
    BY <1>1, TurnEmpty
  <2> SUFFICES ASSUME socket # 0
               PROVE  LET r == Append(toClient[socket], f)
                      IN Framing(r) /\ Flows(r) /\ Ended(r) /\ Carried(r) = Carried(toClient[socket])
                         /\ Queries(r) = Queries(toClient[socket])
    BY <1>3
  <2> DEFINE q == toClient[socket]
  <2>3. q \in Seq(T!Frames) /\ ~Ended(q) /\ Framing(q) /\ Flows(q)
    BY <1>0, <1>s DEF SocketTyped, SocketsWired, Wired
  <2> HIDE DEF q
  <2>4. /\ Framing(Append(q, f)) /\ Flows(Append(q, f)) /\ Ended(Append(q, f))
        /\ Carried(Append(q, f)) = Carried(q) \cup T!ToSet(f.of) /\ Queries(Append(q, f)) = Queries(q) \cup {}
    BY <1>1, <2>1, <2>3, FrameAdded
  <2> QED BY <2>1, <2>4 DEF q
<1>c. \A c \in T!Conns : c # socket \/ (socket # 0 /\ c = socket)
  BY DEF T!Conns
<1>5. SocketsWired'
  <2>1. ASSUME NEW c \in T!Conns, c # socket PROVE Wired(c)'
    BY <1>0, <1>3, <2>1 DEF SocketsWired, Wired
  <2>2. ASSUME socket # 0, NEW c \in T!Conns, c = socket PROVE Wired(c)'
    BY <1>0, <1>4, <1>s, <2>2 DEF SocketsWired, Wired
  <2> QED BY <1>c, <2>1, <2>2 DEF SocketsWired
<1>6. Live'
  <2>1. conn' = conn /\ (conn # 0 => conn \in T!Conns)
    BY <1>0, WireTyped DEF T!paneVars
  <2>2. conn # 0 /\ shellOf[conn] # 0 => Ended(toClient'[conn])
    BY <1>0, <1>3, <1>4, <2>1 DEF Live
  <2> QED BY <1>0, <2>1, <2>2 DEF Live
<1>7. Showing' /\ Sized'
  BY <1>0 DEF Showing, Sized
<1>8. \A c \in T!Conns : Numbers(c)' = Numbers(c)
  BY <1>0, <1>3, <1>4, <1>c DEF Numbers
<1>9. Apart' /\ Settled'
  BY <1>0, <1>8, TurnEmpty DEF Apart, Settled
<1> QED BY <1>5, <1>6, <1>7, <1>9 DEF Wiring

LEMMA TermStep == T!TerminalsBounds /\ TermHeld /\ T!Next => TermHeld'
<1> SUFFICES ASSUME T!TerminalsBounds, TermHeld, T!Next PROVE TermHeld'
  OBVIOUS
<1>0. TermTyped /\ Wiring /\ SocketsWired
  BY DEF TermHeld, Wiring
<1>1. PaneStep \/ TakeStep \/ ServerStep \/ ShellStep
  BY DEF T!Next, PaneStep, TakeStep, ServerStep, ShellStep
<1>2. TermTyped'
  BY <1>0, <1>1, PaneTypes, TakeTypes, ServerTypes, ShellTypes
<1>3. Wiring'
  <2>1. CASE PaneStep \/ TakeStep
    BY <1>0, <2>1, PaneWires, TakeWires
  <2>2. CASE ServerStep
    BY <1>0, <2>2, RefusedWires, SpawnWires, AdoptWires, HandledWires, CloseWires DEF ServerStep
  <2>3. CASE ShellStep
    BY <1>0, <2>3, WriteWires, ParseWires, ExitWires DEF ShellStep
  <2> QED BY <1>1, <2>1, <2>2, <2>3
<1> QED BY <1>2, <1>3 DEF TermHeld, Wiring

LEMMA TermShown == ASSUME T!TerminalsBounds, TermHeld PROVE T!TypeOK /\ T!OneTerminal
<1>0. TermTyped /\ SocketsWired /\ Live /\ Showing /\ Sized /\ Apart /\ Settled
  BY DEF TermHeld
<1>1. ASSUME T!Attached PROVE conn = socket /\ conn # 0 /\ ~Opens(toClient[conn]) /\ Carried(toClient[conn]) = {}
  <2>1. conn # 0 /\ shellOf[conn] # 0 /\ toClient[conn] = <<>>
    BY <1>1 DEF T!Attached
  <2> QED BY <1>0, <2>1, FrameNone DEF Live
<1>2. T!Whole
  <2> SUFFICES ASSUME T!Attached PROVE T!InTurn(seen) /\ T!ToSet(seen) = T!ToSet(written) \ skipped
    BY DEF T!Whole
  <2> QED BY <1>0, <1>1 DEF Showing
<1>3. T!Fits
  <2> SUFFICES ASSUME T!Attached, toServer[conn] = <<>> PROVE grid = pane \/ late
    BY DEF T!Fits
  <2> QED BY <1>0, <1>1, EmptyElements DEF Sized
<1>4. T!Answered
  <2> SUFFICES ASSUME T!AllHandled, NEW n \in T!ToSet(written) \ torn PROVE answers[n] = 1
    BY DEF T!Answered
  <2>1. unparsed = <<>> /\ \A c \in T!Conns : toServer[c] = <<>>
    BY DEF T!AllHandled
  <2>2. socket # 0 => toClient[socket] = <<>>
    BY DEF T!AllHandled, T!Attached
  <2>3. n \notin Owed
    BY <2>1, <2>2, FrameNone, TurnEmpty, OwedWhere
  <2> QED BY <1>0, <2>3 DEF Settled
<1> QED BY <1>0, <1>2, <1>3, <1>4, TypedIsTypeOK DEF T!OneTerminal, T!Mirrored

-----------------------------------------------------------------------------
(* The terminals: the theorems *)

LEMMA TermMoves == [Next]_<<machine, forwarding, terminals, models, timeline, updates, home>>
                    => T!Next \/ UNCHANGED terminals
  BY DEF Next, terminals

\* The inductive invariant of the terminals.
THEOREM TermHeldHolds == Spec => []TermHeld
<1>1. Init => TermHeld
  BY MachinesBounds, TermInit DEF Init
<1>2. TermHeld /\ T!Next => TermHeld'
  BY MachinesBounds, TermStep
<1>3. TermHeld /\ UNCHANGED terminals => TermHeld'
  <2> SUFFICES ASSUME TermHeld, UNCHANGED terminals PROVE TermHeld'
    OBVIOUS
  <2>1. (ShellTyped /\ PaneTyped)' /\ (SocketTyped /\ HistoryTyped)'
    BY DEF terminals, TermHeld, TermTyped, ShellTyped, PaneTyped, SocketTyped, HistoryTyped
  <2>2. PaneHas' /\ ShellHas' /\ SocketHas'
    BY DEF terminals, TermHeld, TermTyped, PaneHas, ShellHas, SocketHas, Served
  <2>3. SocketsWired' /\ Live' /\ Showing' /\ Sized'
    BY DEF terminals, TermHeld, SocketsWired, Wired, Live, Showing, Sized
  <2>4. Apart' /\ Settled'
    BY DEF terminals, TermHeld, Apart, Numbers, Settled, Owed
  <2> QED BY <2>1, <2>2, <2>3, <2>4 DEF TermHeld, TermTyped
<1> QED
  BY <1>1, <1>2, <1>3, TermMoves, PTL DEF Spec

\* Through every detach and attach a pane shows its shell's output once and in order, but
\* for what was unparsed at the last attach, has the shell its size, and every query is
\* answered once by the pane or the mirror (pty.ts, TerminalPane.tsx); but for what was
\* under way when a socket came or went.
THEOREM OneTerminalHolds == Spec => []OneTerminal
<1>1. TermHeld => OneTerminal
  BY MachinesBounds, TermShown DEF OneTerminal
<1> QED
  BY <1>1, TermHeldHolds, PTL

-----------------------------------------------------------------------------
(* The runs of items *)

Parts(n) == Seq([of : 1 .. n, kind : L!Kinds])

\* The first of a run is one of it.
LEMMA LeadIs ==
  ASSUME NEW run, run \subseteq Nat, run # {}
  PROVE  L!Lead(run) \in run /\ \A q \in run : L!Lead(run) <= q
BY Smallest DEF L!Lead

LEMMA TogetherIs ==
  ASSUME NEW ps, DOMAIN ps \subseteq Nat, NEW p \in Nat, NEW q \in Nat, NEW r \in DOMAIN ps,
         ps[r].kind = "item"
  PROVE  /\ L!Together(ps, p, p)
         /\ L!Together(ps, p, q) => L!Together(ps, q, p)
         /\ L!Together(ps, p, r) /\ L!Together(ps, r, q) => L!Together(ps, p, q)
         /\ p <= r /\ r <= q /\ L!Together(ps, p, q) => L!Together(ps, p, r)
<1>1. \A x \in DOMAIN ps : x \in Nat
  OBVIOUS
<1>2. L!Together(ps, p, p)
  BY <1>1 DEF L!Together
<1>3. L!Together(ps, p, q) => L!Together(ps, q, p)
  BY <1>1 DEF L!Together
<1>4. ASSUME L!Together(ps, p, r), L!Together(ps, r, q) PROVE L!Together(ps, p, q)
  <2> SUFFICES ASSUME NEW x \in DOMAIN ps, (p < x /\ x < q) \/ (q < x /\ x < p)
               PROVE  ps[x].kind \notin {"alone", "prompt"}
    BY DEF L!Together
  <2>1. x = r \/ (p < x /\ x < r) \/ (r < x /\ x < p) \/ (q < x /\ x < r) \/ (r < x /\ x < q)
    BY <1>1
  <2> QED BY <2>1, <1>4 DEF L!Together
<1>5. p <= r /\ r <= q /\ L!Together(ps, p, q) => L!Together(ps, p, r)
  BY <1>1 DEF L!Together
<1> QED BY <1>2, <1>3, <1>4, <1>5

\* The runs are the items, each in one of them, and one run is above the other.
LEMMA RunsAre ==
  ASSUME NEW ps, DOMAIN ps \subseteq Nat, NEW f, NEW l
  PROVE  LET items == L!Items(ps, f, l)
             runs == L!RowsOf(ps, f, l) IN
         /\ \A run \in runs : /\ run \subseteq items /\ run \subseteq Nat /\ run # {}
                              /\ L!Lead(run) \in run /\ \A q \in run : L!Lead(run) <= q
         /\ \A p \in items : \E run \in runs : p \in run
         /\ \A run \in runs : \A p \in run, q \in items : q \in run <=> L!Together(ps, p, q)
         /\ \A r, s \in runs : r \cap s # {} => r = s
         /\ \A r, s \in runs : \A p \in r, q \in s : L!Lead(r) < L!Lead(s) => p < q
<1> DEFINE items == L!Items(ps, f, l)
           runs == L!RowsOf(ps, f, l)
<1>1. items \subseteq Nat /\ items \subseteq DOMAIN ps /\ \A p \in items : ps[p].kind = "item"
  BY DEF L!Items
<1>2. \A run \in runs : \E p \in items : run = {q \in items : L!Together(ps, p, q)}
  BY DEF L!RowsOf
<1>3. \A p \in items : {q \in items : L!Together(ps, p, q)} \in runs
  BY DEF L!RowsOf
<1> HIDE DEF items, runs
<1>4. \A p, q \in items : /\ L!Together(ps, p, p) /\ (L!Together(ps, p, q) => L!Together(ps, q, p))
                          /\ \A r \in items : L!Together(ps, p, r) /\ L!Together(ps, r, q) => L!Together(ps, p, q)
                          /\ \A r \in items : p <= r /\ r <= q /\ L!Together(ps, p, q) => L!Together(ps, p, r)
  BY <1>1, TogetherIs
<1>5. \A run \in runs : run \subseteq items /\ run \subseteq Nat /\ run # {}
  BY <1>1, <1>2, <1>4
<1>6. \A run \in runs : L!Lead(run) \in run /\ \A q \in run : L!Lead(run) <= q
  BY <1>5, LeadIs
<1>7. \A p \in items : \E run \in runs : p \in run
  BY <1>3, <1>4
<1>8. \A run \in runs : \A p \in run, q \in items : q \in run <=> L!Together(ps, p, q)
  BY <1>2, <1>4
<1>9. ASSUME NEW r \in runs, NEW s \in runs, NEW p, p \in r, p \in s PROVE r = s
  <2>1. r \subseteq items /\ s \subseteq items
    BY <1>5
  <2>2. \A q \in items : q \in r <=> q \in s
    BY <1>8, <1>9
  <2> QED BY <2>1, <2>2
<1>10. ASSUME NEW r \in runs, NEW s \in runs, NEW p \in r, NEW q \in s, L!Lead(r) < L!Lead(s)
       PROVE  p < q
  <2>1. p \in items /\ q \in items /\ p \in Nat /\ q \in Nat /\ L!Lead(r) \in r /\ L!Lead(r) \in items
        /\ L!Lead(r) \in Nat /\ L!Lead(s) \in Nat /\ L!Lead(s) <= q
    BY <1>5, <1>6
  <2> SUFFICES ASSUME q <= p PROVE FALSE
    BY <2>1
  <2>2. L!Lead(r) <= q
    BY <2>1, <1>10
  <2>3. L!Together(ps, L!Lead(r), p)
    BY <2>1, <1>8
  <2>4. L!Together(ps, L!Lead(r), q)
    BY <2>1, <2>2, <2>3, <1>4
  <2>5. q \in r
    BY <2>1, <2>4, <1>8
  <2>6. r = s
    BY <2>5, <1>9
  <2> QED BY <2>1, <2>6, <1>10
<1> QED BY <1>5, <1>6, <1>7, <1>8, <1>9, <1>10 DEF items, runs

-----------------------------------------------------------------------------
(* The keys *)

\* A group's key is its first item's or that of a group it has an item of.
LEMMA KeyIs ==
  ASSUME NEW gs, \A g \in gs : g.items \subseteq Nat, NEW used, NEW run, run \subseteq Nat, run # {}
  PROVE  \/ /\ L!KeyOf(gs, used, run) = L!Lead(run)
            /\ \A g \in gs : g.items \cap run # {} => g.key \in used
         \/ \E g \in gs : g.items \cap run # {} /\ L!KeyOf(gs, used, run) = g.key /\ g.key \notin used
<1> DEFINE free == {g \in gs : g.key \notin used}
           hit == {p \in run : \E g \in free : p \in g.items}
<1>1. CASE hit = {}
  BY <1>1 DEF L!KeyOf
<1>2. CASE hit # {}
  <2>1. L!Lead(hit) \in hit
    BY <1>2, LeadIs
  <2>2. \E g \in free : L!Lead(hit) \in g.items
    BY <2>1
  <2> DEFINE g == CHOOSE g \in free : L!Lead(hit) \in g.items
  <2>3. g \in free /\ L!Lead(hit) \in g.items
    BY <2>2
  <2>4. L!KeyOf(gs, used, run) = g.key
    BY <1>2 DEF L!KeyOf
  <2> HIDE DEF g
  <2> QED BY <2>1, <2>3, <2>4
<1> QED BY <1>1, <1>2

Group(gs, above, run) == [key |-> L!KeyOf(gs, {g.key : g \in above}, run), items |-> run]

\* The recursive function that builds the groups exists: it goes down one part at a time.
LEMMA KeptIs ==
  ASSUME NEW gs, NEW runs, NEW n \in Nat
  PROVE  LET kept == L!KeptAbove(gs, runs, n) IN
         /\ kept[0] = {}
         /\ \A p \in 1 .. n : kept[p] = kept[p - 1] \cup
              {Group(gs, kept[p - 1], run) : run \in {r \in runs : L!Lead(r) = p}}
<1> DEFINE Step(f, p) == IF p = 0 THEN {}
                         ELSE f[p - 1] \cup {Group(gs, f[p - 1], run) : run \in {r \in runs : L!Lead(r) = p}}
           To(N) == \E f : f = [p \in 0 .. N |-> Step(f, p)]
           All == {N \in Nat : To(N)}
<1>1. 0 \in All
  <2> DEFINE f == [p \in 0 .. 0 |-> {}]
  <2>1. f = [p \in 0 .. 0 |-> Step(f, p)]
    OBVIOUS
  <2> HIDE DEF f
  <2> QED BY <2>1
<1>2. ASSUME NEW N \in Nat, N \in All PROVE N + 1 \in All
  <2>1. PICK f : f = [p \in 0 .. N |-> Step(f, p)]
    BY <1>2
  <2> DEFINE h == [p \in 0 .. N + 1 |-> IF p = N + 1 THEN Step(f, p) ELSE f[p]]
  <2>2. \A p \in 0 .. N + 1 : p # 0 => p - 1 \in 0 .. N /\ h[p - 1] = f[p - 1]
    OBVIOUS
  <2>3. \A p \in 0 .. N : f[p] = Step(f, p)
    BY <2>1
  <2>4. \A p \in 0 .. N + 1 : h[p] = Step(h, p)
    <3> SUFFICES ASSUME NEW p \in 0 .. N + 1 PROVE h[p] = Step(h, p)
      OBVIOUS
    <3>1. Step(h, p) = Step(f, p)
      <4>1. CASE p = 0
        BY <4>1
      <4>2. CASE p # 0
        BY <2>2, <4>2
      <4> QED BY <4>1, <4>2
    <3>2. p \in 0 .. N \/ p = N + 1
      OBVIOUS
    <3> QED BY <2>3, <3>1, <3>2
  <2>5. h = [p \in 0 .. N + 1 |-> Step(h, p)]
    BY <2>4
  <2> HIDE DEF h, Step
  <2> QED BY <2>5
<1>3. Nat \subseteq All
  <2> HIDE DEF All
  <2> QED BY <1>1, <1>2, Induct
<1>4. To(n)
  BY <1>3
<1> DEFINE kept == L!KeptAbove(gs, runs, n)
<1>5. kept = [p \in 0 .. n |-> Step(kept, p)]
  BY <1>4 DEF L!KeptAbove, Group
<1> HIDE DEF kept
<1>6. 0 \in 0 .. n /\ \A p \in 1 .. n : p \in 0 .. n /\ p # 0
  OBVIOUS
<1>7. kept[0] = {} /\ \A p \in 1 .. n : kept[p] = Step(kept, p)
  BY <1>5, <1>6
<1>8. \A p \in 1 .. n : kept[p] = kept[p - 1] \cup {Group(gs, kept[p - 1], run) : run \in {r \in runs : L!Lead(r) = p}}
  BY <1>6, <1>7
<1> QED
  BY <1>7, <1>8 DEF kept

\* The groups are the runs of what is shown, one of each.
AreRuns(gs, ps, f, l) ==
  /\ \A g \in gs : g.items \in L!RowsOf(ps, f, l)
  /\ \A run \in L!RowsOf(ps, f, l) : \E g \in gs : g.items = run
  /\ \A g, h \in gs : g.items = h.items => g = h

Above(gs, run) == {g.key : g \in {g \in gs : L!Lead(g.items) < L!Lead(run)}}

\* The groups "made" are those that a build of the rows makes of the groups gs.
MadeOf(made, gs, ps, f, l) ==
  /\ Len(ps) \in Nat /\ DOMAIN ps = 1 .. Len(ps)
  /\ made = L!KeepGroupKeys(gs, L!RowsOf(ps, f, l), Len(ps))

\* The groups of a build are its runs, each keyed after those above it.
LEMMA KeptGroups ==
  ASSUME NEW gs, NEW ps, NEW f, NEW l, NEW made, MadeOf(made, gs, ps, f, l)
  PROVE  /\ AreRuns(made, ps, f, l)
         /\ \A h \in made : h.key = L!KeyOf(gs, Above(made, h.items), h.items)
<1> DEFINE n == Len(ps)
<1>0. n \in Nat /\ DOMAIN ps = 1 .. n /\ made = L!KeepGroupKeys(gs, L!RowsOf(ps, f, l), n)
  BY DEF MadeOf
<1> HIDE DEF n
<1> DEFINE runs == L!RowsOf(ps, f, l)
           kept == L!KeptAbove(gs, runs, n)
           New(p) == {Group(gs, kept[p - 1], run) : run \in {r \in runs : L!Lead(r) = p}}
<1>1. kept[0] = {} /\ \A p \in 1 .. n : kept[p] = kept[p - 1] \cup New(p)
  BY <1>0, KeptIs
<1>2. made = kept[n]
  BY <1>0 DEF L!KeepGroupKeys
<1>3. \A run \in runs : L!Lead(run) \in 1 .. n
  <2>1. L!Items(ps, f, l) \subseteq 1 .. n /\ DOMAIN ps \subseteq Nat
    BY <1>0 DEF L!Items
  <2> QED BY <2>1, RunsAre
<1> HIDE DEF kept, runs
<1>4. \A p \in 1 .. n : \A g \in New(p) : g.items \in runs /\ L!Lead(g.items) = p /\ g = Group(gs, kept[p - 1], g.items)
  <2> SUFFICES ASSUME NEW p \in 1 .. n, NEW g \in New(p)
               PROVE  g.items \in runs /\ L!Lead(g.items) = p /\ g = Group(gs, kept[p - 1], g.items)
    OBVIOUS
  <2>1. PICK run \in runs : L!Lead(run) = p /\ g = Group(gs, kept[p - 1], run)
    OBVIOUS
  <2>2. g.items = run
    BY <2>1 DEF Group
  <2> QED BY <2>1, <2>2
<1>5. \A p \in 1 .. n : \A run \in runs : L!Lead(run) = p => Group(gs, kept[p - 1], run) \in New(p)
  OBVIOUS
<1> HIDE DEF New
<1> DEFINE Own(p) == \A g \in kept[p] : /\ g.items \in runs /\ L!Lead(g.items) \in 1 .. p
                                        /\ g = Group(gs, kept[L!Lead(g.items) - 1], g.items)
           All(p) == \A run \in runs : L!Lead(run) <= p => Group(gs, kept[L!Lead(run) - 1], run) \in kept[p]
           Grown(p) == \A q \in 0 .. p : kept[q] = {g \in kept[p] : L!Lead(g.items) <= q}
           Good == {p \in Nat : p <= n => Own(p) /\ All(p) /\ Grown(p)}
<1>6. 0 \in Good
  <2>1. \A run \in runs : ~(L!Lead(run) <= 0)
    BY <1>3
  <2> QED BY <1>1, <2>1
<1>7. ASSUME NEW p \in Nat, p \in Good PROVE p + 1 \in Good
  <2> SUFFICES ASSUME p + 1 <= n PROVE Own(p + 1) /\ All(p + 1) /\ Grown(p + 1)
    OBVIOUS
  <2>1. Own(p) /\ All(p) /\ Grown(p)
    BY <1>7, <1>0
  <2>2. p + 1 \in 1 .. n /\ (p + 1) - 1 = p
    OBVIOUS
  <2>3. kept[p + 1] = kept[p] \cup New(p + 1)
    BY <1>1, <2>2
  <2>4. \A g \in New(p + 1) : g.items \in runs /\ L!Lead(g.items) = p + 1 /\ g = Group(gs, kept[p], g.items)
    BY <1>4, <2>2
  <2>5. Own(p + 1)
    <3> SUFFICES ASSUME NEW g \in kept[p + 1]
                 PROVE  /\ g.items \in runs /\ L!Lead(g.items) \in 1 .. p + 1
                        /\ g = Group(gs, kept[L!Lead(g.items) - 1], g.items)
      OBVIOUS
    <3>1. CASE g \in kept[p]
      BY <3>1, <2>1
    <3>2. CASE g \in New(p + 1)
      BY <3>2, <2>2, <2>4
    <3> QED BY <2>3, <3>1, <3>2
  <2>6. All(p + 1)
    <3> SUFFICES ASSUME NEW run \in runs, L!Lead(run) <= p + 1
                 PROVE  Group(gs, kept[L!Lead(run) - 1], run) \in kept[p + 1]
      OBVIOUS
    <3>1. CASE L!Lead(run) <= p
      BY <3>1, <2>1, <2>3
    <3>2. CASE L!Lead(run) = p + 1
      BY <3>2, <2>2, <2>3, <1>5
    <3> QED BY <3>1, <3>2, <1>3
  <2>7. Grown(p + 1)
    <3> SUFFICES ASSUME NEW q \in 0 .. p + 1 PROVE kept[q] = {g \in kept[p + 1] : L!Lead(g.items) <= q}
      OBVIOUS
    <3>1. CASE q = p + 1
      <4>1. \A g \in kept[p + 1] : L!Lead(g.items) <= p + 1
        BY <2>5
      <4> QED BY <3>1, <4>1
    <3>2. CASE q \in 0 .. p
      <4>1. kept[q] = {g \in kept[p] : L!Lead(g.items) <= q}
        BY <2>1, <3>2
      <4>2. \A g \in New(p + 1) : ~(L!Lead(g.items) <= q)
        BY <2>4, <3>2
      <4> QED BY <2>3, <4>1, <4>2
    <3> QED BY <3>1, <3>2
  <2> QED BY <2>5, <2>6, <2>7
<1>8. n \in Good
  <2> HIDE DEF Good
  <2> QED BY <1>0, <1>6, <1>7, Induct
<1>9. Own(n) /\ All(n) /\ Grown(n)
  BY <1>8
<1>10. ASSUME NEW run \in runs PROVE \E g \in made : g.items = run
  <2>1. Group(gs, kept[L!Lead(run) - 1], run) \in made
    BY <1>2, <1>3, <1>9
  <2> QED BY <2>1 DEF Group
<1>11. \A g, h \in made : g.items = h.items => g = h
  BY <1>2, <1>9
<1>12. ASSUME NEW h \in made
       PROVE  h.key = L!KeyOf(gs, Above(made, h.items), h.items)
  <2>1. L!Lead(h.items) \in 1 .. n /\ h = Group(gs, kept[L!Lead(h.items) - 1], h.items)
    BY <1>2, <1>9
  <2>2. L!Lead(h.items) - 1 \in 0 .. n
    BY <2>1, <1>0
  <2>3. kept[L!Lead(h.items) - 1] = {g \in made : L!Lead(g.items) <= L!Lead(h.items) - 1}
    BY <1>2, <1>9, <2>2
  <2>4. \A g \in made : L!Lead(g.items) \in 1 .. n
    BY <1>2, <1>9
  <2>5. \A g \in made : L!Lead(g.items) <= L!Lead(h.items) - 1 <=> L!Lead(g.items) < L!Lead(h.items)
    BY <2>1, <2>4
  <2>6. kept[L!Lead(h.items) - 1] = {g \in made : L!Lead(g.items) < L!Lead(h.items)}
    BY <2>3, <2>5
  <2>7. Above(made, h.items) = {g.key : g \in kept[L!Lead(h.items) - 1]}
    BY <2>6 DEF Above
  <2> QED BY <2>1, <2>7 DEF Group
<1>13. \A g \in made : g.items \in runs
  BY <1>2, <1>9
<1> QED BY <1>10, <1>11, <1>12, <1>13 DEF runs, AreRuns

-----------------------------------------------------------------------------
(* The transcript: the inductive invariant *)

LineTyped ==
  /\ messages \in 0 .. MaxMessages /\ parts \in Parts(messages)
  /\ \A p, q \in DOMAIN parts : p < q => parts[p].of <= parts[q].of
  /\ from \in 1 .. messages + 1 /\ last \in 0 .. messages

Shown == L!Items(parts, from, last)

GroupsRun == AreRuns(groups, parts, from, last)

\* No group is named for an item above its first.
KeysBelow == \A g \in groups : g.key \in Nat /\ L!Lead(g.items) <= g.key

Lined == LineTyped /\ GroupsRun /\ KeysBelow

LEMMA GroupsAre ==
  ASSUME NEW ps, DOMAIN ps \subseteq Nat, NEW f, NEW l, NEW gs, AreRuns(gs, ps, f, l)
  PROVE  /\ \A g \in gs : /\ g.items \subseteq L!Items(ps, f, l) /\ g.items \subseteq Nat /\ g.items # {}
                          /\ L!Lead(g.items) \in g.items /\ \A q \in g.items : L!Lead(g.items) <= q
         /\ \A p \in L!Items(ps, f, l) : \E g \in gs : p \in g.items
         /\ \A g \in gs : \A p \in g.items, q \in L!Items(ps, f, l) : q \in g.items <=> L!Together(ps, p, q)
         /\ \A g, h \in gs : g.items \cap h.items # {} => g = h
         /\ \A g, h \in gs : \A p \in g.items, q \in h.items : L!Lead(g.items) < L!Lead(h.items) => p < q
<1> DEFINE runs == L!RowsOf(ps, f, l)
           items == L!Items(ps, f, l)
<1>1. /\ \A g \in gs : g.items \in runs
      /\ \A run \in runs : \E g \in gs : g.items = run
      /\ \A g, h \in gs : g.items = h.items => g = h
  BY DEF AreRuns
<1>2. /\ \A run \in runs : /\ run \subseteq items /\ run \subseteq Nat /\ run # {}
                           /\ L!Lead(run) \in run /\ \A q \in run : L!Lead(run) <= q
      /\ \A p \in items : \E run \in runs : p \in run
      /\ \A run \in runs : \A p \in run, q \in items : q \in run <=> L!Together(ps, p, q)
      /\ \A r, s \in runs : r \cap s # {} => r = s
      /\ \A r, s \in runs : \A p \in r, q \in s : L!Lead(r) < L!Lead(s) => p < q
  BY RunsAre
<1> HIDE DEF runs, items
<1> QED BY <1>1, <1>2 DEF runs, items

-----------------------------------------------------------------------------
(* A build of the rows *)

\* What a build makes of the groups gs: a group is keyed for its first item, and then no
\* group it has an item of had a key left, or for one of those.
LEMMA Built ==
  ASSUME NEW gs, \A g \in gs : g.items \subseteq Nat, NEW ps, NEW f, NEW l, NEW made, MadeOf(made, gs, ps, f, l)
  PROVE  \A h \in made :
           \/ /\ h.key = L!Lead(h.items)
              /\ \A g \in gs : g.items \cap h.items # {} => g.key \in Above(made, h.items)
           \/ \E g \in gs : g.items \cap h.items # {} /\ h.key = g.key /\ g.key \notin Above(made, h.items)
<1>1. /\ AreRuns(made, ps, f, l)
      /\ \A h \in made : h.key = L!KeyOf(gs, Above(made, h.items), h.items)
  BY KeptGroups
<1>2. DOMAIN ps \subseteq Nat
  BY DEF MadeOf
<1>3. \A h \in made : h.items \subseteq Nat /\ h.items # {}
  BY <1>1, <1>2, GroupsAre
<1> QED BY <1>1, <1>3, KeyIs

\* Between two builds no item above another one shown goes, and runs either merge or split.
Lasts == \A p, q : p \in Shown /\ q \in Shown /\ q \in Shown' /\ p < q => p \in Shown'

Joins == \A p, q : {p, q} \subseteq Shown \cap Shown' /\ L!Together(parts, p, q) => L!Together(parts, p, q)'

Splits == \A p, q : {p, q} \subseteq Shown \cap Shown' /\ L!Together(parts, p, q)' => L!Together(parts, p, q)

\* A build that keeps the keys keeps the groups.
LEMMA BuildKeeps ==
  ASSUME Lined, parts' \in Parts(messages'), L!Build(groups), Lasts, Joins \/ Splits
  PROVE  (GroupsRun /\ KeysBelow)' /\ L!SharedByLead /\ (L!KeysApart => L!KeepsPlace)
<1>0. DOMAIN parts \subseteq Nat
  <2>1. Len(parts) \in Nat /\ DOMAIN parts = 1 .. Len(parts)
    BY LenProperties DEF Lined, LineTyped, Parts
  <2> QED BY <2>1
<1>1. /\ \A g \in groups : /\ g.items \subseteq Shown /\ g.items \subseteq Nat /\ g.items # {}
                           /\ L!Lead(g.items) \in g.items /\ \A q \in g.items : L!Lead(g.items) <= q
      /\ \A p \in Shown : \E g \in groups : p \in g.items
      /\ \A g \in groups : \A p \in g.items, q \in Shown : q \in g.items <=> L!Together(parts, p, q)
      /\ \A g, h \in groups : g.items \cap h.items # {} => g = h
  BY <1>0, GroupsAre DEF Lined, GroupsRun, Shown
<1>2. /\ GroupsRun' /\ DOMAIN parts' \subseteq Nat
      /\ \A h \in groups' :
           \/ /\ h.key = L!Lead(h.items)
              /\ \A g \in groups : g.items \cap h.items # {} =>
                   \E other \in groups' : L!Lead(other.items) < L!Lead(h.items) /\ other.key = g.key
           \/ \E g \in groups : /\ g.items \cap h.items # {} /\ h.key = g.key
                                /\ \A other \in groups' : L!Lead(other.items) < L!Lead(h.items) => other.key # g.key
  <2>1. Len(parts') \in Nat /\ DOMAIN parts' = 1 .. Len(parts')
    BY LenProperties DEF Parts
  <2>2. MadeOf(groups', groups, parts', from', last')
    BY <2>1 DEF L!Build, MadeOf
  <2>3. \A g \in groups : g.items \subseteq Nat
    BY <1>1
  <2>4. DOMAIN parts' \subseteq Nat
    BY <2>1
  <2>5. GroupsRun'
    BY <2>2, KeptGroups DEF GroupsRun
  <2>6. \A h \in groups' :
           \/ /\ h.key = L!Lead(h.items)
              /\ \A g \in groups : g.items \cap h.items # {} => g.key \in Above(groups', h.items)
           \/ \E g \in groups : g.items \cap h.items # {} /\ h.key = g.key /\ g.key \notin Above(groups', h.items)
    BY <2>2, <2>3, Built
  <2>7. \A h : \A k : k \in Above(groups', h.items) <=>
          \E other \in groups' : L!Lead(other.items) < L!Lead(h.items) /\ other.key = k
    BY DEF Above
  <2> QED BY <2>4, <2>5, <2>6, <2>7
<1>3. /\ \A g \in groups' : /\ g.items \subseteq Shown' /\ g.items \subseteq Nat /\ g.items # {}
                            /\ L!Lead(g.items) \in g.items /\ \A q \in g.items : L!Lead(g.items) <= q
      /\ \A p \in Shown' : \E g \in groups' : p \in g.items
      /\ \A g \in groups' : \A p \in g.items, q \in Shown' : q \in g.items <=> L!Together(parts, p, q)'
      /\ \A g, h \in groups' : g.items \cap h.items # {} => g = h
      /\ \A g, h \in groups' : \A p \in g.items, q \in h.items : L!Lead(g.items) < L!Lead(h.items) => p < q
  BY <1>2, GroupsAre DEF GroupsRun, Shown
<1>4. \A g \in groups : g.key \in Nat /\ L!Lead(g.items) <= g.key
  BY DEF Lined, KeysBelow
<1>5. ASSUME NEW h \in groups' PROVE h.key \in Nat /\ L!Lead(h.items) <= h.key
  <2>0. L!Lead(h.items) \in Nat /\ L!Lead(h.items) \in h.items
    BY <1>3
  <2>1. CASE h.key = L!Lead(h.items)
    BY <2>0, <2>1
  <2>2. CASE \E g \in groups : /\ g.items \cap h.items # {} /\ h.key = g.key
                               /\ \A other \in groups' : L!Lead(other.items) < L!Lead(h.items) => other.key # g.key
    <3>1. PICK g \in groups : /\ g.items \cap h.items # {} /\ h.key = g.key
                              /\ \A other \in groups' : L!Lead(other.items) < L!Lead(h.items) => other.key # g.key
      BY <2>2
    <3>2. g.key \in Nat /\ L!Lead(g.items) <= g.key /\ L!Lead(g.items) \in g.items /\ g.items \subseteq Shown /\ g.items \subseteq Nat
          /\ L!Lead(g.items) \in Nat
      BY <1>1, <1>4
    <3>3. SUFFICES ASSUME ~(L!Lead(h.items) <= L!Lead(g.items)) PROVE FALSE
      BY <2>0, <3>1, <3>2
    <3>4. PICK q : q \in g.items /\ q \in h.items
      BY <3>1
    <3>5. q \in Nat /\ q \in Shown /\ q \in Shown' /\ L!Lead(h.items) <= q /\ L!Lead(g.items) < q
      BY <3>2, <3>3, <3>4, <1>3, <2>0
    <3>6. L!Lead(g.items) \in Shown /\ L!Lead(g.items) \in Shown'
      BY <3>2, <3>5 DEF Lasts
    <3>7. PICK o \in groups' : L!Lead(g.items) \in o.items
      BY <3>6, <1>3
    <3>8. o # h
      BY <3>7, <3>3, <3>2, <2>0, <1>3
    <3>9. L!Lead(o.items) \in Nat /\ L!Lead(o.items) <= L!Lead(g.items) /\ L!Lead(o.items) < L!Lead(h.items)
      BY <3>7, <3>3, <3>2, <2>0, <1>3
    <3>10. ~Joins
      <4> SUFFICES ASSUME Joins PROVE FALSE
        OBVIOUS
      <4>1. L!Together(parts, L!Lead(g.items), q)
        BY <1>1, <3>2, <3>4, <3>5
      <4>2. L!Together(parts, L!Lead(g.items), q)'
        BY <4>1, <3>5, <3>6 DEF Joins
      <4>3. q \in o.items
        BY <4>2, <3>5, <3>7, <1>3
      <4> QED BY <4>3, <3>4, <3>8, <1>3
    <3>11. \A k \in groups : k.items \cap o.items # {} => k = g
      <4> SUFFICES ASSUME NEW k \in groups, NEW p, p \in k.items, p \in o.items PROVE k = g
        OBVIOUS
      <4>1. p \in Shown /\ p \in Shown'
        BY <1>1, <1>3
      <4>2. L!Together(parts, L!Lead(g.items), p)'
        BY <4>1, <3>7, <1>3
      <4>3. L!Together(parts, L!Lead(g.items), p)
        BY <4>1, <4>2, <3>6, <3>10 DEF Splits
      <4>4. p \in g.items
        BY <4>1, <4>3, <3>2, <1>1
      <4> QED BY <4>4, <1>1
    <3>12. g.items \cap o.items # {}
      BY <3>2, <3>7
    <3>13. \E other \in groups' : L!Lead(other.items) <= L!Lead(o.items) /\ other.key = g.key
      <4>1. CASE \A k \in groups : k.items \cap o.items # {} =>
                   \E other \in groups' : L!Lead(other.items) < L!Lead(o.items) /\ other.key = k.key
        <5>1. PICK other \in groups' : L!Lead(other.items) < L!Lead(o.items) /\ other.key = g.key
          BY <4>1, <3>12
        <5>2. L!Lead(other.items) \in Nat
          BY <1>3
        <5> QED BY <5>1, <5>2, <3>9
      <4>2. CASE \E k \in groups : k.items \cap o.items # {} /\ o.key = k.key
        BY <4>2, <3>11, <3>9
      <4> QED BY <4>1, <4>2, <1>2
    <3>14. PICK other \in groups' : L!Lead(other.items) <= L!Lead(o.items) /\ other.key = g.key
      BY <3>13
    <3>15. L!Lead(other.items) \in Nat
      BY <1>3
    <3>16. L!Lead(other.items) < L!Lead(h.items)
      BY <3>9, <3>14, <3>15, <2>0
    <3> QED BY <3>1, <3>14, <3>16
  <2> QED BY <2>1, <2>2, <1>2
<1>6. KeysBelow'
  BY <1>5 DEF KeysBelow
<1>7. L!SharedByLead
  <2> SUFFICES ASSUME NEW g \in groups', NEW h \in groups', L!Lead(g.items) < L!Lead(h.items), g.key = h.key
               PROVE  L!Lead(h.items) = g.key
    BY DEF L!SharedByLead
  <2> QED BY <1>2
<1>8. ASSUME L!KeysApart, NEW g \in groups, NEW h \in groups', g.items \subseteq h.items,
             \A other \in groups : other = g \/ other.items \cap h.items = {}
      PROVE  h.key = g.key
  <2>1. g.items \cap h.items # {}
    BY <1>1, <1>8
  <2>2. CASE h.key = L!Lead(h.items) /\ \E other \in groups' : L!Lead(other.items) < L!Lead(h.items) /\ other.key = g.key
    <3>1. PICK o \in groups' : L!Lead(o.items) < L!Lead(h.items) /\ o.key = g.key
      BY <2>2
    <3>2. /\ L!Lead(o.items) \in o.items /\ L!Lead(h.items) \in h.items /\ L!Lead(g.items) \in g.items
          /\ L!Lead(g.items) \in Nat /\ L!Lead(o.items) \in Nat /\ L!Lead(h.items) \in Nat
      BY <1>1, <1>3
    <3>3. L!Lead(g.items) \in h.items
      BY <3>2, <1>8
    <3>4. L!Lead(o.items) < L!Lead(g.items)
      BY <3>1, <3>2, <3>3, <1>3
    <3>5. CASE o.key = L!Lead(o.items)
      <4>1. L!Lead(g.items) <= o.key
        BY <3>1, <1>4
      <4> QED BY <4>1, <3>2, <3>4, <3>5
    <3>6. CASE \E k \in groups : k.items \cap o.items # {} /\ o.key = k.key
      <4>1. PICK k \in groups : k.items \cap o.items # {} /\ o.key = k.key
        BY <3>6
      <4>2. k = g
        BY <4>1, <3>1, <1>8 DEF L!KeysApart
      <4>3. o.items \cap h.items # {}
        BY <4>1, <4>2, <1>8
      <4>4. o = h
        BY <4>3, <1>3
      <4> QED BY <4>4, <3>1, <3>2
    <3> QED BY <3>5, <3>6, <1>2
  <2>3. CASE \E k \in groups : k.items \cap h.items # {} /\ h.key = k.key
    BY <2>3, <1>8
  <2> QED BY <2>1, <2>2, <2>3, <1>2
<1>9. L!KeysApart => L!KeepsPlace
  BY <1>8 DEF L!KeepsPlace
<1> QED BY <1>2, <1>6, <1>7, <1>9

-----------------------------------------------------------------------------
(* The steps *)

LEMMA PartsAre ==
  ASSUME NEW n \in Nat, NEW ps \in Parts(n)
  PROVE  /\ Len(ps) \in Nat /\ DOMAIN ps = 1 .. Len(ps) /\ DOMAIN ps \subseteq Nat
         /\ \A p \in DOMAIN ps : ps[p] \in [of : 1 .. n, kind : L!Kinds] /\ ps[p].of \in 1 .. n /\ ps[p].kind \in L!Kinds
<1>1. Len(ps) \in Nat /\ DOMAIN ps = 1 .. Len(ps) /\ ps \in [1 .. Len(ps) -> [of : 1 .. n, kind : L!Kinds]]
  BY LenProperties DEF Parts
<1> QED BY <1>1

LEMMA PartIs ==
  ASSUME NEW n \in Nat, NEW m \in 1 .. n, NEW kd \in L!Kinds
  PROVE  /\ L!Part(m, kd) \in [of : 1 .. n, kind : L!Kinds]
         /\ L!Part(m, kd).of = m /\ L!Part(m, kd).kind = kd
BY DEF L!Part

\* The first k parts, and one more.
Added(more, ps, k, part) == more = Append(SubSeq(ps, 1, k), part)

LEMMA PartAdded ==
  ASSUME NEW n \in Nat, NEW ps \in Parts(n), NEW m \in Nat, NEW k \in 0 .. Len(ps),
         \A p \in DOMAIN ps : p <= k => ps[p].of <= m,
         NEW part \in [of : 1 .. m, kind : L!Kinds], NEW more, Added(more, ps, k, part)
  PROVE  /\ more \in Parts(m) /\ Len(more) = k + 1 /\ DOMAIN more = 1 .. k + 1
         /\ more[k + 1] = part /\ \A p \in 1 .. k : more[p] = ps[p]
<1>1. /\ Len(ps) \in Nat /\ DOMAIN ps = 1 .. Len(ps)
      /\ \A p \in DOMAIN ps : ps[p] \in [of : 1 .. n, kind : L!Kinds] /\ ps[p].of \in 1 .. n
  BY PartsAre
<1>2. \A p \in 1 .. k : ps[p] \in [of : 1 .. m, kind : L!Kinds]
  <2> SUFFICES ASSUME NEW p \in 1 .. k PROVE ps[p] \in [of : 1 .. m, kind : L!Kinds]
    OBVIOUS
  <2>1. p \in DOMAIN ps /\ p <= k
    BY <1>1
  <2>2. ps[p] \in [of : 1 .. n, kind : L!Kinds] /\ ps[p].of \in 1 .. n /\ ps[p].of <= m
    BY <1>1, <2>1
  <2> QED BY <2>2
<1> DEFINE S == [of : 1 .. m, kind : L!Kinds]
           c == SubSeq(ps, 1, k)
<1>3. c \in Seq(S) /\ Len(c) = k /\ \A p \in 1 .. k : c[p] = ps[p]
  <2> HIDE DEF S
  <2>1. /\ c \in Seq(S) /\ Len(c) = (IF 1 <= k THEN k - 1 + 1 ELSE 0)
        /\ \A p \in 1 .. k - 1 + 1 : c[p] = ps[1 + p - 1]
    BY <1>2, SubSeqProperties DEF S
  <2> QED BY <2>1
<1> HIDE DEF S, c
<1>4. part \in S
  BY DEF S
<1>5. /\ Append(c, part) \in Seq(S) /\ Len(Append(c, part)) = k + 1
      /\ \A p \in 1 .. k : Append(c, part)[p] = c[p]
      /\ Append(c, part)[k + 1] = part
  BY <1>3, <1>4, AppendProperties
<1>6. DOMAIN Append(c, part) = 1 .. k + 1
  BY <1>5, LenProperties
<1> QED BY <1>3, <1>5, <1>6 DEF c, S, Parts, Added

\* A part that shows as something else.
LEMMA PartChanged ==
  ASSUME NEW n \in Nat, NEW ps \in Parts(n), NEW p \in DOMAIN ps, NEW kd \in L!Kinds
  PROVE  LET new == [ps EXCEPT ![p].kind = kd] IN
         /\ new \in Parts(n) /\ Len(new) = Len(ps) /\ DOMAIN new = DOMAIN ps
         /\ \A q \in DOMAIN ps : new[q].of = ps[q].of /\ new[q].kind = IF q = p THEN kd ELSE ps[q].kind
<1>1. /\ Len(ps) \in Nat /\ DOMAIN ps = 1 .. Len(ps)
      /\ \A q \in DOMAIN ps : ps[q] \in [of : 1 .. n, kind : L!Kinds]
  BY PartsAre
<1> DEFINE e == [ps[p] EXCEPT !.kind = kd]
           new == [ps EXCEPT ![p] = e]
           S == [of : 1 .. n, kind : L!Kinds]
<1>2. e \in S /\ e.of = ps[p].of /\ e.kind = kd
  BY <1>1
<1> HIDE DEF e, S
<1>3. /\ new \in Seq(S) /\ Len(new) = Len(ps)
      /\ \A q \in 1 .. Len(ps) : new[q] = IF q = p THEN e ELSE ps[q]
  BY <1>1, <1>2, ExceptSeq DEF Parts, S
<1>4. DOMAIN new = DOMAIN ps
  OBVIOUS
<1>5. \A q \in DOMAIN ps : new[q].of = ps[q].of /\ new[q].kind = IF q = p THEN kd ELSE ps[q].kind
  BY <1>1, <1>2, <1>3
<1>6. new = [ps EXCEPT ![p].kind = kd]
  BY DEF e
<1> QED BY <1>3, <1>4, <1>5, <1>6 DEF Parts, S

\* Where the parts are the same up to the last one that was shown and is, so are the runs.
LEMMA SameJoins ==
  ASSUME NEW k, k \in Nat, DOMAIN parts \subseteq Nat, DOMAIN parts' \subseteq Nat,
         \A p \in Nat : p <= k => (p \in DOMAIN parts <=> p \in DOMAIN parts'),
         \A p \in DOMAIN parts : p <= k => parts'[p] = parts[p],
         \A p \in Shown \cap Shown' : p <= k
  PROVE  Joins
<1> SUFFICES ASSUME NEW p \in Shown \cap Shown', NEW q \in Shown \cap Shown', L!Together(parts, p, q)
             PROVE  L!Together(parts', p, q)
  BY DEF Joins
<1>1. p \in Nat /\ q \in Nat /\ p <= k /\ q <= k
  BY DEF Shown, L!Items
<1> SUFFICES ASSUME NEW r \in DOMAIN parts', (p < r /\ r < q) \/ (q < r /\ r < p)
             PROVE  parts'[r].kind \notin {"alone", "prompt"}
  BY DEF L!Together
<1>2. r \in Nat /\ r <= k
  BY <1>1
<1>3. r \in DOMAIN parts /\ parts'[r] = parts[r]
  BY <1>2
<1> QED BY <1>3 DEF L!Together

\* What each step but the reopening does: it builds the rows again, from what changed in
\* one place.
Changes == LineTyped' /\ L!Build(groups) /\ Lasts /\ (Joins \/ Splits)

\* What is shown moves, the parts stay.
LEMMA MovesChange ==
  ASSUME L!TimelineBounds, LineTyped, L!Step \/ L!OlderPage \/ L!Redo \/ \E p \in DOMAIN parts : L!Revert(p)
  PROVE  Changes
<1>0. MaxMessages \in Nat \ {0} /\ messages \in 0 .. MaxMessages /\ parts \in Parts(messages)
  BY DEF L!TimelineBounds, LineTyped
<1>1. /\ Len(parts) \in Nat /\ DOMAIN parts = 1 .. Len(parts) /\ DOMAIN parts \subseteq Nat
      /\ \A p \in DOMAIN parts : parts[p].of \in 1 .. messages
  BY <1>0, PartsAre
<1>2. parts' = parts /\ L!Build(groups)
  BY DEF L!Step, L!OlderPage, L!Redo, L!Revert
<1>3. /\ messages' \in 0 .. MaxMessages /\ messages <= messages'
      /\ from' \in 1 .. messages' + 1 /\ last' \in 0 .. messages'
      /\ from' <= from
  <2>1. from \in 1 .. messages + 1 /\ last \in 0 .. messages
    BY DEF LineTyped
  <2>2. CASE L!Step
    BY <1>0, <2>1, <2>2 DEF L!Step
  <2>3. CASE L!OlderPage
    BY <1>0, <2>1, <2>3 DEF L!OlderPage
  <2>4. CASE L!Redo
    BY <1>0, <2>1, <2>4 DEF L!Redo
  <2>5. ASSUME NEW p \in DOMAIN parts, L!Revert(p)
               PROVE  /\ messages' \in 0 .. MaxMessages /\ messages <= messages'
                      /\ from' \in 1 .. messages' + 1 /\ last' \in 0 .. messages'
                      /\ from' <= from
    <3>1. parts[p].of \in 1 .. messages
      BY <1>1
    <3> QED BY <1>0, <2>1, <2>5, <3>1 DEF L!Revert
  <2> QED BY <2>2, <2>3, <2>4, <2>5
<1>4. parts' \in Parts(messages')
  <2>1. CASE messages' = messages
    BY <1>0, <1>2, <2>1
  <2>2. CASE L!Step
    <3> DEFINE S == [of : 1 .. messages, kind : L!Kinds]
               R == [of : 1 .. messages', kind : L!Kinds]
    <3>1. S \subseteq R
      BY <1>0, <1>3
    <3>2. parts \in Seq(S)
      BY <1>0 DEF Parts
    <3> HIDE DEF S, R
    <3>3. parts \in Seq(R)
      BY <3>1, <3>2
    <3> QED BY <3>3, <1>2 DEF R, Parts
  <2> QED BY <2>1, <2>2 DEF L!OlderPage, L!Redo, L!Revert
<1>5. LineTyped'
  BY <1>2, <1>3, <1>4 DEF LineTyped
<1>6. Joins
  BY <1>2 DEF Joins, L!Together
<1>7. Lasts
  <2> SUFFICES ASSUME NEW p, NEW q, p \in Shown, q \in Shown, q \in Shown', p < q PROVE p \in Shown'
    BY DEF Lasts
  <2>1. /\ p \in DOMAIN parts /\ parts[p].kind = "item" /\ from <= parts[p].of /\ parts[p].of \in 1 .. messages
        /\ q \in DOMAIN parts /\ parts[q].of \in 1 .. messages /\ parts[q].of <= last'
    BY <1>1, <1>2 DEF Shown, L!Items
  <2>2. parts[p].of <= parts[q].of
    BY <2>1 DEF LineTyped
  <2>3. from \in Int /\ from' \in Int /\ last' \in Int /\ messages \in Int
    BY <1>0, <1>3 DEF LineTyped
  <2>4. parts[p].of \in from' .. last'
    BY <1>3, <2>1, <2>2, <2>3
  <2> QED BY <1>2, <2>1, <2>4 DEF Shown, L!Items
<1> QED BY <1>2, <1>5, <1>6, <1>7 DEF Changes

\* A part is added at the end.
LEMMA PartStartsChanges ==
  ASSUME LineTyped, NEW kd \in {"item", "alone", "quiet"}, L!PartStarts(kd)
  PROVE  Changes
<1>0. messages \in Nat /\ parts \in Parts(messages) /\ last = messages /\ last # 0
  BY DEF LineTyped, L!PartStarts, L!IsStep
<1>1. /\ Len(parts) \in Nat /\ DOMAIN parts = 1 .. Len(parts) /\ DOMAIN parts \subseteq Nat
      /\ \A p \in DOMAIN parts : /\ parts[p] \in [of : 1 .. messages, kind : L!Kinds]
                                 /\ parts[p].of \in 1 .. messages
  BY <1>0, PartsAre
<1>2. parts' = Append(parts, L!Part(last, kd)) /\ L!Build(groups) /\ UNCHANGED <<messages, from, last>>
  BY DEF L!PartStarts
<1>3. L!Part(last, kd) \in [of : 1 .. messages, kind : L!Kinds] /\ L!Part(last, kd).of = messages
  <2>1. kd \in L!Kinds /\ last \in 1 .. messages
    BY <1>0 DEF L!Kinds
  <2> QED BY <1>0, <2>1, PartIs
<1>4. /\ parts' \in Parts(messages) /\ Len(parts') = Len(parts) + 1
      /\ parts'[Len(parts) + 1] = L!Part(last, kd) /\ \A p \in 1 .. Len(parts) : parts'[p] = parts[p]
  BY <1>0, <1>2, <1>3, AppendProperties DEF Parts
<1>5. DOMAIN parts' = 1 .. Len(parts) + 1
  BY <1>0, <1>4, PartsAre
<1>6. LineTyped'
  <2>1. \A p, q \in DOMAIN parts' : p < q => parts'[p].of <= parts'[q].of
    <3> SUFFICES ASSUME NEW p \in DOMAIN parts', NEW q \in DOMAIN parts', p < q
                 PROVE  parts'[p].of <= parts'[q].of
      OBVIOUS
    <3>1. p \in DOMAIN parts /\ parts'[p] = parts[p]
      BY <1>1, <1>4, <1>5
    <3>2. CASE q \in DOMAIN parts
      BY <3>1, <3>2, <1>1, <1>4 DEF LineTyped
    <3>3. CASE q = Len(parts) + 1
      BY <3>1, <3>3, <1>0, <1>1, <1>3, <1>4
    <3> QED BY <3>2, <3>3, <1>1, <1>5
  <2> QED BY <1>2, <1>4, <2>1 DEF LineTyped
<1>7. Shown \subseteq Shown'
  BY <1>1, <1>2, <1>4, <1>5 DEF Shown, L!Items
<1>8. Joins
  <2>1. \A p \in Shown : p <= Len(parts)
    BY <1>1 DEF Shown, L!Items
  <2> QED BY <1>1, <1>4, <1>5, <2>1, SameJoins
<1> QED BY <1>2, <1>6, <1>7, <1>8 DEF Changes, Lasts

\* A prompt drops what is hidden.
LEMMA PromptChanges ==
  ASSUME L!TimelineBounds, LineTyped, L!Prompt
  PROVE  Changes
<1>0. /\ MaxMessages \in Nat \ {0} /\ messages \in Nat /\ parts \in Parts(messages)
      /\ last \in 0 .. messages /\ last < MaxMessages /\ from \in 1 .. messages + 1
  BY DEF L!TimelineBounds, LineTyped, L!Prompt
<1>1. /\ Len(parts) \in Nat /\ DOMAIN parts = 1 .. Len(parts) /\ DOMAIN parts \subseteq Nat
      /\ \A p \in DOMAIN parts : parts[p].of \in 1 .. messages
  BY <1>0, PartsAre
<1>2. PICK k \in 0 .. Len(parts) :
        /\ \A p \in DOMAIN parts : p <= k <=> parts[p].of <= last
        /\ parts' = Append(SubSeq(parts, 1, k), L!Part(last + 1, "prompt"))
  BY DEF L!Prompt
<1>3. /\ messages' = last + 1 /\ last' = last + 1 /\ L!Build(groups)
      /\ from' = IF from > last + 1 THEN last + 1 ELSE from
  BY DEF L!Prompt
<1>4. L!Part(last + 1, "prompt") \in [of : 1 .. last + 1, kind : L!Kinds]
      /\ L!Part(last + 1, "prompt").of = last + 1 /\ L!Part(last + 1, "prompt").kind = "prompt"
  <2>1. "prompt" \in L!Kinds /\ last + 1 \in Nat /\ last + 1 \in 1 .. last + 1
    BY <1>0 DEF L!Kinds
  <2> QED BY <2>1, PartIs
<1>5. /\ parts' \in Parts(last + 1) /\ DOMAIN parts' = 1 .. k + 1
      /\ parts'[k + 1] = L!Part(last + 1, "prompt") /\ \A p \in 1 .. k : parts'[p] = parts[p]
  <2> DEFINE m == last + 1
             part == L!Part(last + 1, "prompt")
  <2>1. m \in Nat /\ \A p \in DOMAIN parts : p <= k => parts[p].of <= m
    BY <1>0, <1>1, <1>2
  <2>2. part \in [of : 1 .. m, kind : L!Kinds] /\ Added(parts', parts, k, part)
    BY <1>2, <1>4 DEF Added
  <2> HIDE DEF m, part
  <2>3. /\ parts' \in Parts(m) /\ DOMAIN parts' = 1 .. k + 1
        /\ parts'[k + 1] = part /\ \A p \in 1 .. k : parts'[p] = parts[p]
    BY <1>0, <2>1, <2>2, PartAdded
  <2> QED BY <2>3 DEF m, part
<1>6. LineTyped'
  <2>1. \A p, q \in DOMAIN parts' : p < q => parts'[p].of <= parts'[q].of
    <3> SUFFICES ASSUME NEW p \in DOMAIN parts', NEW q \in DOMAIN parts', p < q
                 PROVE  parts'[p].of <= parts'[q].of
      OBVIOUS
    <3>1. p \in 1 .. k /\ p \in DOMAIN parts /\ parts'[p] = parts[p] /\ parts[p].of <= last /\ parts[p].of \in Nat
      BY <1>1, <1>2, <1>5
    <3>2. CASE q \in 1 .. k
      <4>1. q \in DOMAIN parts /\ parts'[q] = parts[q]
        BY <3>2, <1>1, <1>5
      <4> QED BY <3>1, <4>1 DEF LineTyped
    <3>3. CASE q = k + 1
      BY <3>1, <3>3, <1>0, <1>4, <1>5
    <3> QED BY <3>2, <3>3, <1>1, <1>5
  <2>2. messages' \in 0 .. MaxMessages /\ last' \in 0 .. messages' /\ from' \in 1 .. messages' + 1
    BY <1>0, <1>3
  <2> QED BY <1>3, <1>5, <2>1, <2>2 DEF LineTyped
<1>7. \A p \in Shown : p \in 1 .. k /\ p \in Shown'
  <2> SUFFICES ASSUME NEW p \in Shown PROVE p \in 1 .. k /\ p \in Shown'
    OBVIOUS
  <2>1. p \in DOMAIN parts /\ parts[p].of \in from .. last /\ parts[p].kind = "item"
    BY DEF Shown, L!Items
  <2>2. p \in 1 .. k /\ parts'[p] = parts[p] /\ p \in DOMAIN parts'
    BY <2>1, <1>0, <1>1, <1>2, <1>5
  <2>3. parts[p].of \in from' .. last'
    BY <2>1, <1>0, <1>1, <1>3
  <2> QED BY <2>1, <2>2, <2>3 DEF Shown, L!Items
<1>8. Joins
  <2>1. \A p \in DOMAIN parts : p <= k => parts'[p] = parts[p]
    BY <1>1, <1>5
  <2>2. DOMAIN parts' \subseteq Nat /\ \A p \in Nat : p <= k => (p \in DOMAIN parts <=> p \in DOMAIN parts')
    BY <1>1, <1>5
  <2> QED BY <1>1, <1>7, <2>1, <2>2, SameJoins
<1> QED BY <1>3, <1>6, <1>7, <1>8 DEF Changes, Lasts

\* A part shows as something else: a prompt that goes joins runs, a part that shows splits one.
LEMMA PartChanges ==
  ASSUME LineTyped, NEW p \in DOMAIN parts,
         L!RollBack(p) \/ \E kd \in {"item", "alone"} : L!PartShows(p, kd)
  PROVE  Changes
<1>0. messages \in Nat /\ parts \in Parts(messages)
  BY DEF LineTyped
<1>1. PICK kd \in L!Kinds :
        /\ parts' = [parts EXCEPT ![p].kind = kd] /\ L!Build(groups) /\ UNCHANGED <<messages, from, last>>
        /\ (parts[p].kind = "prompt" /\ kd = "gone") \/ parts[p].kind = "quiet"
  BY DEF L!RollBack, L!PartShows, L!Prompted, L!Kinds
<1>2. /\ parts' \in Parts(messages) /\ DOMAIN parts' = DOMAIN parts /\ DOMAIN parts \subseteq Nat
      /\ \A q \in DOMAIN parts : parts'[q].of = parts[q].of /\ parts'[q].kind = IF q = p THEN kd ELSE parts[q].kind
  <2> DEFINE new == [parts EXCEPT ![p].kind = kd]
  <2>1. /\ new \in Parts(messages) /\ DOMAIN new = DOMAIN parts
        /\ \A q \in DOMAIN parts : new[q].of = parts[q].of /\ new[q].kind = IF q = p THEN kd ELSE parts[q].kind
    BY <1>0, PartChanged
  <2>2. DOMAIN parts \subseteq Nat
    BY <1>0, PartsAre
  <2> HIDE DEF new
  <2>3. parts' = new
    BY <1>1 DEF new
  <2> QED BY <2>1, <2>2, <2>3
<1>3. LineTyped'
  BY <1>1, <1>2 DEF LineTyped
<1>4. Shown \subseteq Shown'
  BY <1>1, <1>2 DEF Shown, L!Items
<1>5. CASE parts[p].kind = "prompt" /\ kd = "gone"
  <2>1. \A x, y : L!Together(parts, x, y) => L!Together(parts, x, y)'
    BY <1>2, <1>5 DEF L!Together
  <2> QED BY <1>1, <1>3, <1>4, <2>1 DEF Changes, Lasts, Joins
<1>6. CASE parts[p].kind = "quiet"
  <2>1. \A x, y : L!Together(parts, x, y)' => L!Together(parts, x, y)
    BY <1>2, <1>6 DEF L!Together
  <2> QED BY <1>1, <1>3, <1>4, <2>1 DEF Changes, Lasts, Splits
<1> QED BY <1>1, <1>5, <1>6

\* The session opens on its newest message, and each group is named for its first item.
LEMMA ReopenBuilds ==
  ASSUME LineTyped, L!Reopen
  PROVE  Lined' /\ L!SharedByLead
<1>0. messages \in Nat /\ parts \in Parts(messages) /\ parts' = parts /\ messages' = messages
  BY DEF LineTyped, L!Reopen
<1>1. LineTyped'
  BY DEF LineTyped, L!Reopen
<1>2. Len(parts') \in Nat /\ DOMAIN parts' = 1 .. Len(parts') /\ DOMAIN parts' \subseteq Nat
  BY <1>0, PartsAre
<1>3. MadeOf(groups', {}, parts', from', last')
  BY <1>2 DEF L!Reopen, L!Build, MadeOf
<1>4. GroupsRun'
  BY <1>3, KeptGroups DEF GroupsRun
<1>5. \A h \in groups' : h.key = L!Lead(h.items)
  BY <1>3, Built
<1>6. /\ \A g \in groups' : /\ g.items \subseteq Nat /\ L!Lead(g.items) \in g.items
      /\ \A g, h \in groups' : g.items \cap h.items # {} => g = h
  BY <1>2, <1>4, GroupsAre DEF GroupsRun
<1>7. \A h \in groups' : L!Lead(h.items) \in Nat
  BY <1>6
<1>8. KeysBelow'
  BY <1>5, <1>7 DEF KeysBelow
<1>9. L!SharedByLead
  BY <1>5 DEF L!SharedByLead
<1> QED BY <1>1, <1>4, <1>8, <1>9 DEF Lined

LEMMA LineInit ==
  ASSUME L!TimelineBounds, L!Init
  PROVE  Lined
<1>1. MaxMessages \in Nat /\ messages = 0 /\ parts = <<>> /\ from = 1 /\ last = 0 /\ groups = {}
  BY DEF L!TimelineBounds, L!Init
<1>2. LineTyped
  BY <1>1 DEF LineTyped, Parts
<1>3. L!RowsOf(parts, from, last) = {}
  BY <1>1 DEF L!RowsOf, L!Items
<1> QED BY <1>1, <1>2, <1>3 DEF Lined, GroupsRun, AreRuns, KeysBelow

LEMMA LineStep ==
  ASSUME L!TimelineBounds, Lined, L!Next
  PROVE  Lined' /\ L!KeepsGroups
<1>0. LineTyped
  BY DEF Lined
<1>1. CASE L!Reopen
  BY <1>0, <1>1, ReopenBuilds DEF L!KeepsGroups
<1>2. CASE ~L!Reopen
  <2>1. Changes
    BY <1>0, <1>2, MovesChange, PartStartsChanges, PromptChanges, PartChanges DEF L!Next
  <2>2. parts' \in Parts(messages')
    BY <2>1 DEF Changes, LineTyped
  <2>3. (GroupsRun /\ KeysBelow)' /\ L!SharedByLead /\ (L!KeysApart => L!KeepsPlace)
    BY <2>1, <2>2, BuildKeeps DEF Changes
  <2> QED BY <2>1, <2>3 DEF Changes, Lined, L!KeepsGroups
<1> QED BY <1>1, <1>2

\* The invariant is the module's type invariant, and more.
LEMMA LineIsTypeOK ==
  ASSUME Lined
  PROVE  L!TypeOK
<1>1. messages \in Nat /\ parts \in Parts(messages)
  BY DEF Lined, LineTyped
<1>2. DOMAIN parts \subseteq Nat
  BY <1>1, PartsAre
<1>3. \A g \in groups : g.items # {} /\ g.items \subseteq Shown
  BY <1>2, GroupsAre DEF Lined, GroupsRun, Shown
<1>4. Shown \subseteq DOMAIN parts
  BY DEF Shown, L!Items
<1> QED BY <1>3, <1>4 DEF L!TypeOK, Lined, LineTyped, KeysBelow, Parts

-----------------------------------------------------------------------------
(* The transcript: the theorems *)

LEMMA LineMoves == [Next]_<<machine, forwarding, terminals, models, timeline, updates, home>>
                    => L!Next \/ UNCHANGED timeline
  BY DEF Next, timeline

LEMMA LineStays ==
  ASSUME Lined, UNCHANGED timeline
  PROVE  Lined'
BY DEF timeline, Lined, LineTyped, GroupsRun, KeysBelow

\* The inductive invariant of the transcript.
THEOREM LinedHolds == Spec => []Lined
<1>1. Init => Lined
  BY MachinesBounds, LineInit DEF Init
<1>2. Lined /\ [Next]_<<machine, forwarding, terminals, models, timeline, updates, home>> => Lined'
  BY MachinesBounds, LineStep, LineStays, LineMoves
<1> QED
  BY <1>1, <1>2, PTL DEF Spec

\* While a session stays open a group of the transcript keeps its key as it grows, and two
\* share a key only where a run that was named by a later item has split
\* (transcript-rows.ts, keepGroupKeys).
THEOREM TimelineKeptHolds == Spec => TimelineKept
<1>1. Lined /\ [Next]_<<machine, forwarding, terminals, models, timeline, updates, home>> => [L!KeepsGroups]_timeline
  BY MachinesBounds, LineStep, LineMoves
<1> QED
  BY <1>1, LinedHolds, PTL DEF Spec, TimelineKept

-----------------------------------------------------------------------------
(* The types of all the machines *)

\* The callback of the daemon's client is of a follow of the effect alive.
Bonded == callback # 0 => follow[callback].of = effect

LEMMA BondedStep ==
  ASSUME F!ForwardingBounds, Forwarded, Bonded, F!Next
  PROVE  Bonded'
<1>0. /\ effect \in F!Effects \cup {0} /\ born \in F!Effects \cup {0} /\ calls \in 0 .. MaxFollows
      /\ callback \in {0, calls} /\ MaxFollows \in Nat \ {0} /\ MaxEffects \in Nat \ {0}
      /\ follow \in [F!Follows -> [of : F!Effects \cup {0}, at : {"none", "sub", "get", "done"}]]
      /\ effect = 0 => callback = 0
      /\ calls < MaxFollows => follow[calls + 1].at = "none"
  BY DEF Forwarded, ForwardTyped, Wires, Linked, Asking, At, F!ForwardingBounds, F!Follows
<1>1. callback # 0 => callback \in F!Follows
  BY <1>0 DEF F!Follows
<1>2. CASE F!Online \/ F!Foreground
  <2>1. CASE UNCHANGED <<follow, calls, callback>>
    BY <1>0, <1>2, <2>1 DEF F!Online, F!Foreground, Bonded
  <2>2. CASE \E e \in F!Effects : F!Call(e) /\ effect' = e
    <3>1. callback' = calls + 1 /\ calls + 1 \in F!Follows /\ follow' = [follow EXCEPT ![calls + 1] = [of |-> effect', at |-> "sub"]]
      BY <1>0, <2>2 DEF F!Call, F!Follows
    <3> QED BY <1>0, <3>1 DEF Bonded
  <2>3. effect # 0 => effect \in F!Effects
    BY <1>0
  <2>4. born < MaxEffects => born + 1 \in F!Effects
    BY <1>0 DEF F!Effects
  <2> QED BY <1>2, <2>1, <2>2, <2>3, <2>4 DEF F!Online, F!Foreground, F!followVars
<1>3. CASE F!Offline
  BY <1>3 DEF F!Offline, Bonded
<1>4. CASE F!Replace
  <2> SUFFICES ASSUME callback' # 0 PROVE follow'[callback'].of = effect'
    BY DEF Bonded
  <2>1. active /\ callback' = calls + 1 /\ effect' = born + 1 /\ calls < MaxFollows /\ calls + 1 \in F!Follows
    BY <1>0, <1>4 DEF F!Replace, F!Follows
  <2>2. calls + 1 \notin F!Ended
    BY <1>0, <2>1 DEF F!Ended
  <2>3. follow'[calls + 1] = [of |-> born + 1, at |-> "sub"]
    BY <1>4, <2>1, <2>2 DEF F!Replace
  <2> QED BY <2>1, <2>3
<1>5. CASE F!Background
  BY <1>5 DEF F!Background, F!Unsubscribe, Bonded
<1>6. CASE F!Subscribed
  <2>1. UNCHANGED effect /\ callback' \in {0, callback}
    BY <1>6 DEF F!Subscribed, F!Unsubscribe
  <2>2. \A f \in F!Follows : follow'[f].of = follow[f].of
    BY <1>0, <1>6 DEF F!Subscribed
  <2> QED BY <1>1, <2>1, <2>2 DEF Bonded
<1>7. CASE F!Listed
  <2>1. UNCHANGED <<effect, callback>>
    BY <1>7 DEF F!Listed
  <2>2. \A f \in F!Follows : follow'[f].of = follow[f].of
    BY <1>0, <1>7 DEF F!Listed
  <2> QED BY <1>1, <2>1, <2>2 DEF Bonded
<1>8. CASE F!Pushed \/ (\E e \in F!Effects : F!JobStep(e)) \/ F!Handle \/ (\E f \in F!Follows : F!Answer(f)) \/ F!PortsChange
  BY <1>8 DEF F!Pushed, F!JobStep, F!JobStarts, F!CloseOne, F!Closed, F!KeyRead, F!KeyFailed, F!OpenOne,
     F!Opened, F!Handle, F!Answer, F!PortsChange, F!followVars, Bonded
<1> QED BY <1>2, <1>3, <1>4, <1>5, <1>6, <1>7, <1>8 DEF F!Next

\* The directory is in one of its states, and one app runs at a time.
OneApp ==
  /\ dir \in {"none", "legacy", "there"}
  /\ \A p, q \in H!Procs : kind[p] = "app" /\ kind[q] = "app" /\ H!Alive(p) /\ H!Alive(q) => p = q

LEMMA OneAppStep ==
  ASSUME HomeTyped, OneApp, H!Next
  PROVE  OneApp'
<1>0. /\ kind \in [H!Procs -> {"app", "up", "pair"}] /\ phase \in [H!Procs -> H!Phases]
  BY DEF HomeTyped
<1>1. dir' \in {"none", "legacy", "there"}
  BY DEF OneApp, H!Next, H!Launch, H!ResolveHome, H!MoveHome, H!CheckLock, H!LoadIdentity, H!WriteIdentity,
     H!RenameIdentity, H!LoadClients, H!WriteLock, H!RenameLock, H!Pair, H!Stop, H!Exit, H!Quit, H!Kill,
     H!Offer, H!files
<1>2. CASE \E p \in H!Procs : \E k \in {"app", "up", "pair"} : H!Launch(p, k)
  <2>1. PICK p \in H!Procs, k \in {"app", "up", "pair"} : H!Launch(p, k)
    BY <1>2
  <2>2. /\ k = "app" => \A q \in H!Procs : ~(kind[q] = "app" /\ H!Alive(q))
        /\ kind' = [kind EXCEPT ![p] = k] /\ phase' = [phase EXCEPT ![p] = "home"]
    BY <2>1 DEF H!Launch, H!Goto
  <2>3. \A q \in H!Procs : q # p => kind'[q] = kind[q] /\ phase'[q] = phase[q]
    BY <1>0, <2>2
  <2>4. kind'[p] = k
    BY <1>0, <2>2
  <2> QED BY <1>1, <2>2, <2>3, <2>4 DEF OneApp, H!Alive
<1>3. CASE ~\E p \in H!Procs : \E k \in {"app", "up", "pair"} : H!Launch(p, k)
  <2>1. PICK p \in H!Procs :
          \/ H!ResolveHome(p) \/ H!MoveHome(p) \/ H!CheckLock(p)
          \/ H!LoadIdentity(p) \/ H!WriteIdentity(p) \/ H!RenameIdentity(p) \/ H!LoadClients(p)
          \/ H!WriteLock(p) \/ H!RenameLock(p)
          \/ \E c \in Phones : H!Pair(p, c)
          \/ H!Stop(p) \/ H!Exit(p) \/ H!Quit(p) \/ H!Kill(p) \/ H!Offer(p)
    BY <1>3 DEF H!Next
  <2>2. kind' = kind /\ H!Alive(p) /\ (UNCHANGED phase \/ \E at : phase' = [phase EXCEPT ![p] = at])
    BY <2>1 DEF H!ResolveHome, H!MoveHome, H!CheckLock, H!LoadIdentity, H!WriteIdentity,
       H!RenameIdentity, H!LoadClients, H!WriteLock, H!RenameLock, H!Pair, H!Stop, H!Exit, H!Quit, H!Kill,
       H!Offer, H!Goto, H!Alive, H!files
  <2>3. \A q \in H!Procs : q # p => phase'[q] = phase[q]
    BY <1>0, <2>2
  <2>4. \A q \in H!Procs : H!Alive(q)' => H!Alive(q)
    BY <2>2, <2>3 DEF H!Alive
  <2> QED BY <1>1, <2>2, <2>4 DEF OneApp
<1> QED BY <1>2, <1>3

\* The machine that was chosen is the one that runs.
OneMachine == machine \in {"forwarding", "terminals", "model", "timeline", "updater", "home"}

LEMMA ForwardIsTypeOK ==
  ASSUME F!ForwardingBounds, Forwarded, Bonded
  PROVE  F!TypeOK
<1>1. ForwardTyped /\ \A e \in F!Effects, p \in Ports : p \in open[e] <=> bound[p] = e
  BY DEF Forwarded, Jobs, Held
<1>2. callback \in F!Follows \cup {0} /\ asked \subseteq F!Follows
  BY <1>1 DEF ForwardTyped, F!Follows, F!ForwardingBounds
<1> QED BY <1>1, <1>2 DEF ForwardTyped, Bonded, F!TypeOK

LEMMA UpdateIsTypeOK ==
  ASSUME U!UpdaterBounds, Updated
  PROVE  U!TypeOK
<1>1. 1 .. restarts \subseteq U!Restarts
  BY DEF U!UpdaterBounds, U!Restarts, Updated, UpdateTyped
<1> QED BY <1>1 DEF U!UpdaterBounds, U!Restarts, Updated, UpdateTyped, Versioned, U!TypeOK

LEMMA ModelIsTypeOK ==
  ASSUME Picked
  PROVE  M!TypeOK
BY DEF Picked, ModelTyped, PassedBy, M!TypeOK

LEMMA HomeIsTypeOK ==
  ASSUME HomeHeld, OneApp
  PROVE  H!TypeOK
BY DEF HomeHeld, HomeTyped, Keyed, OneApp, H!Serves, H!TypeOK

OneEach == OneMachine /\ Bonded /\ OneApp

LEMMA TypesMove == [Next]_<<machine, forwarding, terminals, models, timeline, updates, home>>
                    => /\ machine' = machine
                       /\ F!Next \/ UNCHANGED <<callback, follow, effect>>
                       /\ H!Next \/ UNCHANGED <<dir, kind, phase>>
  BY DEF Next, forwarding, home

\* Through every step of each machine its state keeps its types, and what a type goes
\* with: a port has the listener of the effect that bound it, the client's callback is of
\* the effect alive (port-forward.ts), a version goes with what is said of it (updater.ts),
\* a daemon has a key (identity.ts) and one app runs (desktop/server/index.ts).
THEOREM MachinesTyped == Spec => []TypeOK
<1>1. Init => OneEach
  <2> SUFFICES ASSUME Init PROVE OneEach
    OBVIOUS
  <2>1. callback = 0 /\ machine \in {"forwarding", "terminals", "model", "timeline", "updater", "home"}
    BY DEF Init, F!Init
  <2>2. dir \in {"none", "legacy", "there"} /\ phase = [p \in H!Procs |-> "none"]
    BY DEF Init, H!Init
  <2> QED BY <2>1, <2>2 DEF OneEach, OneMachine, Bonded, OneApp, H!Alive
<1>2. Forwarded /\ HomeHeld /\ OneEach /\ [Next]_<<machine, forwarding, terminals, models, timeline, updates, home>>
      => OneEach'
  <2> SUFFICES ASSUME Forwarded, HomeHeld, OneEach,
                      [Next]_<<machine, forwarding, terminals, models, timeline, updates, home>>
               PROVE  OneEach'
    OBVIOUS
  <2>1. OneMachine'
    BY TypesMove DEF OneEach, OneMachine
  <2>2. Bonded'
    BY TypesMove, MachinesBounds, BondedStep DEF OneEach, Bonded
  <2>3. OneApp'
    BY TypesMove, OneAppStep DEF OneEach, OneApp, HomeHeld, H!Alive
  <2> QED BY <2>1, <2>2, <2>3 DEF OneEach
<1>3. Forwarded /\ TermHeld /\ Picked /\ Lined /\ Updated /\ HomeHeld /\ OneEach => TypeOK
  <2> SUFFICES ASSUME Forwarded, TermHeld, Picked, Lined, Updated, HomeHeld, OneEach PROVE TypeOK
    OBVIOUS
  <2>1. F!TypeOK /\ U!TypeOK /\ M!TypeOK /\ L!TypeOK /\ H!TypeOK /\ T!TypeOK
    BY MachinesBounds, ForwardIsTypeOK, UpdateIsTypeOK, ModelIsTypeOK, LineIsTypeOK, HomeIsTypeOK,
       TypedIsTypeOK DEF OneEach, TermHeld
  <2> HIDE DEF F!TypeOK, U!TypeOK, M!TypeOK, L!TypeOK, H!TypeOK, T!TypeOK
  <2> QED BY <2>1 DEF TypeOK, OneEach, OneMachine
<1> QED
  BY <1>1, <1>2, <1>3, ForwardedHolds, TermHeldHolds, PickedHolds, LinedHolds, UpdatedHolds, HomeHeldHolds, PTL
  DEF Spec

=============================================================================
