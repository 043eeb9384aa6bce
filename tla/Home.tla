-------------------------------- MODULE Home --------------------------------
(***************************************************************************)
(* $THINKITE_HOME and the processes that share it: the desktop app, which  *)
(* has the daemon in its process, `thinkite up` and `thinkite pair`.  The  *)
(* directory's move (home.ts), the identity (identity.ts), the paired      *)
(* phones (known-clients.ts), the lock (daemon-lock.ts), and the order in  *)
(* which start() and stop() touch them (daemon/src/index.ts).              *)
(*                                                                         *)
(* A start is synchronous, so a process is a list of file operations;      *)
(* other processes run between two of them.                                *)
(***************************************************************************)
EXTENDS Naturals, FiniteSets

CONSTANTS
  Phones,
  MaxProcs,      \* bound: processes
  MaxKills       \* bound: processes that are killed

HomeBounds == MaxProcs \in Nat \ {0} /\ MaxKills \in Nat

Procs == 1 .. MaxProcs  \* also their pids, and the keys they generate

VARIABLES
  dir,           \* the directory: not there, under its old name, or there
  identity,      \* identity.ed25519: who generated it, 0 if there is none
  identityTmp,
  known,         \* known_clients.json
  lock,          \* daemon.lock: the pid in it, 0 if there is none
  lockTmp,
  kind,          \* what each process is
  phase,         \* what it does next
  key,           \* the identity it holds
  clients,       \* the phones its KnownClients holds
  kills,
  met,           \* history: a daemon began while another process had one
  crossed,       \* history: two processes made an identity at once
  trusted,       \* history: the keys phones have paired with
  let            \* history: the phones that were let in

files == <<dir, identity, identityTmp, known, lock, lockTmp>>
procs == <<kind, phase, key, clients>>
history == <<met, crossed, trusted, let>>
vars == <<files, procs, kills, history>>

Phases == {"none", "home", "move", "check", "identity", "keyTmp", "key", "load", "lockTmp",
           "lock", "up", "stopping", "offer", "window", "told", "failed", "gone"}

\* Between its first file operation and its end a process may hold a daemon.
Serves(p) == phase[p] \in {"up", "stopping"}
Starts(p) == phase[p] \in {"lockTmp", "lock"}
Alive(p) == phase[p] \notin {"none", "failed", "gone", "told"}

TypeOK ==
  /\ dir \in {"none", "legacy", "there"}
  /\ {identity, identityTmp, lock, lockTmp} \subseteq Procs \cup {0}
  /\ known \subseteq Phones /\ trusted \subseteq Procs /\ let \subseteq Phones
  /\ kind \in [Procs -> {"app", "up", "pair"}] /\ phase \in [Procs -> Phases]
  /\ key \in [Procs -> Procs \cup {0}] /\ clients \in [Procs -> SUBSET Phones]
  /\ \A p \in Procs : Serves(p) => key[p] # 0
  /\ \A p, q \in Procs : kind[p] = "app" /\ kind[q] = "app" /\ Alive(p) /\ Alive(q) => p = q

\* A fresh install, one from before the rename, or one that has run.
Init ==
  /\ dir \in {"none", "legacy", "there"}
  /\ identity = IF dir = "none" THEN 0 ELSE MaxProcs
  /\ identityTmp = 0 /\ lockTmp = 0 /\ lock = 0
  /\ known = {} /\ trusted = {} /\ let = {}
  /\ kind = [p \in Procs |-> "up"] /\ phase = [p \in Procs |-> "none"]
  /\ key = [p \in Procs |-> 0] /\ clients = [p \in Procs |-> {}]
  /\ kills = 0 /\ met = FALSE /\ crossed = FALSE

Goto(p, at) == phase' = [phase EXCEPT ![p] = at]

\* Mutant: the process in the lock is not asked whether it is alive.
ActiveLock_Any == lock

\* readActiveDaemonLock: a lock whose process is dead counts as none.
ActiveLock == IF lock # 0 /\ Alive(lock) THEN lock ELSE 0

-----------------------------------------------------------------------------
(* A process begins *)

\* Electron lets one app run at a time.
Launch(p, k) ==
  /\ phase[p] = "none" /\ \A q \in Procs : q < p => phase[q] # "none"
  /\ k = "app" => \A q \in Procs : ~(kind[q] = "app" /\ Alive(q))
  /\ kind' = [kind EXCEPT ![p] = k]
  /\ Goto(p, "home")
  /\ UNCHANGED <<files, key, clients, kills, history>>

AfterHome(p) == IF kind[p] = "app" THEN "check" ELSE "identity"

\* resolveThinkiteHome: where the old directory is there, it is moved next.
ResolveHome(p) ==
  /\ phase[p] = "home"
  /\ Goto(p, IF dir = "legacy" THEN "move" ELSE AfterHome(p))
  /\ dir' = IF dir = "none" THEN "there" ELSE dir
  /\ UNCHANGED <<identity, identityTmp, known, lock, lockTmp, kind, key, clients, kills, history>>

\* migrateLegacyHome: whoever comes second has nothing to rename.
MoveHome(p) ==
  /\ phase[p] = "move"
  /\ dir' = "there"
  /\ Goto(p, IF dir = "legacy" THEN AfterHome(p) ELSE "failed")
  /\ UNCHANGED <<identity, identityTmp, known, lock, lockTmp, kind, key, clients, kills, history>>

\* The app has no daemon of its own where another process has one.
CheckLock(p) ==
  /\ phase[p] = "check"
  /\ Goto(p, IF ActiveLock = 0 THEN "identity" ELSE "window")
  /\ UNCHANGED <<files, kind, key, clients, kills, history>>

-----------------------------------------------------------------------------
(* start() *)

Meets(p) == met \/ \E q \in Procs \ {p} : Serves(q) \/ Starts(q)

AfterIdentity(p) == IF kind[p] = "pair" THEN "offer" ELSE "load"

\* loadOrCreateIdentity.
LoadIdentity(p) ==
  /\ phase[p] = "identity"
  /\ IF identity # 0
     THEN key' = [key EXCEPT ![p] = identity] /\ Goto(p, AfterIdentity(p))
     ELSE key' = [key EXCEPT ![p] = p] /\ Goto(p, "keyTmp")
  /\ UNCHANGED <<files, kind, clients, kills, history>>

WriteIdentity(p) ==
  /\ phase[p] = "keyTmp"
  /\ identityTmp' = key[p] /\ Goto(p, "key")
  /\ crossed' = (crossed \/ \E q \in Procs \ {p} : phase[q] \in {"keyTmp", "key"} \/ identity # 0)
  /\ UNCHANGED <<dir, identity, known, lock, lockTmp, kind, key, clients, kills, met, trusted, let>>

\* The name of the temporary file is shared too.
RenameIdentity(p) ==
  /\ phase[p] = "key"
  /\ IF identityTmp = 0 THEN UNCHANGED <<identity, identityTmp>> /\ Goto(p, "failed")
     ELSE identity' = identityTmp /\ identityTmp' = 0 /\ Goto(p, AfterIdentity(p))
  /\ UNCHANGED <<dir, known, lock, lockTmp, kind, key, clients, kills, history>>

\* KnownClients.load.
LoadClients(p) ==
  /\ phase[p] = "load"
  /\ clients' = [clients EXCEPT ![p] = known] /\ Goto(p, "lockTmp")
  /\ met' = Meets(p)
  /\ UNCHANGED <<files, kind, key, kills, crossed, trusted, let>>

\* writeDaemonLock, and start() is done: nothing asks who holds the lock.
WriteLock(p) ==
  /\ phase[p] = "lockTmp"
  /\ lockTmp' = p /\ Goto(p, "lock")
  /\ met' = Meets(p)
  /\ UNCHANGED <<dir, identity, identityTmp, known, lock, kind, key, clients, kills, crossed,
                 trusted, let>>

RenameLock(p) ==
  /\ phase[p] = "lock"
  /\ IF lockTmp = 0 THEN UNCHANGED <<lock, lockTmp>> /\ Goto(p, "failed")
     ELSE lock' = lockTmp /\ lockTmp' = 0 /\ Goto(p, "up")
  /\ UNCHANGED <<dir, identity, identityTmp, known, kind, key, clients, kills, history>>

-----------------------------------------------------------------------------
(* The daemon runs *)

\* KnownClients.add: the file is the list of the process that writes it.
Pair(p, c) ==
  /\ phase[p] = "up" /\ c \notin clients[p]
  /\ clients' = [clients EXCEPT ![p] = @ \cup {c}]
  /\ known' = clients'[p]
  /\ trusted' = trusted \cup {key[p]} /\ let' = let \cup {c}
  /\ UNCHANGED <<dir, identity, identityTmp, lock, lockTmp, kind, phase, key, kills, met, crossed>>

\* stop(): the lock goes first, whoever wrote it; the peers take a while.
Stop(p) ==
  /\ phase[p] = "up"
  /\ lock' = 0 /\ Goto(p, "stopping")
  /\ UNCHANGED <<dir, identity, identityTmp, known, lockTmp, kind, key, clients, kills, history>>

\* The process exits, and its exit handler deletes the lock once more.
Exit(p) ==
  /\ phase[p] = "stopping"
  /\ lock' = 0 /\ Goto(p, "gone")
  /\ UNCHANGED <<dir, identity, identityTmp, known, lockTmp, kind, key, clients, kills, history>>

\* The app that has no daemon quits.
Quit(p) ==
  /\ phase[p] = "window"
  /\ Goto(p, "gone")
  /\ UNCHANGED <<files, kind, key, clients, kills, history>>

Kill(p) ==
  /\ Alive(p) /\ kills < MaxKills /\ kills' = kills + 1
  /\ Goto(p, "gone")
  /\ UNCHANGED <<files, kind, key, clients, history>>

\* runPairCommand: the offer names the identity, if a daemon is there to take it.
Offer(p) ==
  /\ phase[p] = "offer"
  /\ Goto(p, IF ActiveLock = 0 THEN "failed" ELSE "told")
  /\ UNCHANGED <<files, kind, key, clients, kills, history>>

-----------------------------------------------------------------------------
Next ==
  \E p \in Procs :
    \/ \E k \in {"app", "up", "pair"} : Launch(p, k)
    \/ ResolveHome(p) \/ MoveHome(p) \/ CheckLock(p)
    \/ LoadIdentity(p) \/ WriteIdentity(p) \/ RenameIdentity(p) \/ LoadClients(p)
    \/ WriteLock(p) \/ RenameLock(p)
    \/ \E c \in Phones : Pair(p, c)
    \/ Stop(p) \/ Exit(p) \/ Quit(p) \/ Kill(p) \/ Offer(p)

Spec == Init /\ [][Next]_vars

-----------------------------------------------------------------------------
(* Properties *)

\* What `thinkite pair` and the app go by: who runs a daemon finds its own lock, and
\* no lock names a process that has none.
LockNames ==
  /\ \A p \in Procs : phase[p] = "up" => ActiveLock = p
  /\ ActiveLock # 0 => phase[ActiveLock] = "up"

\* A phone goes on trusting the key it paired with, and the daemon goes on knowing
\* the phone, over every stop, kill and restart.
PairingStays ==
  /\ ~crossed => trusted \subseteq {identity}
  /\ let \subseteq known

\* As long as daemons do not meet in one home, the lock tells who runs and no
\* pairing is lost.  Only the app's check keeps them from meeting: where `thinkite up`
\* runs twice, the first to stop deletes the lock of the other, and the last to let a
\* phone in writes a list without the other's; and an app that starts while `thinkite up`
\* is still stopping finds its lock gone (index.ts:266-267).
HomeKept == ~met => LockNames /\ PairingStays
=============================================================================
