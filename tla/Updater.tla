------------------------------- MODULE Updater -------------------------------
(***************************************************************************)
(* The desktop app's updates (desktop/server/updater.ts): checks, the      *)
(* download, the restart that installs it, the record kept across that     *)
(* restart, and the dialogs a check the user asked for is answered with.   *)
(*                                                                         *)
(* electron-updater, which checks and downloads one at a time, and the     *)
(* system's installer are external.                                        *)
(***************************************************************************)
EXTENDS Naturals, FiniteSets

CONSTANTS
  Versions,      \* the versions there are, in order
  MaxChecks,     \* bound: checks
  MaxRestarts,   \* bound: restarts asked for
  MaxFaults,     \* bound: checks, downloads, installs and writes that fail
  MaxQuits       \* bound: times the app ends

UpdaterBounds ==
  /\ Versions \subseteq Nat \ {0} /\ MaxChecks \in Nat /\ MaxRestarts \in Nat
  /\ MaxFaults \in Nat /\ MaxQuits \in Nat

Restarts == 1 .. MaxRestarts

VARIABLES
  status, version,   \* state; version is 0 where the state has none
  interactive,       \* interactiveCheck: a check of the user's is unanswered
  record,            \* update-pending.json: a version, 0 if there is none
  notApplied,        \* the version an earlier restart did not install
  timers,            \* the restarts whose deadline is running
  target,            \* the version each restart is to install
  quitting,          \* before-quit-for-update has come
  app,               \* the version that runs
  checking,          \* electron-updater: a check is under way
  fetching,          \* the version it downloads, 0 if none
  fetched,           \* the version it has downloaded, 0 if none
  installing,        \* the installer is at work on a restart
  checks, restarts, failures, quits,
  failed,            \* history: the version the app quit to install and has not become
  taken,             \* history: the record went while the installer was at work
  dropped,           \* history: a check failed after the download
  unwritten          \* history: the record of the last restart could not be written

stateVars == <<status, version, interactive>>
restartVars == <<record, notApplied, timers, target, quitting>>
externalVars == <<app, checking, fetching, fetched, installing>>
historyVars == <<failed, taken, dropped, unwritten>>
boundVars == <<checks, restarts, failures, quits>>
vars == <<stateVars, restartVars, externalVars, boundVars, historyVars>>

TypeOK ==
  /\ status \in {"checking", "up-to-date", "downloading", "downloaded", "installing", "error"}
  /\ {version, record, notApplied, fetching, fetched, failed} \subseteq Versions \cup {0}
  /\ app \in Versions /\ timers \subseteq Restarts /\ target \in [Restarts -> Versions \cup {0}]
  /\ {interactive, quitting, checking, installing, taken, dropped, unwritten} \subseteq BOOLEAN
  /\ status \in {"downloading", "downloaded", "installing"} => version # 0
  /\ status \in {"checking", "up-to-date"} => version = 0

Set(s, v) == status' = s /\ version' = v
Fault == failures < MaxFaults /\ failures' = failures + 1

\* initUpdater ends with a check; the app is the first version.
Init ==
  /\ status = "checking" /\ version = 0 /\ interactive = FALSE
  /\ record = 0 /\ notApplied = 0 /\ timers = {} /\ target = [r \in Restarts |-> 0]
  /\ quitting = FALSE
  /\ app \in {v \in Versions : \A w \in Versions : v <= w}
  /\ checking = TRUE /\ fetching = 0 /\ fetched = 0 /\ installing = FALSE
  /\ checks = 0 /\ restarts = 0 /\ failures = 0 /\ quits = 0
  /\ failed = 0 /\ taken = FALSE /\ dropped = FALSE /\ unwritten = FALSE

-----------------------------------------------------------------------------
(* Checks and downloads: their events come until the app has gone, and so while it drains *)

\* checkForUpdates, hourly or asked for: one that is under way answers both.
Check(byUser) ==
  /\ checks < MaxChecks /\ checks' = checks + 1
  /\ interactive' = (interactive \/ byUser)
  /\ checking' = TRUE
  /\ IF checking THEN UNCHANGED <<status, version>> ELSE Set("checking", 0)
  /\ UNCHANGED <<restartVars, app, fetching, fetched, installing, restarts, failures, quits,
                 historyVars>>

\* update-not-available: who asked is told.
NoneFound ==
  /\ checking /\ checking' = FALSE /\ fetching = 0 /\ fetched = 0
  /\ Set("up-to-date", 0) /\ interactive' = FALSE
  /\ UNCHANGED <<restartVars, app, fetching, fetched, installing, boundVars, historyVars>>

\* update-available: it is downloaded right away; who asked is told then.
Found(v) ==
  /\ checking /\ checking' = FALSE
  /\ v > app /\ v >= fetched /\ fetching \in {0, v}
  /\ Set("downloading", v) /\ fetching' = v
  /\ UNCHANGED <<interactive, restartVars, app, fetched, installing, boundVars, historyVars>>

\* download-progress shows through whatever was set meanwhile.
Progress ==
  /\ fetching # 0
  /\ Set("downloading", fetching)
  /\ UNCHANGED <<interactive, restartVars, externalVars, boundVars, historyVars>>

\* update-downloaded: who asked is offered the restart.
Downloaded ==
  /\ fetching # 0
  /\ Set("downloaded", fetching) /\ interactive' = FALSE
  /\ fetched' = fetching /\ fetching' = 0 /\ dropped' = FALSE
  /\ UNCHANGED <<restartVars, app, checking, installing, boundVars, failed, taken,
                 unwritten>>

\* What an error leaves of electron-updater's work.
Ends(what) ==
  /\ what \in {"check", "download", "install"}
  /\ what = "check" => checking
  /\ what = "download" => fetching # 0
  /\ what = "install" => installing
  /\ checking' = (checking /\ what # "check")
  /\ fetching' = IF what = "download" THEN 0 ELSE fetching
  /\ installing' = (installing /\ what # "install")

\* Mutant: an error answers nobody.
Failed_Silent(what) ==
  /\ Fault /\ Ends(what)
  /\ Set("error", IF status \in {"installing", "downloaded"} THEN version ELSE 0)
  /\ record' = IF status = "installing" THEN 0 ELSE record
  /\ taken' = (taken \/ (status = "installing" /\ (what # "install" \/ quitting)))
  /\ dropped' = (dropped \/ version' = 0)
  /\ UNCHANGED <<interactive, notApplied, timers, target, quitting, app, fetched, checks, restarts,
                 quits, failed, unwritten>>

\* error: of an install the download is kept, and the record is not.
Failed(what) ==
  /\ Fault /\ Ends(what)
  /\ Set("error", IF status \in {"installing", "downloaded"} THEN version ELSE 0)
  /\ record' = IF status = "installing" THEN 0 ELSE record
  /\ interactive' = FALSE
  /\ taken' = (taken \/ (status = "installing" /\ (what # "install" \/ quitting)))
  /\ dropped' = (dropped \/ version' = 0)
  /\ UNCHANGED <<notApplied, timers, target, quitting, app, fetched, checks, restarts, quits,
                 failed, unwritten>>

-----------------------------------------------------------------------------
(* The restart *)

\* readyVersion: what the window and the menu offer to install.
Ready == IF status \in {"downloaded", "error"} THEN version ELSE 0

\* quitAndInstall: the record is written and the deadline set.  A write that fails is
\* let go of, and leaves what was there or a file that cannot be read.
QuitAndInstall ==
  /\ restarts < MaxRestarts /\ restarts' = restarts + 1
  /\ Ready # 0
  /\ Set("installing", Ready)
  /\ \/ record' = Ready /\ unwritten' = FALSE /\ UNCHANGED failures
     \/ Fault /\ record' \in {record, 0} /\ unwritten' = TRUE
  /\ timers' = timers \cup {restarts + 1}
  /\ target' = [target EXCEPT ![restarts + 1] = Ready]
  /\ installing' = TRUE /\ taken' = FALSE /\ failed' = 0
  /\ UNCHANGED <<interactive, notApplied, quitting, app, checking, fetching, fetched, checks,
                 quits, dropped>>

\* The restart did not start in time.  The deadline of one that failed runs on, and
\* may end the next; one that is late may still begin.  None comes in a drain, which
\* is the shorter.
Deadline(r) ==
  /\ ~quitting /\ r \in timers /\ timers' = timers \ {r}
  /\ Set("error", target[r]) /\ record' = 0
  /\ taken' = (taken \/ installing)
  /\ UNCHANGED <<interactive, notApplied, target, quitting, externalVars, boundVars, failed,
                 dropped, unwritten>>

\* before-quit-for-update: the restart has begun, and the app drains (before-quit).
QuitBegins ==
  /\ installing
  /\ timers' = {} /\ quitting' = TRUE
  /\ UNCHANGED <<stateVars, record, notApplied, target, externalVars, boundVars, historyVars>>

\* readPending, of an app that comes back as v: the record goes if it came true.
ReadPending(v) ==
  /\ notApplied' = IF record # v THEN record ELSE 0
  /\ record' = IF record = v THEN 0 ELSE record

\* The app ends, for an update or not; what was downloaded is installed, or fails to be.
Boot(v) ==
  /\ quits < MaxQuits /\ quits' = quits + 1
  /\ v \in {app} \cup ({fetched} \ {0}) /\ app' = v
  /\ ReadPending(v)
  /\ failed' = IF quitting /\ ~taken /\ ~unwritten /\ v # target[restarts]
               THEN target[restarts]
               ELSE IF v = failed THEN 0 ELSE failed
  /\ Set("checking", 0) /\ interactive' = FALSE /\ checking' = TRUE
  /\ fetching' = 0 /\ fetched' = 0 /\ timers' = {} /\ quitting' = FALSE
  /\ installing' = FALSE /\ taken' = FALSE /\ dropped' = FALSE /\ unwritten' = FALSE
  /\ UNCHANGED <<target, checks, restarts, failures>>

-----------------------------------------------------------------------------
Next ==
  \/ \E byUser \in BOOLEAN : Check(byUser)
  \/ NoneFound \/ Progress \/ Downloaded \/ QuitAndInstall \/ QuitBegins
  \/ \E v \in Versions : Found(v) \/ Boot(v)
  \/ \E what \in {"check", "download", "install"} : Failed(what)
  \/ \E r \in timers : Deadline(r)

Spec == Init /\ [][Next]_vars

-----------------------------------------------------------------------------
(* Properties *)

\* "past this, say so instead of spinning": while the window says it restarts, the
\* restart has begun or its deadline is still to come.
NoSpin == status = "installing" => timers # {} \/ quitting

\* "a USER-initiated check must always answer with visible UI": none is left
\* unanswered when nothing is under way, whichever check or download ended it.
Answered == ~checking /\ fetching = 0 => ~interactive

\* A restart that came back without its update is told, and an update is not told that
\* has been installed.  What goes unnoticed, and is excused: a record that could not be
\* written ("Without the record a failed install just goes unnoticed"), and one that a
\* deadline, its own or an earlier one's, or an error had taken.
NotAppliedTold == (failed # 0 => notApplied = failed) /\ notApplied # app

\* A download is offered, unless a check failed since, and nothing is offered that
\* is not there.
Offered ==
  /\ Ready # 0 => fetched # 0
  /\ ~checking /\ fetching = 0 /\ timers = {} /\ ~quitting /\ ~dropped => (fetched # 0 => Ready # 0)

\* What the window and the dialogs say of an update is so.
UpdateTold == NoSpin /\ Answered /\ NotAppliedTold /\ Offered
=============================================================================
