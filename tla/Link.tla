------------------------------- MODULE Link -------------------------------
(***************************************************************************)
(* What the phone's link promises the screens above it, without wires,     *)
(* runs, timers or the key store: DaemonClientProvider seen through its    *)
(* status and the transport it hands out                                   *)
(* (app/src/lib/daemon-client-context.tsx).  PhoneLink implements it.      *)
(*                                                                         *)
(* Commands are numbered; a connection has the number of the command that  *)
(* made it.                                                                *)
(***************************************************************************)
EXTENDS Naturals

VARIABLES
  latest,        \* the latest command
  conn,          \* the connection in the screens' hands, 0 if none
  service        \* "up"; "owed": it will be; "none": the user has to act

vars == <<latest, conn, service>>

Init ==
  /\ latest = 1
  /\ conn = 0
  /\ service = "none"

\* A command of the user, or a retry.  It keeps the connection or drops it.
Command ==
  /\ latest' = latest + 1
  /\ conn' \in {0, conn}
  /\ \/ service' \in {"none", "owed"}
     \/ service = "up" /\ service' = "up" /\ conn' = conn

\* The latest command has a connection, which is new to the screens.  It may
\* have been lost on its way to them.
Attach ==
  /\ conn # latest
  /\ conn' = latest
  /\ service' \in {"none", "owed", "up"}
  /\ UNCHANGED latest

\* A connection is lost, a recovery is given up, or one is promised.
Change ==
  /\ service' \in {"none", "owed"} \ {service}
  /\ UNCHANGED <<latest, conn>>

\* The app is killed and opened again.
Restart ==
  /\ latest' = 1
  /\ conn' = 0
  /\ service' = "none"

Next == Command \/ Attach \/ Change \/ Restart

\* A recovery that is owed ends: in a connection, or in asking the user.
Recovery == Next /\ service = "owed" /\ service' # "owed"

Safe == Init /\ [][Next]_vars

Spec == Safe /\ WF_vars(Recovery)

=============================================================================
