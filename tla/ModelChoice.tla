---------------------------- MODULE ModelChoice ----------------------------
(***************************************************************************)
(* The model picker of one session, on the phone (app/hooks/               *)
(* use-model-choice.ts) and in the desktop's window (its session route):   *)
(* a pick shows at once and switches the session, the service tells every  *)
(* client, and the pick is to give way to the session's own model.  A      *)
(* choice is a model and its variant.                                      *)
(***************************************************************************)
EXTENDS Naturals, Sequences, FiniteSets

CONSTANTS
  Models,
  None,
  MaxSwitches,   \* bound: switches the two ask for
  MaxFaults,     \* bound: failed requests and dropped streams
  MaxVisits      \* bound: times a composer is left

Clients == {"phone", "desktop"}

ModelChoiceBounds ==
  /\ None \notin Models \cup Clients /\ Models # {}
  /\ {MaxSwitches, MaxFaults, MaxVisits} \subseteq Nat

VARIABLES
  model,         \* the session's model, at the service
  bus,           \* per client: model.selected events on their way
  row,           \* per client: session.info's model
  pick,          \* per client: the pick that shows in its place
  onScreen,      \* per client: is the session's composer on screen
  sends,         \* requests to switch
  switches, losses, visits,
  passed         \* history, per client: the session's model went past the pick

clientVars == <<row, pick, onScreen, passed>>
vars == <<model, bus, clientVars, sends, switches, losses, visits>>

\* A request: who made it, the pick it found, and what became of it.
Sends == [id : 1 .. MaxSwitches, by : Clients \cup {None}, to : Models,
          was : Models \cup {None}, at : {"out", "done", "failed"}]

TypeOK ==
  /\ model \in Models /\ row \in [Clients -> Models]
  /\ pick \in [Clients -> Models \cup {None}]
  /\ \A c \in Clients : bus[c] \in Seq(Models)
  /\ onScreen \in [Clients -> BOOLEAN] /\ passed \in [Clients -> BOOLEAN]
  /\ sends \subseteq Sends
  /\ \A c \in Clients : passed[c] => pick[c] # None

Init ==
  /\ model \in Models
  /\ row = [c \in Clients |-> model] /\ bus = [c \in Clients |-> <<>>]
  /\ pick = [c \in Clients |-> None] /\ passed = [c \in Clients |-> FALSE]
  /\ onScreen = [c \in Clients |-> TRUE]
  /\ sends = {} /\ switches = 0 /\ losses = 0 /\ visits = 0

\* What the composer shows.
Shown(c) == IF pick[c] # None THEN pick[c] ELSE row[c]

-----------------------------------------------------------------------------
(* A client *)

\* pickModel, switchTo: the pick shows, the one it replaces is kept for a failure.
Switch(c, m) ==
  /\ onScreen[c] /\ switches < MaxSwitches /\ m # Shown(c)
  /\ switches' = switches + 1
  /\ pick' = [pick EXCEPT ![c] = m] /\ passed' = [passed EXCEPT ![c] = FALSE]
  /\ sends' = sends \cup {[id |-> switches', by |-> c, to |-> m, was |-> pick[c], at |-> "out"]}
  /\ UNCHANGED <<model, bus, row, onScreen, losses, visits>>

\* Mutant: a switch that failed leaves its pick on screen.
Answer_Kept(s) ==
  /\ s.at # "out"
  /\ sends' = sends \ {s}
  /\ UNCHANGED <<pick, passed>>
  /\ UNCHANGED <<model, bus, row, onScreen, switches, losses, visits>>

\* A failure puts back the pick that was there, whatever was picked since.
Answer(s) ==
  /\ s.at # "out"
  /\ sends' = sends \ {s}
  /\ IF s.at = "failed" /\ s.by # None
     THEN /\ pick' = [pick EXCEPT ![s.by] = s.was]
          /\ passed' = [passed EXCEPT ![s.by] = s.was \notin {None, row[s.by]}]
     ELSE UNCHANGED <<pick, passed>>
  /\ UNCHANGED <<model, bus, row, onScreen, switches, losses, visits>>

\* setModel: the session's row takes the model the event names.
Fold(c) ==
  /\ bus[c] # <<>>
  /\ row' = [row EXCEPT ![c] = Head(bus[c])] /\ bus' = [bus EXCEPT ![c] = Tail(@)]
  /\ passed' = [passed EXCEPT ![c] = pick[c] \notin {None, row'[c]} /\ (@ \/ row[c] = pick[c])]
  /\ UNCHANGED <<model, pick, onScreen, sends, switches, losses, visits>>

\* useModelChoice's effect: the service has the pick, the session's model shows.
Confirm ==
  /\ onScreen["phone"] /\ pick["phone"] # None /\ pick["phone"] = row["phone"]
  /\ pick' = [pick EXCEPT !["phone"] = None]
  /\ UNCHANGED <<model, bus, row, onScreen, sends, switches, losses, visits, passed>>

\* The composer is left: the desktop's pick goes with it, the phone's stays.
Leave(c) ==
  /\ onScreen[c] /\ visits < MaxVisits /\ visits' = visits + 1
  /\ onScreen' = [onScreen EXCEPT ![c] = FALSE]
  /\ IF c = "desktop"
     THEN /\ pick' = [pick EXCEPT ![c] = None] /\ passed' = [passed EXCEPT ![c] = FALSE]
          /\ sends' = {IF s.by = c THEN [s EXCEPT !.by = None] ELSE s : s \in sends}
     ELSE UNCHANGED <<pick, passed, sends>>
  /\ UNCHANGED <<model, bus, row, switches, losses>>

Enter(c) ==
  /\ ~onScreen[c]
  /\ onScreen' = [onScreen EXCEPT ![c] = TRUE]
  /\ UNCHANGED <<model, bus, row, pick, passed, sends, switches, losses, visits>>

\* The stream drops and is back: the sessions are read again.
Reread(c) ==
  /\ losses < MaxFaults /\ losses' = losses + 1
  /\ bus' = [bus EXCEPT ![c] = <<>>] /\ row' = [row EXCEPT ![c] = model]
  /\ passed' = [passed EXCEPT ![c] = pick[c] \notin {None, model}]
  /\ UNCHANGED <<model, pick, onScreen, sends, switches, visits>>

-----------------------------------------------------------------------------
(* The service *)

Turn(s, at) == sends' = (sends \ {s}) \cup {[s EXCEPT !.at = at]}

\* A request is handled, in any order, and every client is told.
Handle(s) ==
  /\ s.at = "out"
  /\ model' = s.to /\ bus' = [c \in Clients |-> Append(bus[c], s.to)]
  /\ \/ Turn(s, "done") /\ UNCHANGED losses
     \/ Turn(s, "failed") /\ losses < MaxFaults /\ losses' = losses + 1   \* its answer is lost
  /\ UNCHANGED <<clientVars, switches, visits>>

\* A request is refused, or never arrives.
Refuse(s) ==
  /\ s.at = "out" /\ losses < MaxFaults /\ losses' = losses + 1
  /\ Turn(s, "failed")
  /\ UNCHANGED <<model, bus, clientVars, switches, visits>>

Next ==
  \/ Confirm
  \/ \E c \in Clients : Fold(c) \/ Leave(c) \/ Enter(c) \/ Reread(c)
  \/ \E c \in Clients, m \in Models : Switch(c, m)
  \/ \E s \in sends : Answer(s) \/ Handle(s) \/ Refuse(s)

Spec == Init /\ [][Next]_vars

-----------------------------------------------------------------------------
(* Properties *)

Quiet == /\ sends = {} /\ bus = [c \in Clients |-> <<>>]
         /\ ~(onScreen["phone"] /\ pick["phone"] = row["phone"])

\* Once every request is answered and every event folded, both clients show the model
\* the session runs on, unless its model went past their pick: the phone's while it was
\* not looking or by a failure's doing, the desktop's by any later switch of another's.
ModelShown == Quiet => \A c \in Clients : onScreen[c] /\ ~passed[c] => Shown(c) = model
=============================================================================
