------------------------------- MODULE FaultPanel -------------------------------
(***************************************************************************)
(* The panel that breaks the stand by hand: a screen shows the faults of   *)
(* the simulator by polls through the gateway and puts in and takes away   *)
(* faults; answers of changes and of polls cross, get lost, and other      *)
(* people and the time of a fault change the book meanwhile.               *)
(*                                                                         *)
(* A refusal by the simulator is a change that fails without an effect.    *)
(***************************************************************************)
EXTENDS Integers, FiniteSets

CONSTANTS
  Breakable,    \* faults of the instance: pairs of a target and a kind
  MaxChanges,   \* bound: changes of this screen
  MaxAdded,     \* bound: faults in the book before other people put none in
  MaxLosses     \* bound: failed or unanswered calls

VARIABLES
  acting,    \* the book of the simulator: the number of an active fault, 0 for none
  added,     \* faults put in so far, their numbers
  panel,     \* the faults of the last answer, and how that read ended
  reading,   \* the read under way
  calls,     \* changes under way, by key
  outcome,   \* what the screen says of changes: those refused, and the last one done
  changes, losses

panelVars == <<acting, added, panel, reading, calls, outcome, changes, losses>>

-------------------------------------------------------------------------------
(* Which faults there are. *)

Kinds == {"silent", "crc", "stall", "exception", "offline", "power_dip", "offscale", "door_stuck", "defrost"}
LineOnlyKinds == {"offline", "power_dip"}
DeviceOnlyKinds == {"offscale", "door_stuck", "defrost"}
Targets == {"line", "chamber", "meter"}

(* What the panel offers; the model of a device may not be known to it.    *)
LineFaults == {"offline", "power_dip"}
DeviceFaults(profile) ==
  {"silent", "crc", "stall", "exception", "offscale"} \cup (IF profile = "chamber" THEN {"door_stuck"} ELSE {})
Offered(target, profile) == IF target = "line" THEN LineFaults ELSE DeviceFaults(profile)

(* What the gateway lets through, and what the simulator takes; every      *)
(* model has a measured parameter that can go off its scale.               *)
LabAccepts(target, kind) ==
  /\ kind # "defrost"
  /\ IF target = "line" THEN kind \notin DeviceOnlyKinds ELSE kind \notin LineOnlyKinds
SimTakes(target, kind) == kind \in {"door_stuck", "defrost"} => target = "chamber"

-------------------------------------------------------------------------------
(* The screen. *)

All == <<"all", "all">>
Keys == Breakable \cup {All}

NoCall == [at |-> "none", action |-> "none", number |-> 0]
NoRead == [at |-> "none", got |-> {}]
NothingDone == [action |-> "none", key |-> All, number |-> 0]

Acting == {f \in Breakable : acting[f] > 0}
Entries == {[fault |-> f, number |-> acting[f]] : f \in Acting}

(* The simulator out of sight hides the faults and locks the panel; a      *)
(* switch is locked while its own change is under way, "clear all" also    *)
(* while there is nothing to clear.                                        *)
Known == IF panel.status = "unavailable" THEN {} ELSE {e.fault : e \in panel.entries}
Locked == panel.status = "unavailable" \/ ~panel.hasData
Pending(key) == calls[key].at # "none"
SwitchWorks(key) == key \in Breakable /\ ~Locked /\ ~Pending(key)
ClearAllWorks == ~Locked /\ ~Pending(All) /\ Known # {}

PanelInit ==
  /\ acting = [f \in Breakable |-> 0] /\ added = 0
  /\ panel = [entries |-> {}, hasData |-> FALSE, status |-> "pending"]
  /\ reading = NoRead
  /\ calls = [key \in Keys |-> NoCall]
  /\ outcome = [failures |-> {}, done |-> NothingDone]
  /\ changes = 0 /\ losses = 0

-------------------------------------------------------------------------------
(* The book. *)

Add(f) == added' = added + 1 /\ acting' = [acting EXCEPT ![f] = added + 1]
Clear(key) == acting' = [f \in Breakable |-> IF key \in {f, All} THEN 0 ELSE acting[f]] /\ UNCHANGED added

screen == <<panel, reading, calls, outcome, changes>>

(* Other people, and the time of a fault. *)
OthersChange ==
  /\ \E f \in Breakable : (added < MaxAdded /\ Add(f)) \/ (f \in Acting /\ Clear(f))
  /\ UNCHANGED <<screen, losses>>

-------------------------------------------------------------------------------
(* Changes. *)

(* A switch shows its fault and asks for the other state. *)
Asked(action, key) ==
  CASE action = "inject" -> SwitchWorks(key) /\ key \notin Known
    [] action = "clear" -> SwitchWorks(key) /\ key \in Known
    [] action = "clearAll" -> key = All /\ ClearAllWorks

Change(action, key) ==
  /\ changes < MaxChanges /\ changes' = changes + 1
  /\ Asked(action, key)
  /\ calls' = [calls EXCEPT ![key] = [NoCall EXCEPT !.at = "sent", !.action = action]]
  /\ outcome' = [outcome EXCEPT !.failures = @ \ {key}]
  /\ UNCHANGED <<acting, added, panel, reading, losses>>

(* The simulator does it; of a removal the numbers given out so far are    *)
(* kept, for the properties.                                               *)
Serve(key) ==
  /\ calls[key].at = "sent"
  /\ IF calls[key].action = "inject" THEN Add(key) ELSE Clear(key)
  /\ calls' = [calls EXCEPT ![key].at = "served", ![key].number = added']
  /\ UNCHANGED <<panel, reading, outcome, changes, losses>>

FaultsAfter(key) ==
  LET rest == {e \in panel.entries : key \notin {e.fault, All}}
  IN  IF calls[key].action = "inject" THEN rest \cup {[fault |-> key, number |-> calls[key].number]} ELSE rest

(* The read under way is given up for a new one. *)
ReadAnew == [NoRead EXCEPT !.at = "asked"]

(* A change stays under way until the read it asks for ends or is given up *)
(* for another one.                                                        *)
Settled == [key \in Keys |-> IF calls[key].at = "settling" THEN NoCall ELSE calls[key]]

Succeed(key) ==
  /\ calls[key].at = "served"
  /\ outcome' = [failures |-> outcome.failures \ {key},
                 done |-> [action |-> calls[key].action, key |-> key, number |-> calls[key].number]]
  /\ panel' = [panel EXCEPT !.entries = FaultsAfter(key), !.status = "ready"]
  /\ reading' = ReadAnew
  /\ calls' = [Settled EXCEPT ![key].at = "settling"]
  /\ UNCHANGED <<acting, added, changes, losses>>

(* Refused, out of time, or the answer is lost. *)
Fails(key) ==
  /\ calls[key].at \in {"sent", "served"} /\ losses < MaxLosses /\ losses' = losses + 1
  /\ outcome' = [outcome EXCEPT !.failures = @ \cup {key}]
  /\ calls' = [calls EXCEPT ![key] = NoCall]
  /\ UNCHANGED <<acting, added, panel, reading, changes>>

Dismiss(key) ==
  /\ key \in outcome.failures
  /\ outcome' = [outcome EXCEPT !.failures = @ \ {key}]
  /\ UNCHANGED <<acting, added, panel, reading, calls, changes, losses>>

-------------------------------------------------------------------------------
(* Reads: the poll of the list, one at a time. *)

Poll ==
  /\ reading.at = "none" /\ reading' = ReadAnew
  /\ UNCHANGED <<acting, added, panel, calls, outcome, changes, losses>>

ReadServed ==
  /\ reading.at = "asked" /\ reading' = [at |-> "served", got |-> Entries]
  /\ UNCHANGED <<acting, added, panel, calls, outcome, changes, losses>>

ReadArrives ==
  /\ reading.at = "served" /\ reading' = NoRead
  /\ panel' = [entries |-> reading.got, hasData |-> TRUE, status |-> "ready"]
  /\ calls' = Settled
  /\ UNCHANGED <<acting, added, outcome, changes, losses>>

(* 503 of the gateway says that the simulator is out of sight; any other   *)
(* error keeps the faults on the screen.                                   *)
ReadFails ==
  /\ reading.at # "none" /\ reading' = NoRead
  /\ losses < MaxLosses /\ losses' = losses + 1
  /\ \E status \in {"unavailable", "error"} : panel' = [panel EXCEPT !.status = status]
  /\ calls' = Settled
  /\ UNCHANGED <<acting, added, outcome, changes>>

ChangeMoves(key) == Serve(key) \/ Succeed(key)
ReadMoves == Poll \/ ReadServed \/ ReadArrives

PanelNext ==
  \/ OthersChange \/ ReadMoves \/ ReadFails
  \/ \E key \in Keys :
       \/ \E action \in {"inject", "clear", "clearAll"} : Change(action, key)
       \/ ChangeMoves(key) \/ Fails(key) \/ Dismiss(key)

-------------------------------------------------------------------------------
(* Properties. *)

(* Whatever the panel offers for a device or a line is taken by the        *)
(* gateway and by the simulator, whether or not the model of the device is *)
(* known to the panel (deviceFaults, labFaultRequestSchema, applyFault).   *)
OfferedIsTaken ==
  \A target \in Targets, profile \in {"unknown", "itself"}, kind \in Kinds :
    kind \in Offered(target, IF profile = "itself" THEN target ELSE profile) =>
      LabAccepts(target, kind) /\ SimTakes(target, kind)

(* What the screen announces as done is what it shows, until somebody      *)
(* undoes it: no read that began before brings back the state before       *)
(* (onSuccess of useFaultActions, useLabFaults).                           *)
DoneIsShown ==
  LET done == outcome.done
  IN  panel.status = "ready" =>
        /\ done.action = "inject" /\ acting[done.key] = done.number => done.key \in Known
        /\ done.action \in {"clear", "clearAll"} =>
             \A e \in panel.entries : done.key \in {e.fault, All} => e.number > done.number

PanelIsSound == OfferedIsTaken /\ DoneIsShown

(* Every change ends on the screen, and the screen shows the faults that   *)
(* act.                                                                    *)
PanelIsTrue == Known = Acting /\ \A key \in Keys : ~Pending(key)
===============================================================================
