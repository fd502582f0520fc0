------------------------------- MODULE Scenarios -------------------------------
(***************************************************************************)
(* A scenario run of the stand: the gateway writes it to                   *)
(* core.scenario_run, plays its steps in the background, injects faults    *)
(* into the simulator, removes them whatever happens and writes the        *)
(* outcome.  The runner beats; any gateway closes a run whose beats have   *)
(* stopped; a gateway that stops halts its run first.                      *)
(*                                                                         *)
(* A step that waits (waitFor, hold, baseline) either sees what it wants   *)
(* or fails; which facts it looks at is module Probes.  A deadline is a    *)
(* step that fails.                                                        *)
(*                                                                         *)
(* Sources: scenarios.service.ts, progress-writer.ts, sim-client.service   *)
(* of the gateway, runner.ts of packages/scenarios, db scenarios.ts, the   *)
(* book of faults of device-sim.                                           *)
(***************************************************************************)
EXTENDS Integers, Sequences, FiniteSets

CONSTANTS
  Gateways,    \* processes of api-gateway, by GATEWAY_INSTANCE_ID
  Faults,      \* pairs of a target and a kind
  Scripts,     \* scenarios: sequences of steps [kind, faults]
  MaxRuns,     \* bound: runs created
  MaxMishaps   \* bound: failed or unanswered calls, crashes, shutdowns, pauses

(* The schema wants a step at least.                                       *)
ASSUME ScenarioAssumption ==
  /\ MaxRuns \in Nat /\ MaxMishaps \in Nat
  /\ Scripts \subseteq Seq([kind : {"inject", "clear", "simScenario", "wait"}, faults : SUBSET Faults]) \ {<<>>}

Runs == 1..MaxRuns
NoRun == 0
Nothing == -1

VARIABLES
  row,      \* core.scenario_run
  gate,     \* each gateway: its state and the run its start has created
  exec,     \* the execution of each run: runScenario and its ActiveRun
  book,     \* the book of faults of the stand: who injected an active fault
  mishaps   \* mishaps so far, only bounds the model

vars == <<row, gate, exec, book, mishaps>>

Active(r) == row[r].status \in {"queued", "running"}
Closed(r) == row[r].status \in {"passed", "failed"}

(* Before the `finally` of execute; `settled` comes after it. *)
Unsettled == {"starting", "running", "cleaning"}
Acting(r) == exec[r].at \in Unsettled
Alive(r) == exec[r].at \in Unsettled \cup {"settled"}

NoRow == [status |-> "none", owner |-> Nothing, fresh |-> FALSE, step |-> 0, by |-> "nobody", lost |-> FALSE]

NoExecution ==
  [at |-> "none", script |-> <<>>, done |-> 0, ok |-> TRUE, held |-> {}, left |-> {}, unheard |-> {},
   halted |-> "no", chain |-> <<>>]

TypeOK ==
  /\ row \in [Runs -> [status : {"none", "queued", "running", "passed", "failed"},
                       owner : Gateways \cup {Nothing}, fresh : BOOLEAN, step : Nat,
                       by : {"nobody", "finish", "start", "sweep", "stop"}, lost : BOOLEAN]]
  /\ gate \in [Gateways -> [at : {"down", "booting", "up", "stopping", "halting"},
                            start : Runs \cup {NoRun}]]
  /\ \A r \in Runs :
       /\ exec[r].at \in Unsettled \cup {"none", "settled", "ended", "dead"}
       /\ exec[r].script \in Scripts \cup {<<>>}
       /\ exec[r].done \in 0..Len(exec[r].script)
       /\ exec[r].ok \in BOOLEAN
       /\ exec[r].held \cup exec[r].left \cup exec[r].unheard \subseteq Faults
       /\ exec[r].halted \in {"no", "stopping", "taken", "given up"}
       /\ exec[r].chain \in Seq(0..Len(exec[r].script))
       /\ Alive(r) => row[r].status # "none"
       /\ exec[r].at = "settled" => exec[r].held = {}
  /\ book \in [Faults -> Runs \cup {NoRun}]
  /\ mishaps \in 0..MaxMishaps

Init ==
  /\ row = [r \in Runs |-> NoRow]
  /\ gate = [g \in Gateways |-> [at |-> "up", start |-> NoRun]]
  /\ exec = [r \in Runs |-> NoExecution]
  /\ book = [f \in Faults |-> NoRun]
  /\ mishaps = 0

Mishap == mishaps < MaxMishaps /\ mishaps' = mishaps + 1

(* finishScenarioRun: the WHERE lets a run be closed once. *)
Close(table, r, status, step, by) ==
  IF table[r].status \in {"queued", "running"}
    THEN [table EXCEPT ![r] = [table[r] EXCEPT !.status = status, !.step = step, !.by = by,
                                               !.fresh = FALSE, !.lost = FALSE]]
    ELSE table

(* The executor of a run, or the start that created it, is gone or could   *)
(* not write that the run is over.                                         *)
Lost(rs) == [r \in Runs |-> IF r \in rs /\ Active(r) THEN [row[r] EXCEPT !.lost = TRUE] ELSE row[r]]

-----------------------------------------------------------------------------
(* Abandoned runs. *)

(* Mutant: only the runs of the process before. *)
StaleOwned(owned) == {r \in Runs : Active(r) /\ row[r].owner \in owned}

(* failStaleScenarioRuns: by their beats, and by their owner after a boot. *)
Stale(owned) == {r \in Runs : Active(r) /\ (~row[r].fresh \/ row[r].owner \in owned)}

Swept(rs) ==
  [r \in Runs |-> IF r \in rs THEN [row[r] EXCEPT !.status = "failed", !.by = "sweep",
                                                  !.fresh = FALSE, !.lost = FALSE] ELSE row[r]]

(* The timer of a gateway.  An error is logged and the timer goes on.      *)
Sweep(g) ==
  /\ gate[g].at = "up"
  /\ Stale({}) # {}
  /\ row' = Swept(Stale({}))
  /\ UNCHANGED <<gate, exec, book, mishaps>>

(* A fresh process closes the runs of the one before it, if the database   *)
(* answers.                                                                *)
Boot(g) ==
  /\ gate[g].at = "booting"
  /\ gate' = [gate EXCEPT ![g].at = "up"]
  /\ \/ row' = Swept(Stale({g})) /\ UNCHANGED mishaps
     \/ Mishap /\ UNCHANGED row
  /\ UNCHANGED <<exec, book>>

(* Thirty seconds without a beat.  A living executor is late only when it  *)
(* is suspended or the database refuses its beats for that long.           *)
KeptByStart(r) == \E g \in Gateways : gate[g].start = r

GoesStale(r) ==
  /\ Active(r) /\ row[r].fresh
  /\ row' = [row EXCEPT ![r].fresh = FALSE]
  /\ IF Alive(r) \/ KeptByStart(r) THEN Mishap ELSE UNCHANGED mishaps
  /\ UNCHANGED <<gate, exec, book>>

-----------------------------------------------------------------------------
(* POST scenarios/:name/run. *)

(* The flag of the shutdown, the sweep, the insert.  The unique index      *)
(* turns away a second active run, and nothing but another insert matters  *)
(* between the two statements.  An insert whose answer is lost leaves a    *)
(* run to nobody.                                                          *)
Create(g) ==
  /\ gate[g].at = "up" /\ gate[g].start = NoRun
  /\ Stale({}) = {r \in Runs : Active(r)}
  /\ \E r \in Runs, lost \in BOOLEAN :
       /\ row[r].status = "none" /\ \A q \in Runs : q < r => row[q].status # "none"
       /\ row' = [Swept(Stale({})) EXCEPT
                    ![r] = [NoRow EXCEPT !.status = "queued", !.owner = g, !.fresh = TRUE, !.lost = lost]]
       /\ gate' = [gate EXCEPT ![g].start = IF lost THEN NoRun ELSE r]
       /\ IF lost THEN Mishap ELSE UNCHANGED mishaps
  /\ UNCHANGED <<exec, book>>

(* The flag is looked at again: a stopping gateway closes what it created. *)
Launch(g) ==
  /\ gate[g].start # NoRun
  /\ LET r == gate[g].start IN
       /\ gate' = [gate EXCEPT ![g].start = NoRun]
       /\ \/ /\ gate[g].at = "up"
             /\ \E s \in Scripts : exec' = [exec EXCEPT ![r] = [NoExecution EXCEPT !.at = "starting", !.script = s]]
             /\ UNCHANGED <<row, mishaps>>
          \/ /\ gate[g].at # "up"
             /\ row' = Close(row, r, "failed", 0, "start")
             /\ UNCHANGED <<exec, mishaps>>
          \/ /\ gate[g].at # "up" /\ Mishap
             /\ row' = Lost({r})
             /\ UNCHANGED exec
  /\ UNCHANGED book

-----------------------------------------------------------------------------
(* runScenario: the facts, the steps, the cleaning. *)

Halted(r) == exec[r].halted # "no"
Step(r) == exec[r].script[exec[r].done + 1]

Put(r, e) == exec' = [exec EXCEPT ![r] = e]

Passed(e) ==
  [e EXCEPT !.done = e.done + 1,
            !.at = IF e.done + 1 = Len(e.script) THEN "cleaning" ELSE "running"]
Failed(e) == [e EXCEPT !.ok = FALSE, !.at = "cleaning"]

(* A call of the stand: answered, refused by the halted run, or left       *)
(* without an answer with or without its effect on the book.               *)
Without(fs) == [f \in Faults |-> IF f \in fs THEN NoRun ELSE book[f]]
With(r, fs) == [f \in Faults |-> IF f \in fs THEN r ELSE book[f]]

FirstFacts(r) ==
  /\ exec[r].at = "starting"
  /\ \/ /\ ~Halted(r)
        /\ Put(r, [exec[r] EXCEPT !.at = "running"])
        /\ UNCHANGED mishaps
     \/ /\ Put(r, [exec[r] EXCEPT !.at = "cleaning", !.ok = FALSE])
        /\ IF Halted(r) THEN UNCHANGED mishaps ELSE Mishap
  /\ UNCHANGED <<row, gate, book>>

(* The limit of the run has passed before the step. *)
TooLate(r) ==
  /\ exec[r].at = "running"
  /\ Put(r, Failed(exec[r]))
  /\ UNCHANGED <<row, gate, book, mishaps>>

(* Mutant: the fault is put on the list when the stand has answered. *)
InjectThenNote(r) ==
  /\ exec[r].at = "running" /\ Step(r).kind = "inject"
  /\ LET noted == [exec[r] EXCEPT !.held = exec[r].held \cup Step(r).faults] IN
       \/ /\ ~Halted(r) /\ book' = With(r, Step(r).faults) /\ Put(r, Passed(noted))
          /\ UNCHANGED mishaps
       \/ /\ ~Halted(r) /\ book' \in {book, With(r, Step(r).faults)}
          /\ Mishap /\ Put(r, Failed(exec[r]))
  /\ UNCHANGED <<row, gate>>

(* The fault is put on the list of the cleaning before it is injected,     *)
(* also by a halted run that will not inject it.  When the answer is lost  *)
(* the injection took effect by then or never does.                        *)
Inject(r) ==
  /\ exec[r].at = "running" /\ Step(r).kind = "inject"
  /\ LET noted == [exec[r] EXCEPT !.held = exec[r].held \cup Step(r).faults] IN
       \/ /\ Halted(r) /\ Put(r, Failed(noted))
          /\ UNCHANGED <<book, mishaps>>
       \/ /\ ~Halted(r) /\ book' = With(r, Step(r).faults) /\ Put(r, Passed(noted))
          /\ UNCHANGED mishaps
       \/ /\ ~Halted(r) /\ book' \in {book, With(r, Step(r).faults)}
          /\ Mishap /\ Put(r, Failed(noted))
  /\ UNCHANGED <<row, gate>>

(* Faults may be cleared after the halt too. *)
Clear(r) ==
  /\ exec[r].at = "running" /\ Step(r).kind = "clear"
  /\ \/ /\ book' = Without(Step(r).faults)
        /\ Put(r, Passed([exec[r] EXCEPT !.held = exec[r].held \ Step(r).faults]))
        /\ UNCHANGED mishaps
     \/ /\ book' \in {book, Without(Step(r).faults)}
        /\ Mishap /\ Put(r, Failed(exec[r]))
  /\ UNCHANGED <<row, gate>>

(* Which faults a scenario of the simulator made is known from its answer. *)
SimScenario(r) ==
  /\ exec[r].at = "running" /\ Step(r).kind = "simScenario"
  /\ \/ /\ Halted(r) /\ Put(r, Failed(exec[r]))
        /\ UNCHANGED <<book, mishaps>>
     \/ /\ ~Halted(r) /\ book' = With(r, Step(r).faults)
        /\ Put(r, Passed([exec[r] EXCEPT !.held = exec[r].held \cup Step(r).faults]))
        /\ UNCHANGED mishaps
     \/ /\ ~Halted(r) /\ Mishap
        /\ \/ book' = book /\ Put(r, Failed(exec[r]))
           \/ /\ book' = With(r, Step(r).faults)
              /\ Put(r, Failed([exec[r] EXCEPT !.unheard = Step(r).faults]))
  /\ UNCHANGED <<row, gate>>

(* waitFor, hold, baseline: a halted run gets no facts and no sleep.       *)
Wait(r) ==
  /\ exec[r].at = "running" /\ Step(r).kind = "wait"
  /\ \/ ~Halted(r) /\ Put(r, Passed(exec[r]))
     \/ Put(r, Failed(exec[r]))
  /\ UNCHANGED <<row, gate, book, mishaps>>

CleanOne(r) ==
  /\ exec[r].at = "cleaning"
  /\ \E f \in exec[r].held :
       \/ /\ book' = Without({f})
          /\ Put(r, [exec[r] EXCEPT !.held = exec[r].held \ {f}])
          /\ UNCHANGED mishaps
       \/ /\ book' \in {book, Without({f})} /\ Mishap
          /\ Put(r, [exec[r] EXCEPT !.held = exec[r].held \ {f}, !.left = exec[r].left \cup {f}, !.ok = FALSE])
  /\ UNCHANGED <<row, gate>>

(* The run is over: no beats, no halt, no new snapshots of its progress.   *)
Settle(r) ==
  /\ exec[r].at = "cleaning" /\ exec[r].held = {}
  /\ Put(r, [exec[r] EXCEPT !.at = "settled"])
  /\ UNCHANGED <<row, gate, book, mishaps>>

Ended(e) == [NoExecution EXCEPT !.at = "ended", !.left = e.left, !.unheard = e.unheard]

(* Mutant: the WHERE of the outcome does not look at the status. *)
FinishAgain(r) ==
  /\ exec[r].at = "settled" /\ exec[r].chain = <<>>
  /\ Put(r, Ended(exec[r]))
  /\ row' = [row EXCEPT ![r].status = IF exec[r].ok THEN "passed" ELSE "failed",
                        ![r].step = exec[r].done, ![r].by = "finish"]
  /\ UNCHANGED <<gate, book, mishaps>>

(* The outcome, in three attempts that all fail or not. *)
Finish(r) ==
  /\ exec[r].at = "settled" /\ exec[r].chain = <<>>
  /\ Put(r, Ended(exec[r]))
  /\ \/ /\ row' = Close(row, r, IF exec[r].ok THEN "passed" ELSE "failed", exec[r].done, "finish")
        /\ UNCHANGED mishaps
     \/ Mishap /\ row' = Lost({r})
  /\ UNCHANGED <<gate, book>>

-----------------------------------------------------------------------------
(* The beats and the progress. *)

Mine(r) == Active(r)   \* and instance_id: an id of a run is never created twice

(* halt: the first reason stays, a settled run is not halted. *)
HaltedFor(r, reason) ==
  IF Acting(r) /\ ~Halted(r) THEN [exec[r] EXCEPT !.halted = reason] ELSE exec[r]

Beat(r) ==
  /\ Acting(r)
  /\ IF Mine(r) THEN row' = [row EXCEPT ![r].fresh = TRUE] /\ UNCHANGED exec
     ELSE Put(r, HaltedFor(r, "taken")) /\ UNCHANGED row
  /\ UNCHANGED <<gate, book, mishaps>>

(* The writer of the progress: the snapshots of an interval collapse into  *)
(* the last one, which joins the chain of writes.                          *)
Shown(r) ==
  IF exec[r].chain # <<>> THEN exec[r].chain[Len(exec[r].chain)]
  ELSE IF row[r].status = "queued" THEN Nothing ELSE row[r].step

Flush(r) ==
  /\ exec[r].at \in {"running", "cleaning"} /\ Shown(r) # exec[r].done
  /\ Put(r, [exec[r] EXCEPT !.chain = Append(exec[r].chain, exec[r].done)])
  /\ UNCHANGED <<row, gate, book, mishaps>>

(* One write after another; an error is logged and drops its snapshot.     *)
Write(r) ==
  /\ Alive(r) /\ exec[r].chain # <<>>
  /\ LET e == HaltedFor(r, IF Mine(r) THEN "no" ELSE "taken") IN
       \/ /\ Put(r, [e EXCEPT !.chain = Tail(exec[r].chain)])
          /\ row' = IF Mine(r) THEN [row EXCEPT ![r].status = "running", ![r].step = Head(exec[r].chain), ![r].fresh = TRUE]
                    ELSE row
          /\ UNCHANGED mishaps
       \/ /\ Mishap
          /\ Put(r, [exec[r] EXCEPT !.chain = Tail(exec[r].chain)])
          /\ UNCHANGED row
  /\ UNCHANGED <<gate, book>>

-----------------------------------------------------------------------------
(* The life of a gateway. *)

OwnedBy(g) == {r \in Runs : row[r].owner = g}

(* onModuleDestroy: no new start from here on. *)
Shutdown(g) ==
  /\ gate[g].at = "up" /\ Mishap
  /\ gate' = [gate EXCEPT ![g].at = "stopping"]
  /\ UNCHANGED <<row, exec, book>>

(* beforeApplicationShutdown: the runs under way are halted and awaited.   *)
HaltAll(g) ==
  /\ gate[g].at = "stopping"
  /\ gate' = [gate EXCEPT ![g].at = "halting"]
  /\ exec' = [r \in Runs |-> IF r \in OwnedBy(g) THEN HaltedFor(r, "stopping") ELSE exec[r]]
  /\ UNCHANGED <<row, book, mishaps>>

Awaited(g) ==
  {r \in OwnedBy(g) : Alive(r) /\ (exec[r].at = "settled" \/ Halted(r)) /\ exec[r].halted # "given up"}

(* The cleaning is not over in time: the outcome is written without it. *)
GiveUp(g) ==
  /\ gate[g].at = "halting"
  /\ \E r \in Awaited(g) :
       /\ Put(r, [exec[r] EXCEPT !.halted = "given up"])
       /\ \/ row' = Close(row, r, "failed", exec[r].done, "stop") /\ UNCHANGED mishaps
          \/ Mishap /\ row' = Lost({r})
  /\ UNCHANGED <<gate, book>>

Killed(g) == [r \in Runs |-> IF r \in OwnedBy(g) /\ Alive(r) THEN [NoExecution EXCEPT !.at = "dead"] ELSE exec[r]]

(* The HTTP server closes when the start it serves has been answered.      *)
Exit(g) ==
  /\ gate[g].at = "halting" /\ gate[g].start = NoRun /\ Awaited(g) = {}
  /\ gate' = [gate EXCEPT ![g].at = "down"]
  /\ exec' = Killed(g)
  /\ UNCHANGED <<row, book, mishaps>>

Crash(g) ==
  /\ gate[g].at # "down" /\ Mishap
  /\ gate' = [gate EXCEPT ![g] = [at |-> "down", start |-> NoRun]]
  /\ exec' = Killed(g)
  /\ row' = Lost(OwnedBy(g))
  /\ UNCHANGED book

Restart(g) ==
  /\ gate[g].at = "down"
  /\ gate' = [gate EXCEPT ![g].at = "booting"]
  /\ UNCHANGED <<row, exec, book, mishaps>>

(* A fault lives for its ttlSec. *)
Expire(f) ==
  /\ book[f] # NoRun
  /\ book' = Without({f})
  /\ UNCHANGED <<row, gate, exec, mishaps>>

-----------------------------------------------------------------------------
RunnerStep(r) ==
  \/ FirstFacts(r) \/ TooLate(r) \/ Inject(r) \/ Clear(r) \/ SimScenario(r) \/ Wait(r)
  \/ CleanOne(r) \/ Settle(r) \/ Finish(r)

GateStep(g) == Launch(g) \/ HaltAll(g) \/ Exit(g) \/ Restart(g) \/ Boot(g)

Next ==
  \/ \E g \in Gateways : GateStep(g) \/ Sweep(g) \/ Create(g) \/ Shutdown(g) \/ GiveUp(g) \/ Crash(g)
  \/ \E r \in Runs : RunnerStep(r) \/ Beat(r) \/ Flush(r) \/ Write(r) \/ GoesStale(r)
  \/ \E f \in Faults : Expire(f)

Spec == Init /\ [][Next]_vars

(* Every await of the runner and of a gateway ends, the writes of the      *)
(* progress go out, the sweep of a gateway comes round, and a run nobody   *)
(* beats for grows stale.                                                  *)
Fairness ==
  /\ \A g \in Gateways : WF_vars(GateStep(g)) /\ WF_vars(Sweep(g))
  /\ \A r \in Runs : WF_vars(RunnerStep(r)) /\ WF_vars(Write(r)) /\ WF_vars(~Alive(r) /\ GoesStale(r))

FairSpec == Spec /\ Fairness

-----------------------------------------------------------------------------
(* A run in work has somebody who will close it: its executor or the start *)
(* that has created it.  The exceptions are known: its gateway died, or    *)
(* could not write.  An orderly stop leaves none behind.                   *)
RunHasKeeper == \A r \in Runs : Active(r) => Alive(r) \/ KeptByStart(r) \/ row[r].lost

(* The stand is handed on while an executor still acts on it only when     *)
(* that executor was swept as stale or did not clean in time: an outcome   *)
(* is written after the last fault is removed.                             *)
ClosedWhileActing ==
  \A r \in Runs : Acting(r) /\ Closed(r) => row[r].by \in {"sweep", "stop"}

(* What is left on the stand by a run whose executor came to its end is a  *)
(* fault that executor tried to clear and could not, which it names in the *)
(* error of the outcome, or one of a simulator's scenario whose answer was *)
(* lost (runSimScenario): of that one nobody knows, and nobody removes it  *)
(* before its time runs out.  An executor that died is outside.            *)
LeftoversAreKnown ==
  \A r \in Runs : exec[r].at = "ended" =>
    {f \in Faults : book[f] = r} \subseteq exec[r].left \cup exec[r].unheard

(* "Faults the run has injected are removed whatever the outcome"          *)
(* (runner.ts:315): of every run that ended and named no failed cleaning.  *)
(* The code does not keep it: unheard of faults stay, see                  *)
(* LeftoversAreKnown.  No run checks it.                                   *)
FaultsAreRemoved ==
  \A r \in Runs : exec[r].at = "ended" /\ exec[r].left = {} => \A f \in Faults : book[f] # r

(* A run that passes has done all its steps and has none of its faults     *)
(* left on the stand.                                                      *)
PassedIsClean ==
  [][\A r \in Runs : row'[r].status = "passed" /\ row[r].status # "passed"
       => exec[r].done = Len(exec[r].script) /\ \A f \in Faults : book[f] # r]_vars

(* An outcome is written once: an executor that has lost its run does not  *)
(* write over what the sweep or the shutdown wrote.                        *)
OutcomeStands ==
  [][\A r \in Runs : Closed(r) => row'[r].status = row[r].status /\ row'[r].by = row[r].by]_vars

(* The progress a reader sees never goes back. *)
ProgressGoesForward == [][\A r \in Runs : row'[r].step >= row[r].step]_vars

(* The stand is not held for ever: every run is closed, whatever became of *)
(* its executor.                                                           *)
StandIsFreed == []<>(\A r \in Runs : ~Active(r))

(* A run in work has a keeper; and the cleaning of a run that came to its  *)
(* end passes over no fault, but for those of a simulator's scenario whose *)
(* answer was lost, which stay without anybody knowing of them.            *)
KeptAndKnown == RunHasKeeper /\ LeftoversAreKnown

(* The outcome of a run is written once, it is "passed" only if nothing is *)
(* left behind, and no late snapshot of the progress covers a newer one.   *)
OutcomesStand == PassedIsClean /\ OutcomeStands /\ ProgressGoesForward
===============================================================================
