------------------------------ MODULE ReplayRuns ------------------------------
(***************************************************************************)
(* The life of a replay run: the gateway puts it in core.replay_run, one   *)
(* instance of stream-processor claims it, reads a window of the raw topic *)
(* through a temporary consumer group, beats while it reads and writes the *)
(* outcome in one transaction.  The stand holds one active run, so a run   *)
(* nobody ends keeps everybody else out.                                   *)
(*                                                                         *)
(* How the window is read is ReplayReading; here reading is a count of     *)
(* offsets.  Times are ages: the time since a run was queued, since its    *)
(* last beat, since it was claimed.                                        *)
(*                                                                         *)
(* Sources: replay-runner.service.ts, packages/db replay.ts and            *)
(* replay.controller.ts of the gateway.                                    *)
(***************************************************************************)
EXTENDS Integers, FiniteSets

CONSTANTS
  Instances,      \* processes of stream-processor
  MaxRuns,        \* bound: runs put in the queue
  MaxWindow,      \* bound: offsets of a window
  QueueTimeout,   \* REPLAY_QUEUE_TIMEOUT_MS
  StaleAfter,     \* REPLAY_STALE_MS
  TimeLimit,      \* REPLAY_MAX_MS
  Kept,           \* REPLAY_KEPT_RUNS
  MaxFaults       \* bound: failed transactions, failed calls of the broker, crashes, shutdowns

Runs == 1..MaxRuns
NoRun == 0
NoOwner == "nobody"

VARIABLES
  row,      \* core.replay_run, in the order of created_at
  group,    \* the temporary group of each run: absent, empty or with a member
  proc,     \* what each process does
  orphans,  \* runs whose executor is known to have lost them
  faults    \* faults so far, only bounds the model

vars == <<row, group, proc, orphans, faults>>

Active(r) == row[r].status \in {"queued", "running"}
Finished(r) == row[r].status \in {"done", "failed"}

NoRow == [status |-> "none", owner |-> NoOwner, age |-> 0, episodes |-> FALSE, read |-> 0, total |-> 0]

(* An Execution and its ActiveRun: the latch, the watch, the consumer and  *)
(* the failure that is written once.                                       *)
NoExecution ==
  [run |-> NoRun, stop |-> "none", watch |-> "off", consumer |-> "none",
   failure |-> "none", total |-> 0, read |-> 0, spent |-> 0]

Idle == [at |-> "idle", keep |-> NoRun, stopping |-> FALSE, exec |-> NoExecution]

(* Phases between the claim and `finally`: this.active is set. *)
Performing == {"planning", "naming", "reading", "finishing", "failing"}

TypeOK ==
  /\ row \in [Runs -> [status : {"none", "queued", "running", "done", "failed", "deleted"},
                       owner : Instances \cup {NoOwner},
                       age : 0..(StaleAfter + QueueTimeout),
                       episodes : BOOLEAN, read : 0..MaxWindow, total : 0..MaxWindow]]
  /\ group \in [Runs -> {"absent", "empty", "joined"}]
  /\ \A i \in Instances :
       /\ proc[i].at \in Performing \cup {"down", "idle", "keeping", "dropping", "claiming", "releasing"}
       /\ proc[i].keep \in Runs \cup {NoRun} /\ proc[i].stopping \in BOOLEAN
       /\ proc[i].exec \in [run : Runs \cup {NoRun}, stop : {"none", "done", "failed"},
                            watch : {"off", "waiting", "done", "failed", "taken"},
                            consumer : {"none", "connecting", "running", "broken"},
                            failure : {"none", "writing", "written"},
                            total : 0..MaxWindow, read : 0..MaxWindow, spent : 0..TimeLimit]
       /\ (proc[i].at \in Performing) => proc[i].exec.run # NoRun
  /\ orphans \subseteq Runs
  /\ faults \in 0..MaxFaults

Init ==
  /\ row = [r \in Runs |-> NoRow]
  /\ group = [r \in Runs |-> "absent"]
  /\ proc = [i \in Instances |-> Idle]
  /\ orphans = {}
  /\ faults = 0

Fault == faults < MaxFaults /\ faults' = faults + 1

(* The WHERE clause of every write of an executor. *)
MineIn(table, i, r) == table[r].status = "running" /\ table[r].owner = i
Mine(i) == MineIn(row, i, proc[i].exec.run)

Failed(table, rs) ==
  [r \in Runs |-> IF r \in rs THEN [table[r] EXCEPT !.status = "failed", !.age = 0] ELSE table[r]]

GoTo(i, phase) == proc' = [proc EXCEPT ![i].at = phase]

-----------------------------------------------------------------------------
(* The gateway. *)

(* POST: the unique index of the active run turns the insert away.         *)
CreateRun ==
  \E r \in Runs :
    /\ row[r].status = "none"
    /\ \A q \in Runs : q < r => row[q].status # "none"
    /\ \A q \in Runs : ~Active(q)
    /\ row' = [row EXCEPT ![r].status = "queued"]
    /\ UNCHANGED <<group, proc, orphans, faults>>

(* Before every list and every insert: runs no processor took in time.     *)
ExpireQueued ==
  LET expired == {r \in Runs : row[r].status = "queued" /\ row[r].age >= QueueTimeout} IN
    /\ expired # {}
    /\ row' = Failed(row, expired)
    /\ UNCHANGED <<group, proc, orphans, faults>>

TimePasses ==
  /\ row' = [r \in Runs |->
       [row[r] EXCEPT !.age =
          IF row[r].status = "queued" THEN IF row[r].age < QueueTimeout THEN row[r].age + 1 ELSE row[r].age
          ELSE IF row[r].status = "running" /\ row[r].age < StaleAfter THEN row[r].age + 1 ELSE row[r].age]]
  /\ proc' = [i \in Instances |->
       IF proc[i].at \in Performing /\ proc[i].exec.spent < TimeLimit
         THEN [proc[i] EXCEPT !.exec.spent = proc[i].exec.spent + 1] ELSE proc[i]]
  /\ UNCHANGED <<group, orphans, faults>>

-----------------------------------------------------------------------------
(* The tick of a processor: abandoned runs, their groups, the claim. *)

Stale == {r \in Runs : row[r].status = "running" /\ row[r].age >= StaleAfter}

(* failStaleReplayRuns; the answer of its COMMIT may be lost. *)
RecoverStale(i) ==
  /\ proc[i].at = "idle" /\ ~proc[i].stopping
  /\ row' = Failed(row, Stale)
  /\ \/ /\ GoTo(i, IF Stale = {} THEN "claiming" ELSE "keeping")
        /\ UNCHANGED faults
     \/ /\ Stale # {} /\ Fault
        /\ UNCHANGED proc
  /\ UNCHANGED <<group, orphans>>

(* dropOrphanGroups reads the active run first. *)
ReadKept(i) ==
  /\ proc[i].at = "keeping"
  /\ proc' = [proc EXCEPT ![i].at = "dropping",
                          ![i].keep = IF \E r \in Runs : Active(r)
                                        THEN CHOOSE r \in Runs : Active(r) ELSE NoRun]
  /\ UNCHANGED <<row, group, orphans, faults>>

(* Then lists and deletes; a group with a member stays.                    *)
DropOrphanGroups(i) ==
  /\ proc[i].at = "dropping"
  /\ proc' = [proc EXCEPT ![i].at = "claiming", ![i].keep = NoRun]
  /\ \/ /\ group' = [r \in Runs |-> IF group[r] = "empty" /\ r # proc[i].keep THEN "absent" ELSE group[r]]
        /\ UNCHANGED faults
     \/ Fault /\ UNCHANGED group
  /\ UNCHANGED <<row, orphans>>

(* claimReplayRun: SKIP LOCKED gives a waiting run to one processor only.  *)
Claimed(r, i) ==
  [row EXCEPT ![r].status = "running", ![r].owner = i, ![r].age = 0]

(* A claim whose COMMIT lost its answer leaves the row to nobody.          *)
Claim(i) ==
  /\ proc[i].at = "claiming"
  /\ \/ /\ \A r \in Runs : row[r].status # "queued"
        /\ GoTo(i, "idle")
        /\ UNCHANGED <<row, orphans, faults>>
     \/ \E r \in Runs :
          /\ row[r].status = "queued"
          /\ row' = Claimed(r, i)
          /\ \/ /\ proc' = [proc EXCEPT ![i].at = "planning",
                                        ![i].exec = [NoExecution EXCEPT !.run = r,
                                           !.stop = IF proc[i].stopping THEN "failed" ELSE "none"]]
                /\ UNCHANGED <<orphans, faults>>
             \/ /\ Fault
                /\ orphans' = orphans \cup {r}
                /\ GoTo(i, "idle")
  /\ UNCHANGED group

-----------------------------------------------------------------------------
(* perform: from the offsets to the outcome. *)

Throw(i) == GoTo(i, "failing")

(* The core, the admin client and the offsets of the window. *)
Plan(i) ==
  /\ proc[i].at = "planning"
  /\ \/ /\ proc[i].exec.stop = "failed" /\ Throw(i)
        /\ UNCHANGED faults
     \/ /\ Fault /\ Throw(i)
     \/ /\ proc[i].exec.stop # "failed"
        /\ proc' = [proc EXCEPT ![i].at = "finishing", ![i].exec.stop = "done"]
        /\ UNCHANGED faults
     \/ /\ proc[i].exec.stop # "failed"
        /\ \E w \in 1..MaxWindow : proc' = [proc EXCEPT ![i].at = "naming", ![i].exec.total = w]
        /\ UNCHANGED faults
  /\ UNCHANGED <<row, group, orphans>>

Beaten(i) ==
  [row EXCEPT ![proc[i].exec.run].age = 0, ![proc[i].exec.run].read = proc[i].exec.read,
              ![proc[i].exec.run].total = proc[i].exec.total]

(* The first report writes the name of the group and is strict: an error   *)
(* of the database ends the run.                                           *)
NameGroup(i) ==
  /\ proc[i].at = "naming"
  /\ \/ /\ row' = IF Mine(i) THEN Beaten(i) ELSE row
        /\ \/ proc[i].exec.stop = "failed" /\ Throw(i)
           \/ /\ proc[i].exec.stop # "failed" /\ Mine(i)
              /\ proc' = [proc EXCEPT ![i].at = "reading", ![i].exec.watch = "waiting",
                                      ![i].exec.consumer = "connecting"]
           \/ proc[i].exec.stop # "failed" /\ ~Mine(i) /\ GoTo(i, "releasing")
        /\ UNCHANGED faults
     \/ Fault /\ Throw(i) /\ UNCHANGED row
  /\ UNCHANGED <<group, orphans>>

Settle(i, stop) == IF proc[i].exec.stop = "none" THEN stop ELSE proc[i].exec.stop

(* connect, subscribe and run of the consumer have ended. *)
Connect(i) ==
  /\ proc[i].at = "reading" /\ proc[i].exec.consumer = "connecting"
  /\ \/ /\ proc' = [proc EXCEPT ![i].exec.consumer = "running"]
        /\ group' = [group EXCEPT ![proc[i].exec.run] = "joined"]
        /\ UNCHANGED faults
     \/ /\ Fault
        /\ proc' = [proc EXCEPT ![i].exec.consumer = "broken", ![i].exec.stop = Settle(i, "failed")]
        /\ UNCHANGED group
  /\ UNCHANGED <<row, orphans>>

(* One offset of the window through the core. *)
Read(i) ==
  /\ proc[i].at = "reading" /\ proc[i].exec.consumer = "running"
  /\ proc[i].exec.stop = "none" /\ proc[i].exec.read < proc[i].exec.total
  /\ proc' = [proc EXCEPT ![i].exec.read = proc[i].exec.read + 1,
                          ![i].exec.stop = IF proc[i].exec.read + 1 = proc[i].exec.total
                                             THEN "done" ELSE "none"]
  /\ UNCHANGED <<row, group, orphans, faults>>

(* A crash of the consumer or a limit of the core. *)
ReadFails(i) ==
  /\ proc[i].at = "reading" /\ proc[i].exec.consumer = "running" /\ proc[i].exec.stop = "none"
  /\ Fault
  /\ proc' = [proc EXCEPT ![i].exec.stop = "failed"]
  /\ UNCHANGED <<row, group, orphans>>

(* Mutant: a beat the database refused is taken for a lost run. *)
WatchTrusting(i) ==
  /\ proc[i].at = "reading" /\ proc[i].exec.watch = "waiting"
  /\ \/ /\ proc[i].exec.stop = "none" /\ Fault
        /\ proc' = [proc EXCEPT ![i].exec.watch = "taken", ![i].exec.stop = "failed"]
        /\ UNCHANGED row
     \/ /\ proc[i].exec.stop # "none"
        /\ proc' = [proc EXCEPT ![i].exec.watch = proc[i].exec.stop]
        /\ UNCHANGED <<row, faults>>
  /\ UNCHANGED <<group, orphans>>

(* One turn of watch: the latch, the limit of time, the beat.  A beat the  *)
(* database refused with an error changes nothing and is not a step.       *)
Watch(i) ==
  /\ proc[i].at = "reading" /\ proc[i].exec.watch = "waiting"
  /\ \/ /\ proc[i].exec.stop # "none"
        /\ proc' = [proc EXCEPT ![i].exec.watch = proc[i].exec.stop]
        /\ UNCHANGED row
     \/ /\ proc[i].exec.stop = "none" /\ proc[i].exec.spent >= TimeLimit
        /\ proc' = [proc EXCEPT ![i].exec.watch = "failed", ![i].exec.stop = "failed"]
        /\ UNCHANGED row
     \/ /\ proc[i].exec.stop = "none" /\ proc[i].exec.spent < TimeLimit /\ Mine(i)
        /\ row' = Beaten(i)
        /\ UNCHANGED proc
     \/ /\ proc[i].exec.stop = "none" /\ proc[i].exec.spent < TimeLimit /\ ~Mine(i)
        /\ proc' = [proc EXCEPT ![i].exec.watch = "taken", ![i].exec.stop = "failed"]
        /\ UNCHANGED row
  /\ UNCHANGED <<group, orphans, faults>>

(* perform has waited for the consumer and then for the watch. *)
Judge(i) ==
  /\ proc[i].at = "reading" /\ proc[i].exec.consumer # "connecting"
  /\ proc[i].exec.watch \in {"done", "failed", "taken"}
  /\ GoTo(i, IF proc[i].exec.watch = "taken" THEN "releasing"
             ELSE IF proc[i].exec.stop = "failed" THEN "failing" ELSE "finishing")
  /\ UNCHANGED <<row, group, orphans, faults>>

(* pruneReplayRuns: all but the newest Kept finished runs. *)
Pruned(table) ==
  LET finished == {r \in Runs : table[r].status \in {"done", "failed"}} IN
    [r \in Runs |-> IF r \in finished /\ Cardinality({q \in finished : q > r}) >= Kept
                      THEN [NoRow EXCEPT !.status = "deleted"] ELSE table[r]]

(* insertReplayEpisodes: for a run of one's own that has not failed. *)
WithEpisodes(table, i, r) ==
  [table EXCEPT ![r].episodes = @ \/ (table[r].owner = i /\ table[r].status \in {"running", "done"})]

Outcome(i) ==
  LET r == proc[i].exec.run IN
    WithEpisodes([row EXCEPT ![r].status = "done", ![r].age = 0,
                             ![r].read = proc[i].exec.read, ![r].total = proc[i].exec.total], i, r)

(* Mutant: the WHERE of the outcome asks for the owner only. *)
FinishOwned(i) ==
  /\ proc[i].at = "finishing"
  /\ row' = IF row[proc[i].exec.run].owner = i THEN Pruned(Outcome(i)) ELSE row
  /\ GoTo(i, "releasing")
  /\ UNCHANGED <<group, orphans, faults>>

(* The transaction of the outcome: the run, its episodes, the pruning.  It *)
(* rolls back, or commits and loses the answer; both end in the catch.     *)
Finish(i) ==
  /\ proc[i].at = "finishing"
  /\ \/ /\ row' = IF Mine(i) THEN Pruned(Outcome(i)) ELSE row
        /\ GoTo(i, "releasing")
        /\ UNCHANGED faults
     \/ Fault /\ Throw(i) /\ UNCHANGED row
     \/ Fault /\ Mine(i) /\ Throw(i) /\ row' = Pruned(Outcome(i))
  /\ UNCHANGED <<group, orphans>>

-----------------------------------------------------------------------------
(* The failure of a run and the release of what it holds. *)

(* The catch of perform joins the failure the shutdown may have begun. *)
Catch(i) ==
  /\ proc[i].at = "failing" /\ proc[i].exec.failure = "none"
  /\ proc' = [proc EXCEPT ![i].exec.failure = "writing"]
  /\ UNCHANGED <<row, group, orphans, faults>>

(* failReplayRun: only the executor, and only while the run goes on. *)
FailedBy(i) == IF Mine(i) THEN Failed(row, {proc[i].exec.run}) ELSE row

(* On a clean connection; an error is only logged. *)
WriteFailure(i) ==
  /\ proc[i].exec.failure = "writing"
  /\ proc' = [proc EXCEPT ![i].exec.failure = "written"]
  /\ \/ /\ row' = FailedBy(i)
        /\ UNCHANGED <<orphans, faults>>
     \/ /\ Fault
        /\ orphans' = orphans \cup {proc[i].exec.run}
        /\ UNCHANGED row
  /\ UNCHANGED group

FailureWritten(i) ==
  /\ proc[i].at = "failing" /\ proc[i].exec.failure = "written"
  /\ GoTo(i, "releasing")
  /\ UNCHANGED <<row, group, orphans, faults>>

(* The consumer leaves, the group is deleted or left empty to the broker.  *)
(* A failure the shutdown has begun is still being written.                *)
Release(i) ==
  /\ proc[i].at = "releasing"
  /\ \E left \in {"absent", "empty"} :
       /\ left = "empty" => group[proc[i].exec.run] # "absent"
       /\ group' = IF proc[i].exec.consumer = "none" THEN group
                   ELSE [group EXCEPT ![proc[i].exec.run] = left]
  /\ proc[i].exec.failure # "writing"
  /\ proc' = [proc EXCEPT ![i].at = "idle", ![i].exec = NoExecution]
  /\ UNCHANGED <<row, orphans, faults>>

-----------------------------------------------------------------------------
(* The life of a process. *)

(* beforeApplicationShutdown fails the running execution at once. *)
Shutdown(i) ==
  /\ proc[i].at # "down" /\ ~proc[i].stopping
  /\ Fault
  /\ proc' = [proc EXCEPT ![i].stopping = TRUE,
       ![i].exec = IF proc[i].at \in Performing /\ proc[i].exec.stop = "none"
                     THEN [proc[i].exec EXCEPT !.stop = "failed",
                             !.failure = IF proc[i].exec.failure = "none" THEN "writing"
                                         ELSE proc[i].exec.failure]
                     ELSE proc[i].exec]
  /\ UNCHANGED <<row, group, orphans>>

(* The shutdown has waited for the current tick. *)
Exit(i) ==
  /\ proc[i].stopping /\ proc[i].at = "idle"
  /\ GoTo(i, "down")
  /\ UNCHANGED <<row, group, orphans, faults>>

Crash(i) ==
  /\ proc[i].at # "down" /\ Fault
  /\ proc' = [proc EXCEPT ![i] = [Idle EXCEPT !.at = "down"]]
  /\ orphans' = IF proc[i].exec.run # NoRun THEN orphans \cup {proc[i].exec.run} ELSE orphans
  /\ UNCHANGED <<row, group>>

Start(i) ==
  /\ proc[i].at = "down"
  /\ proc' = [proc EXCEPT ![i] = Idle]
  /\ UNCHANGED <<row, group, orphans, faults>>

(* The broker drops a member that has stopped beating. *)
SessionEnds(r) ==
  /\ group[r] = "joined"
  /\ \A i \in Instances : ~(proc[i].exec.run = r /\ proc[i].exec.consumer = "running")
  /\ group' = [group EXCEPT ![r] = "empty"]
  /\ UNCHANGED <<row, proc, orphans, faults>>

-----------------------------------------------------------------------------
Perform(i) ==
  \/ Plan(i) \/ NameGroup(i) \/ Connect(i) \/ Watch(i) \/ Judge(i) \/ Finish(i)
  \/ Catch(i) \/ WriteFailure(i) \/ FailureWritten(i) \/ Release(i)

Tick(i) == RecoverStale(i) \/ ReadKept(i) \/ DropOrphanGroups(i) \/ Claim(i)

Next ==
  \/ CreateRun \/ ExpireQueued \/ TimePasses
  \/ \E i \in Instances : Tick(i) \/ Perform(i) \/ Read(i) \/ ReadFails(i)
                          \/ Shutdown(i) \/ Exit(i) \/ Crash(i) \/ Start(i)
  \/ \E r \in Runs : SessionEnds(r)

Spec == Init /\ [][Next]_vars

(* Timers fire, calls of kafkajs and of the database end, the list of runs *)
(* is asked for again, a stopped process is started again.  Nothing says   *)
(* that the broker gives the messages of the window: Read has no fairness. *)
Fairness ==
  /\ WF_vars(TimePasses) /\ WF_vars(ExpireQueued)
  /\ \A i \in Instances :
       /\ WF_vars(RecoverStale(i)) /\ WF_vars(ReadKept(i)) /\ WF_vars(DropOrphanGroups(i))
       /\ WF_vars(Claim(i)) /\ WF_vars(Plan(i)) /\ WF_vars(NameGroup(i)) /\ WF_vars(Connect(i))
       /\ WF_vars(Watch(i)) /\ WF_vars(Judge(i)) /\ WF_vars(Finish(i)) /\ WF_vars(Catch(i))
       /\ WF_vars(WriteFailure(i)) /\ WF_vars(FailureWritten(i)) /\ WF_vars(Release(i))
       /\ WF_vars(Start(i)) /\ WF_vars(Exit(i))

FairSpec == Spec /\ Fairness

-----------------------------------------------------------------------------
(* Properties. *)

(* A run that says done has read its whole window and carries its          *)
(* episodes, and a run that failed carries none: the outcome is one        *)
(* transaction whoever else ends the run meanwhile.                        *)
DoneIsWhole ==
  \A r \in Runs :
    /\ row[r].status = "done" => row[r].episodes /\ row[r].read = row[r].total
    /\ row[r].status = "failed" => ~row[r].episodes

(* A row in work has an executor, or its executor has crashed or was       *)
(* refused by the database: no path of perform, of the latch or of the     *)
(* shutdown lets go of a run it has not ended.                             *)
RunHasExecutor ==
  \A r \in Runs : row[r].status = "running" =>
    \/ r \in orphans
    \/ \E i \in Instances : /\ row[r].owner = i /\ proc[i].exec.run = r
                            /\ proc[i].at \in Performing

(* The pruning never takes a run while fewer than Kept newer ones exist,   *)
(* so the run just finished can be read.                                   *)
RecentRunsKept ==
  \A r \in Runs : row[r].status = "deleted" =>
    Cardinality({q \in Runs : q > r /\ row[q].status # "none"}) >= Kept

(* The outcome of a run is written once: the check of beats, the shutdown, *)
(* the executor and the gateway never change a finished run.               *)
OutcomeStands ==
  [][\A r \in Runs : Finished(r) => \/ row'[r] = row[r]
                                    \/ row'[r].status = "deleted"]_vars

(* The stand is free: what it must become again, whatever the broker does  *)
(* and however processes crash and stop.                                   *)
StandIsFree == \A r \in Runs : ~Active(r)

(* A run in work has somebody who works on it or will find it stale, a run *)
(* that is done has its whole outcome, and the last runs are not pruned.   *)
RunsAreWhole == TypeOK /\ RunHasExecutor /\ DoneIsWhole /\ RecentRunsKept
===============================================================================
