--------------------------- MODULE ReplayRunsProofs ---------------------------
(***************************************************************************)
(* Proofs about the life of a replay run, for every number of processes    *)
(* and runs, every size of a window and every limit of time: a run in work *)
(* has an executor or is known to have lost it, a run that is done has its *)
(* whole outcome, the newest runs are not pruned, and an outcome is        *)
(* written once.                                                           *)
(*                                                                         *)
(* The argument: a claim writes the owner of a row and nothing but the end *)
(* of the run changes it, so whoever else ends a run, its executor finds   *)
(* at its next write that the row is no longer its own.  A row never goes  *)
(* back to work, so what an executor has seen of a lost run stays true.    *)
(***************************************************************************)
EXTENDS ReplayRuns, FiniteSetTheorems, TLAPS

(* What the constants may be. *)
ReplayConstants ==
  /\ MaxRuns \in Nat /\ MaxWindow \in Nat /\ QueueTimeout \in Nat /\ StaleAfter \in Nat
  /\ TimeLimit \in Nat /\ Kept \in Nat /\ MaxFaults \in Nat

Statuses == {"none", "queued", "running", "done", "failed", "deleted"}
Row == [status : Statuses, owner : Instances \cup {NoOwner}, age : 0..(StaleAfter + QueueTimeout),
        episodes : BOOLEAN, read : 0..MaxWindow, total : 0..MaxWindow]
Exec == [run : Runs \cup {NoRun}, stop : {"none", "done", "failed"},
         watch : {"off", "waiting", "done", "failed", "taken"},
         consumer : {"none", "connecting", "running", "broken"},
         failure : {"none", "writing", "written"},
         total : 0..MaxWindow, read : 0..MaxWindow, spent : 0..TimeLimit]
Phases == Performing \cup {"down", "idle", "keeping", "dropping", "claiming", "releasing"}
Process == [at : Phases, keep : Runs \cup {NoRun}, stopping : BOOLEAN, exec : Exec]

(* A row that is not done carries no episodes, one that is carries them and *)
(* the whole window.                                                       *)
RowInv(r) ==
  /\ row[r].episodes => row[r].status = "done"
  /\ row[r].status = "done" => row[r].episodes /\ row[r].read = row[r].total

(* The row of a run an instance executes is or was its own. *)
OwnInv(i) ==
  LET e == proc[i].exec
  IN e.run # NoRun => \/ row[e.run].status \in {"running", "done", "failed"} /\ row[e.run].owner = i
                      \/ row[e.run].status = "deleted"

(* Where an executor is, and what it knows.  The latch is written once; an  *)
(* executor that has seen its run taken, or has written the failure, finds *)
(* the row out of work or knows that the write was refused.                *)
Knows(at, e) ==
  /\ e.run # NoRun <=> at \in Performing \cup {"releasing"}
  /\ e.run = NoRun => e.failure = "none"
  /\ e.stop = "done" => e.read = e.total
  /\ at \in {"planning", "naming"} => e.stop # "done" /\ e.read = 0
  /\ at = "planning" => e.total = 0
  /\ at = "finishing" => e.stop = "done"
  /\ e.watch \in {"done", "failed"} => e.stop = e.watch
  /\ e.watch = "taken" => e.stop = "failed" /\ e.run # NoRun /\ row[e.run].status # "running"
  /\ e.failure = "written" => e.run \in orphans \/ row[e.run].status # "running"

ExecInv(i) == Knows(proc[i].at, proc[i].exec)

RunInv ==
  /\ row \in [Runs -> Row]
  /\ group \in [Runs -> {"absent", "empty", "joined"}]
  /\ proc \in [Instances -> Process]
  /\ orphans \subseteq Runs
  /\ faults \in 0..MaxFaults
  /\ \A r \in Runs : RowInv(r)
  /\ \A i \in Instances : OwnInv(i) /\ ExecInv(i)
  /\ RunHasExecutor
  /\ RecentRunsKept

-------------------------------------------------------------------------------
(* What the parts of the state look like. *)
LEMMA RowTyped ==
  ASSUME RunInv, NEW r \in Runs
  PROVE  /\ row[r] \in Row /\ row[r].status \in Statuses /\ row[r].owner \in Instances \cup {NoOwner}
         /\ row[r].age \in 0..(StaleAfter + QueueTimeout) /\ row[r].episodes \in BOOLEAN
         /\ row[r].read \in 0..MaxWindow /\ row[r].total \in 0..MaxWindow
<1>1. row[r] \in Row
  BY DEF RunInv
<1>2. QED
  BY <1>1 DEF Row

LEMMA ProcessTyped ==
  ASSUME RunInv, NEW i \in Instances
  PROVE  /\ proc[i] \in Process /\ proc[i].at \in Phases /\ proc[i].keep \in Runs \cup {NoRun}
         /\ proc[i].stopping \in BOOLEAN /\ proc[i].exec \in Exec
         /\ proc[i].exec.run \in Runs \cup {NoRun} /\ proc[i].exec.stop \in {"none", "done", "failed"}
         /\ proc[i].exec.watch \in {"off", "waiting", "done", "failed", "taken"}
         /\ proc[i].exec.consumer \in {"none", "connecting", "running", "broken"}
         /\ proc[i].exec.failure \in {"none", "writing", "written"}
         /\ proc[i].exec.total \in 0..MaxWindow /\ proc[i].exec.read \in 0..MaxWindow
         /\ proc[i].exec.spent \in 0..TimeLimit
<1>1. proc[i] \in Process
  BY DEF RunInv
<1>2. proc[i].exec \in Exec /\ proc[i].at \in Phases /\ proc[i].keep \in Runs \cup {NoRun}
      /\ proc[i].stopping \in BOOLEAN
  BY <1>1 DEF Process
<1>3. QED
  BY <1>1, <1>2 DEF Exec

LEMMA FaultCounts ==
  ASSUME ReplayConstants, RunInv
  PROVE  /\ faults \in 0..MaxFaults
         /\ Fault => faults' \in 0..MaxFaults
  BY DEF RunInv, Fault, ReplayConstants

LEMMA RunIsWhole == RunInv => RunsAreWhole
<1> SUFFICES ASSUME RunInv PROVE RunsAreWhole
  OBVIOUS
<1>1. \A i \in Instances : proc[i].at \in Performing => proc[i].exec.run # NoRun
  BY DEF RunInv, ExecInv, Knows
<1>2. TypeOK
  BY <1>1, ProcessTyped DEF RunInv, TypeOK, Row, Statuses, Exec, Phases
<1>3. DoneIsWhole
  BY DEF RunInv, DoneIsWhole, RowInv
<1>4. QED
  BY <1>2, <1>3 DEF RunInv, RunsAreWhole

LEMMA RunsInit == ASSUME ReplayConstants PROVE Init => RunInv
<1> SUFFICES ASSUME Init PROVE RunInv
  OBVIOUS
<1>1. NoRow \in Row /\ NoRow.status = "none" /\ NoRow.episodes = FALSE
  BY DEF NoRow, Row, Statuses, ReplayConstants
<1>2. Idle \in Process
  BY DEF Idle, NoExecution, Process, Phases, Exec, ReplayConstants
<1>3. /\ row \in [Runs -> Row] /\ proc \in [Instances -> Process]
      /\ group \in [Runs -> {"absent", "empty", "joined"}]
      /\ orphans \subseteq Runs /\ faults \in 0..MaxFaults
  BY <1>1, <1>2 DEF Init, ReplayConstants
<1>4. \A r \in Runs : row[r].status = "none" /\ row[r].episodes = FALSE
  BY <1>1 DEF Init
<1>5. \A i \in Instances : OwnInv(i) /\ ExecInv(i)
  BY DEF Init, OwnInv, ExecInv, Knows, Idle, NoExecution, Performing, NoRun
<1>6. QED
  BY <1>3, <1>4, <1>5 DEF RunInv, RowInv, RunHasExecutor, RecentRunsKept

-------------------------------------------------------------------------------
(* What a step may do to a row: nothing returns to work, an owner stays     *)
(* until the row is pruned.                                                *)
Onward(r) ==
  /\ row[r].status # "none" => row'[r].status # "none"
  /\ row[r].status = "deleted" => row'[r].status = "deleted"
  /\ row[r].status \notin {"none", "queued"} =>
       /\ row'[r].status \notin {"none", "queued"}
       /\ row'[r].status = "running" => row[r].status = "running"
       /\ row'[r].owner = row[r].owner \/ row'[r].status = "deleted"

Newer(r) == {q \in Runs : q > r /\ row[q].status # "none"}

RowsMove ==
  /\ row' \in [Runs -> Row]
  /\ \A r \in Runs : Onward(r) /\ RowInv(r)'
  /\ \A r \in Runs : row'[r].status = "deleted" =>
       row[r].status = "deleted" \/ Cardinality(Newer(r)') >= Kept

(* No run is taken up. *)
NoneClaimed == \A r \in Runs : row'[r].status = "running" => row[r].status = "running"

LEMMA NewerIsFinite ==
  ASSUME ReplayConstants, NEW S \in SUBSET Runs PROVE IsFiniteSet(S) /\ Cardinality(S) \in Nat
<1>1. IsFiniteSet(Runs)
  BY FS_Interval DEF Runs, ReplayConstants
<1>2. QED
  BY <1>1, FS_Subset, FS_CardinalityType

LEMMA RecentStand ==
  ASSUME ReplayConstants, RunInv, RowsMove
  PROVE  RecentRunsKept'
<1> SUFFICES ASSUME NEW r \in Runs, row'[r].status = "deleted"
             PROVE  Cardinality(Newer(r)') >= Kept
  BY DEF RecentRunsKept, Newer
<1>1. CASE row[r].status = "deleted"
  <2>1. Cardinality(Newer(r)) >= Kept
    BY <1>1 DEF RunInv, RecentRunsKept, Newer
  <2>2. Newer(r) \subseteq Newer(r)' /\ Newer(r)' \in SUBSET Runs /\ Newer(r) \in SUBSET Runs
    BY DEF RowsMove, Onward, Newer
  <2>3. /\ Cardinality(Newer(r)) <= Cardinality(Newer(r)')
        /\ Cardinality(Newer(r)) \in Nat /\ Cardinality(Newer(r)') \in Nat
    BY <2>2, NewerIsFinite, FS_Subset
  <2>4. QED
    BY <2>1, <2>3 DEF ReplayConstants
<1>2. CASE row[r].status # "deleted"
  BY <1>2 DEF RowsMove
<1>3. QED
  BY <1>1, <1>2

LEMMA RowsStand == ASSUME RunInv, UNCHANGED row PROVE RowsMove /\ NoneClaimed
  BY DEF RunInv, RowsMove, Onward, RowInv, NoneClaimed

(* What an executor knows survives what others do.                          *)
LEMMA OthersKeep ==
  ASSUME RunInv, RowsMove, orphans \subseteq orphans', NEW j \in Instances, proc'[j] = proc[j]
  PROVE  (OwnInv(j) /\ ExecInv(j))'
<1> DEFINE e == proc[j].exec
<1>1. OwnInv(j) /\ ExecInv(j) /\ e.run \in Runs \cup {NoRun}
  BY ProcessTyped DEF RunInv
<1>2. \A r \in Runs : Onward(r) /\ row'[r].status \in Statuses
  BY DEF RowsMove, Row
<1>3. e.run # NoRun => /\ row[e.run].status \in {"running", "done", "failed", "deleted"}
                       /\ row[e.run].status # "running" => row'[e.run].status # "running"
  BY <1>1, <1>2 DEF OwnInv, Onward
<1>4. OwnInv(j)'
  <2>1. e.run # NoRun =>
          \/ row'[e.run].status \in {"running", "done", "failed"} /\ row'[e.run].owner = j
          \/ row'[e.run].status = "deleted"
    <3> SUFFICES ASSUME e.run # NoRun, row'[e.run].status # "deleted"
                 PROVE  row'[e.run].status \in {"running", "done", "failed"} /\ row'[e.run].owner = j
      OBVIOUS
    <3>1. Onward(e.run) /\ row'[e.run].status \in Statuses
      BY <1>1, <1>2
    <3>2. row[e.run].status \in {"running", "done", "failed"} /\ row[e.run].owner = j
      BY <1>1, <3>1 DEF OwnInv, Onward
    <3>3. QED
      BY <3>1, <3>2 DEF Onward, Statuses
  <2>2. QED
    BY <2>1 DEF OwnInv
<1>5. e.failure = "written" => e.run # NoRun
  BY <1>1 DEF ExecInv, Knows
<1>6. ExecInv(j)'
  BY <1>1, <1>3, <1>5 DEF ExecInv, Knows
<1>7. QED
  BY <1>4, <1>6

(* A step that no process takes part in: what has to be shown of it.        *)
LEMMA WorldStep ==
  ASSUME ReplayConstants, RunInv, RowsMove, NoneClaimed, UNCHANGED <<proc, orphans>>,
         group' \in [Runs -> {"absent", "empty", "joined"}], faults' \in 0..MaxFaults
  PROVE  RunInv'
<1>1. RunHasExecutor'
  <2> SUFFICES ASSUME NEW r \in Runs, row'[r].status = "running", r \notin orphans
               PROVE  \E i \in Instances : /\ row'[r].owner = i /\ proc[i].exec.run = r
                                           /\ proc[i].at \in Performing
    BY DEF RunHasExecutor
  <2>1. row[r].status = "running"
    BY DEF NoneClaimed
  <2>2. row'[r].owner = row[r].owner
    BY <2>1 DEF RowsMove, Onward
  <2>3. QED
    BY <2>1, <2>2 DEF RunInv, RunHasExecutor
<1>2. \A i \in Instances : (OwnInv(i) /\ ExecInv(i))'
  BY OthersKeep
<1>3. row' \in [Runs -> Row] /\ (\A r \in Runs : RowInv(r))'
  BY DEF RowsMove
<1>4. QED
  BY <1>1, <1>2, <1>3, RecentStand DEF RunInv

(* A step of one process.  A run in work after it is the one it works on,   *)
(* or was in work before and is not one it has let go of.                  *)
LEMMA ActorStep ==
  ASSUME ReplayConstants, RunInv, RowsMove, NEW i \in Instances, NEW p \in Process,
         proc' = [proc EXCEPT ![i] = p],
         group' \in [Runs -> {"absent", "empty", "joined"}],
         orphans \subseteq orphans', orphans' \subseteq Runs, faults' \in 0..MaxFaults,
         OwnInv(i)', ExecInv(i)',
         \A r \in Runs : row'[r].status = "running" /\ r \notin orphans' =>
           \/ row'[r].owner = i /\ p.exec.run = r /\ p.at \in Performing
           \/ row[r].status = "running" /\ ~(proc[i].exec.run = r /\ proc[i].at \in Performing)
  PROVE  RunInv'
<1>1. proc' \in [Instances -> Process] /\ proc'[i] = p /\ \A j \in Instances : j # i => proc'[j] = proc[j]
  BY DEF RunInv
<1>2. RunHasExecutor'
  <2> SUFFICES ASSUME NEW r \in Runs, row'[r].status = "running", r \notin orphans'
               PROVE  \E j \in Instances : /\ row'[r].owner = j /\ proc'[j].exec.run = r
                                           /\ proc'[j].at \in Performing
    BY DEF RunHasExecutor
  <2>1. CASE row'[r].owner = i /\ p.exec.run = r /\ p.at \in Performing
    BY <1>1, <2>1
  <2>2. CASE row[r].status = "running" /\ ~(proc[i].exec.run = r /\ proc[i].at \in Performing)
    <3>1. row'[r].owner = row[r].owner
      BY <2>2 DEF RowsMove, Onward
    <3>2. PICK j \in Instances : /\ row[r].owner = j /\ proc[j].exec.run = r
                                 /\ proc[j].at \in Performing
      BY <2>2 DEF RunInv, RunHasExecutor
    <3>3. QED
      BY <1>1, <2>2, <3>1, <3>2
  <2>3. QED
    BY <2>1, <2>2
<1>3. \A j \in Instances : (OwnInv(j) /\ ExecInv(j))'
  BY <1>1, OthersKeep
<1>4. row' \in [Runs -> Row] /\ (\A r \in Runs : RowInv(r))'
  BY DEF RowsMove
<1>5. QED
  BY <1>1, <1>2, <1>3, <1>4, RecentStand DEF RunInv

(* The same for a process that takes up no run and keeps the one it has     *)
(* until the run is out of work.                                           *)
LEMMA PhaseStep ==
  ASSUME ReplayConstants, RunInv, RowsMove, NoneClaimed, NEW i \in Instances, NEW p \in Process,
         proc' = [proc EXCEPT ![i] = p],
         group' \in [Runs -> {"absent", "empty", "joined"}],
         orphans \subseteq orphans', orphans' \subseteq Runs, faults' \in 0..MaxFaults,
         p.exec.run = proc[i].exec.run, ExecInv(i)',
         proc[i].at \in Performing =>
           \/ p.at \in Performing
           \/ p.exec.run \in orphans'
           \/ row'[p.exec.run].status # "running"
  PROVE  RunInv'
<1>1. proc'[i] = p
  BY DEF RunInv
<1>2. OwnInv(i)'
  <2> DEFINE r == p.exec.run
  <2> SUFFICES ASSUME r # NoRun, row'[r].status # "deleted"
               PROVE  row'[r].status \in {"running", "done", "failed"} /\ row'[r].owner = i
    BY <1>1 DEF OwnInv
  <2>1. r \in Runs /\ OwnInv(i)
    BY ProcessTyped DEF RunInv
  <2>2. Onward(r) /\ row'[r].status \in Statuses
    BY <2>1 DEF RowsMove, Row
  <2>3. row[r].status \in {"running", "done", "failed"} /\ row[r].owner = i
    BY <2>1, <2>2 DEF OwnInv, Onward
  <2>4. QED
    BY <2>2, <2>3 DEF Onward, Statuses
<1>3. ASSUME NEW r \in Runs, row'[r].status = "running", r \notin orphans'
      PROVE  \/ row'[r].owner = i /\ p.exec.run = r /\ p.at \in Performing
             \/ row[r].status = "running" /\ ~(proc[i].exec.run = r /\ proc[i].at \in Performing)
  <2>1. row[r].status = "running"
    BY <1>3 DEF NoneClaimed
  <2>2. CASE proc[i].exec.run = r /\ proc[i].at \in Performing
    <3>1. r # NoRun /\ row'[r].owner = i
      BY <1>1, <1>2, <1>3, <2>2 DEF OwnInv, Runs, NoRun
    <3>2. QED
      BY <1>3, <2>2, <3>1
  <2>3. QED
    BY <2>1, <2>2
<1>4. QED
  BY <1>2, <1>3, ActorStep

-------------------------------------------------------------------------------
(* The gateway, the clock and the broker. *)
LEMMA CreateRunStep == ASSUME ReplayConstants PROVE RunInv /\ CreateRun => RunInv'
<1> SUFFICES ASSUME RunInv, CreateRun PROVE RunInv'
  OBVIOUS
<1>1. PICK r \in Runs : row[r].status = "none" /\ row' = [row EXCEPT ![r].status = "queued"]
  BY DEF CreateRun
<1>2. UNCHANGED <<group, proc, orphans, faults>>
  BY DEF CreateRun
<1>3. row[r] \in Row /\ row'[r] = [row[r] EXCEPT !.status = "queued"]
      /\ \A q \in Runs : q # r => row'[q] = row[q]
  BY <1>1, RowTyped DEF RunInv
<1>4. row'[r] \in Row /\ row'[r].status = "queued" /\ row'[r].episodes = row[r].episodes
  BY <1>3 DEF Row, Statuses
<1>5. row' \in [Runs -> Row]
  BY <1>1, <1>3, <1>4 DEF RunInv
<1>6. \A q \in Runs : Onward(q) /\ RowInv(q)'
  BY <1>1, <1>3, <1>4 DEF Onward, RowInv, RunInv
<1>7. RowsMove /\ NoneClaimed
  BY <1>3, <1>4, <1>5, <1>6 DEF RowsMove, NoneClaimed
<1>8. QED
  BY <1>2, <1>7, FaultCounts, WorldStep DEF RunInv

(* Runs that wait or are in work are failed by others than their executors. *)
LEMMA FailedTable ==
  ASSUME ReplayConstants, RunInv, NEW rs \in SUBSET Runs, row' = Failed(row, rs),
         \A r \in rs : row[r].status \in {"queued", "running"}
  PROVE  /\ RowsMove /\ NoneClaimed
         /\ \A r \in rs : row'[r].status = "failed"
<1>1. \A r \in Runs : row'[r] = IF r \in rs THEN [row[r] EXCEPT !.status = "failed", !.age = 0] ELSE row[r]
  BY DEF Failed
<1>2. \A r \in Runs : row[r] \in Row /\ row[r].status \in Statuses /\ row[r].episodes \in BOOLEAN
  BY RowTyped
<1>3. \A r \in rs : /\ row'[r] \in Row /\ row'[r].status = "failed" /\ row'[r].owner = row[r].owner
                    /\ row'[r].episodes = row[r].episodes
  <2> SUFFICES ASSUME NEW r \in rs
               PROVE  /\ row'[r] \in Row /\ row'[r].status = "failed" /\ row'[r].owner = row[r].owner
                      /\ row'[r].episodes = row[r].episodes
    OBVIOUS
  <2>1. row'[r] = [row[r] EXCEPT !.status = "failed", !.age = 0] /\ row[r] \in Row
    BY <1>1, <1>2
  <2>2. 0 \in 0..(StaleAfter + QueueTimeout)
    BY DEF ReplayConstants
  <2>3. QED
    BY <2>1, <2>2 DEF Row, Statuses
<1>4. \A r \in Runs \ rs : row'[r] = row[r]
  BY <1>1
<1>5. row' \in [Runs -> Row]
  BY <1>2, <1>3, <1>4 DEF Failed
<1>6. \A r \in Runs : Onward(r) /\ RowInv(r)'
  <2> SUFFICES ASSUME NEW r \in Runs PROVE Onward(r) /\ RowInv(r)'
    OBVIOUS
  <2>1. RowInv(r)
    BY DEF RunInv
  <2>2. CASE r \in rs
    BY <1>2, <1>3, <2>1, <2>2 DEF Onward, RowInv
  <2>3. CASE r \notin rs
    BY <1>4, <2>1, <2>3 DEF Onward, RowInv
  <2>4. QED
    BY <2>2, <2>3
<1>7. \A r \in Runs : row'[r].status \in {"running", "deleted"} => row[r].status = row'[r].status
  BY <1>3, <1>4
<1>8. QED
  BY <1>3, <1>5, <1>6, <1>7 DEF RowsMove, NoneClaimed

LEMMA ExpireQueuedStep == ASSUME ReplayConstants PROVE RunInv /\ ExpireQueued => RunInv'
<1> SUFFICES ASSUME RunInv, ExpireQueued PROVE RunInv'
  OBVIOUS
<1> DEFINE rs == {r \in Runs : row[r].status = "queued" /\ row[r].age >= QueueTimeout}
<1>1. row' = Failed(row, rs) /\ UNCHANGED <<group, proc, orphans, faults>>
  BY DEF ExpireQueued
<1>2. RowsMove /\ NoneClaimed
  BY <1>1, FailedTable
<1>3. QED
  BY <1>1, <1>2, FaultCounts, WorldStep DEF RunInv

LEMMA SessionEndsStep ==
  ASSUME ReplayConstants, NEW r \in Runs PROVE RunInv /\ SessionEnds(r) => RunInv'
<1> SUFFICES ASSUME RunInv, SessionEnds(r) PROVE RunInv'
  OBVIOUS
<1>1. group' \in [Runs -> {"absent", "empty", "joined"}] /\ UNCHANGED <<row, proc, orphans, faults>>
  BY DEF SessionEnds, RunInv
<1>2. QED
  BY <1>1, RowsStand, FaultCounts, WorldStep

(* The clock: rows grow older, executors spend their time.                  *)
LEMMA TimePassesStep == ASSUME ReplayConstants PROVE RunInv /\ TimePasses => RunInv'
<1> SUFFICES ASSUME RunInv, TimePasses PROVE RunInv'
  OBVIOUS
<1>1. /\ row' = [r \in Runs |->
           [row[r] EXCEPT !.age =
              IF row[r].status = "queued" THEN IF row[r].age < QueueTimeout THEN row[r].age + 1 ELSE row[r].age
              ELSE IF row[r].status = "running" /\ row[r].age < StaleAfter THEN row[r].age + 1 ELSE row[r].age]]
      /\ proc' = [i \in Instances |->
           IF proc[i].at \in Performing /\ proc[i].exec.spent < TimeLimit
             THEN [proc[i] EXCEPT !.exec.spent = proc[i].exec.spent + 1] ELSE proc[i]]
      /\ UNCHANGED <<group, orphans, faults>>
  BY DEF TimePasses
<1>2. \A r \in Runs : /\ row'[r] \in Row /\ row'[r].status = row[r].status /\ row'[r].owner = row[r].owner
                      /\ row'[r].episodes = row[r].episodes /\ row'[r].read = row[r].read
                      /\ row'[r].total = row[r].total
  <2> SUFFICES ASSUME NEW r \in Runs
               PROVE  /\ row'[r] \in Row /\ row'[r].status = row[r].status /\ row'[r].owner = row[r].owner
                      /\ row'[r].episodes = row[r].episodes /\ row'[r].read = row[r].read
                      /\ row'[r].total = row[r].total
    OBVIOUS
  <2>1. row[r] \in Row /\ row[r].age \in 0..(StaleAfter + QueueTimeout)
    BY RowTyped
  <2> DEFINE age == IF row[r].status = "queued" THEN IF row[r].age < QueueTimeout THEN row[r].age + 1 ELSE row[r].age
              ELSE IF row[r].status = "running" /\ row[r].age < StaleAfter THEN row[r].age + 1 ELSE row[r].age
  <2>2. age \in 0..(StaleAfter + QueueTimeout)
    BY <2>1 DEF ReplayConstants
  <2>3. row'[r] = [row[r] EXCEPT !.age = age]
    BY <1>1
  <2> HIDE DEF age
  <2>4. QED
    BY <2>1, <2>2, <2>3 DEF Row
<1>3. row' \in [Runs -> Row]
  BY <1>1, <1>2
<1>4. \A r \in Runs : Onward(r) /\ RowInv(r)'
  BY <1>2 DEF Onward, RowInv, RunInv
<1>5. RowsMove /\ NoneClaimed
  BY <1>2, <1>3, <1>4 DEF RowsMove, NoneClaimed
<1>6. \A i \in Instances :
        \/ proc'[i] = proc[i]
        \/ /\ proc[i].exec.spent < TimeLimit
           /\ proc'[i] = [proc[i] EXCEPT !.exec = [proc[i].exec EXCEPT !.spent = proc[i].exec.spent + 1]]
  BY <1>1
<1>7. \A i \in Instances :
        /\ proc'[i] \in Process /\ proc'[i].at = proc[i].at /\ proc'[i].exec.run = proc[i].exec.run
        /\ (OwnInv(i) /\ ExecInv(i))'
  <2> SUFFICES ASSUME NEW i \in Instances
               PROVE  /\ proc'[i] \in Process /\ proc'[i].at = proc[i].at
                      /\ proc'[i].exec.run = proc[i].exec.run /\ (OwnInv(i) /\ ExecInv(i))'
    OBVIOUS
  <2>1. CASE proc'[i] = proc[i]
    BY <1>1, <1>5, <2>1, ProcessTyped, OthersKeep
  <2>2. CASE /\ proc[i].exec.spent < TimeLimit
             /\ proc'[i] = [proc[i] EXCEPT !.exec = [proc[i].exec EXCEPT !.spent = proc[i].exec.spent + 1]]
    <3> DEFINE e == proc[i].exec
               spent == [e EXCEPT !.spent = e.spent + 1]
    <3>1. e \in Exec /\ e.spent \in 0..TimeLimit /\ proc[i] \in Process /\ e.run \in Runs \cup {NoRun}
      BY ProcessTyped
    <3>2. e.spent + 1 \in 0..TimeLimit
      BY <2>2, <3>1 DEF ReplayConstants
    <3>3. /\ spent \in Exec /\ spent.run = e.run /\ spent.stop = e.stop /\ spent.watch = e.watch
          /\ spent.failure = e.failure /\ spent.read = e.read /\ spent.total = e.total
      BY <3>1, <3>2 DEF Exec
    <3> HIDE DEF spent
    <3>4. proc'[i] = [proc[i] EXCEPT !.exec = spent]
      BY <2>2 DEF spent
    <3>5. proc'[i] \in Process /\ proc'[i].at = proc[i].at /\ proc'[i].exec = spent
      BY <3>1, <3>3, <3>4 DEF Process
    <3>6. OwnInv(i) /\ ExecInv(i)
      BY DEF RunInv
    <3>7. e.run # NoRun => /\ row'[e.run].status = row[e.run].status
                           /\ row'[e.run].owner = row[e.run].owner
      BY <1>2, <3>1
    <3>8. OwnInv(i)'
      BY <3>3, <3>5, <3>6, <3>7 DEF OwnInv
    <3>9. ExecInv(i)'
      BY <1>1, <3>3, <3>5, <3>6, <3>7 DEF ExecInv, Knows
    <3>10. QED
      BY <3>3, <3>5, <3>8, <3>9
  <2>3. QED
    BY <1>6, <2>1, <2>2
<1>8. proc' \in [Instances -> Process]
  BY <1>1, <1>7
<1>9. RunHasExecutor'
  <2> SUFFICES ASSUME NEW r \in Runs, row'[r].status = "running", r \notin orphans'
               PROVE  \E i \in Instances : /\ row'[r].owner = i /\ proc'[i].exec.run = r
                                           /\ proc'[i].at \in Performing
    BY DEF RunHasExecutor
  <2>1. row[r].status = "running" /\ row'[r].owner = row[r].owner /\ r \notin orphans
    BY <1>1, <1>2
  <2>2. PICK i \in Instances : /\ row[r].owner = i /\ proc[i].exec.run = r
                               /\ proc[i].at \in Performing
    BY <2>1 DEF RunInv, RunHasExecutor
  <2>3. QED
    BY <1>7, <2>1, <2>2
<1>10. QED
  BY <1>1, <1>5, <1>7, <1>8, <1>9, RecentStand DEF RunInv, RowsMove

-------------------------------------------------------------------------------
(* The tick of a process that executes nothing. *)
Resting == Phases \ (Performing \cup {"releasing"})

LEMMA ChangesOfProcess ==
  ASSUME RunInv, NEW i \in Instances, NEW phase \in Phases
  PROVE  /\ [proc[i] EXCEPT !.at = phase] \in Process
         /\ [proc[i] EXCEPT !.at = phase].at = phase
         /\ [proc[i] EXCEPT !.at = phase].exec = proc[i].exec
         /\ \A e \in Exec : /\ [proc[i] EXCEPT !.at = phase, !.exec = e] \in Process
                            /\ [proc[i] EXCEPT !.at = phase, !.exec = e].at = phase
                            /\ [proc[i] EXCEPT !.at = phase, !.exec = e].exec = e
                            /\ [proc[i] EXCEPT !.exec = e] \in Process
                            /\ [proc[i] EXCEPT !.exec = e].at = proc[i].at
                            /\ [proc[i] EXCEPT !.exec = e].exec = e
<1>1. proc[i] \in Process
  BY ProcessTyped
<1>2. QED
  BY <1>1 DEF Process

LEMMA EmptyExecution ==
  ASSUME ReplayConstants
  PROVE  /\ NoExecution \in Exec /\ NoExecution.run = NoRun /\ NoExecution.stop = "none"
         /\ NoExecution.watch = "off" /\ NoExecution.failure = "none"
         /\ NoExecution.read = 0 /\ NoExecution.total = 0
<1>1. 0 \in 0..MaxWindow /\ 0 \in 0..TimeLimit
  BY DEF ReplayConstants
<1>2. QED
  BY <1>1 DEF NoExecution, Exec

LEMMA RestStep ==
  ASSUME ReplayConstants, RunInv, RowsMove, NoneClaimed, NEW i \in Instances, NEW p \in Process,
         proc[i].at \in Resting, p.at \in Resting,
         p.exec = proc[i].exec \/ p.exec = NoExecution,
         proc' = [proc EXCEPT ![i] = p],
         group' \in [Runs -> {"absent", "empty", "joined"}],
         UNCHANGED orphans, faults' \in 0..MaxFaults
  PROVE  RunInv'
<1>1. ExecInv(i) /\ proc[i].exec.run = NoRun
  BY DEF RunInv, ExecInv, Knows, Resting
<1>2. p.exec.run = proc[i].exec.run
  BY <1>1 DEF NoExecution
<1>3. proc'[i] = p
  BY DEF RunInv
<1>4. ExecInv(i)'
  BY <1>1, <1>3 DEF ExecInv, Knows, NoExecution, Resting, Performing
<1>5. QED
  BY <1>2, <1>4, PhaseStep DEF Resting, RunInv

LEMMA RecoverStaleStep ==
  ASSUME ReplayConstants, NEW i \in Instances PROVE RunInv /\ RecoverStale(i) => RunInv'
<1> SUFFICES ASSUME RunInv, RecoverStale(i) PROVE RunInv'
  OBVIOUS
<1>1. row' = Failed(row, Stale) /\ UNCHANGED <<group, orphans>> /\ proc[i].at = "idle"
  BY DEF RecoverStale
<1>2. Stale \in SUBSET Runs /\ \A r \in Stale : row[r].status \in {"queued", "running"}
  BY DEF Stale
<1>3. RowsMove /\ NoneClaimed
  BY <1>1, <1>2, FailedTable
<1>4. group' \in [Runs -> {"absent", "empty", "joined"}] /\ faults' \in 0..MaxFaults
  BY <1>1, FaultCounts DEF RecoverStale, RunInv
<1>5. CASE UNCHANGED proc
  BY <1>1, <1>3, <1>4, <1>5, WorldStep
<1>6. CASE GoTo(i, IF Stale = {} THEN "claiming" ELSE "keeping")
  <2>1. PICK phase \in {"claiming", "keeping"} : proc' = [proc EXCEPT ![i] = [proc[i] EXCEPT !.at = phase]]
    BY <1>6 DEF GoTo
  <2>2. phase \in Phases /\ phase \in Resting /\ proc[i].at \in Resting
    BY <1>1 DEF Phases, Resting, Performing
  <2> DEFINE p == [proc[i] EXCEPT !.at = phase]
  <2>3. p \in Process /\ p.at = phase /\ p.exec = proc[i].exec
    BY <2>2, ChangesOfProcess
  <2> HIDE DEF p
  <2>4. proc' = [proc EXCEPT ![i] = p]
    BY <2>1 DEF p
  <2>5. QED
    BY <1>1, <1>3, <1>4, <2>2, <2>3, <2>4, RestStep
<1>7. QED
  BY <1>5, <1>6 DEF RecoverStale

LEMMA ReadKeptStep ==
  ASSUME ReplayConstants, NEW i \in Instances PROVE RunInv /\ ReadKept(i) => RunInv'
<1> SUFFICES ASSUME RunInv, ReadKept(i) PROVE RunInv'
  OBVIOUS
<1> DEFINE keep == IF \E r \in Runs : Active(r) THEN CHOOSE r \in Runs : Active(r) ELSE NoRun
           p == [proc[i] EXCEPT !.at = "dropping", !.keep = keep]
<1>1. /\ proc[i].at = "keeping" /\ UNCHANGED <<row, group, orphans, faults>>
      /\ proc' = [proc EXCEPT ![i] = p]
  BY DEF ReadKept
<1>2. keep \in Runs \cup {NoRun}
  OBVIOUS
<1> HIDE DEF keep
<1>3. p \in Process /\ p.exec = proc[i].exec /\ p.at = "dropping"
  BY <1>2, ProcessTyped DEF Process, Phases
<1>4. p.at \in Resting /\ proc[i].at \in Resting
  BY <1>1, <1>3 DEF Phases, Resting, Performing
<1> HIDE DEF p
<1>5. QED
  BY <1>1, <1>3, <1>4, RowsStand, FaultCounts, RestStep DEF RunInv

LEMMA DropOrphanGroupsStep ==
  ASSUME ReplayConstants, NEW i \in Instances PROVE RunInv /\ DropOrphanGroups(i) => RunInv'
<1> SUFFICES ASSUME RunInv, DropOrphanGroups(i) PROVE RunInv'
  OBVIOUS
<1> DEFINE p == [proc[i] EXCEPT !.at = "claiming", !.keep = NoRun]
<1>1. /\ proc[i].at = "dropping" /\ UNCHANGED <<row, orphans>>
      /\ proc' = [proc EXCEPT ![i] = p]
  BY DEF DropOrphanGroups
<1>2. group' \in [Runs -> {"absent", "empty", "joined"}] /\ faults' \in 0..MaxFaults
  BY FaultCounts DEF DropOrphanGroups, RunInv
<1>3. p \in Process /\ p.exec = proc[i].exec /\ p.at = "claiming"
  BY ProcessTyped DEF Process, Phases
<1>4. p.at \in Resting /\ proc[i].at \in Resting
  BY <1>1, <1>3 DEF Phases, Resting, Performing
<1> HIDE DEF p
<1>5. QED
  BY <1>1, <1>2, <1>3, <1>4, RowsStand, RestStep

(* A claim: the row is taken up by the process that claims it, or by nobody *)
(* when the answer of the COMMIT is lost.                                  *)
LEMMA ClaimedTable ==
  ASSUME RunInv, ReplayConstants, NEW i \in Instances, NEW r \in Runs, row[r].status = "queued",
         row' = Claimed(r, i)
  PROVE  /\ RowsMove
         /\ row'[r].status = "running" /\ row'[r].owner = i
         /\ \A q \in Runs : q # r => row'[q] = row[q]
<1>1. row' = [row EXCEPT ![r] = [row[r] EXCEPT !.status = "running", !.owner = i, !.age = 0]]
  BY DEF Claimed
<1>2. row[r] \in Row /\ 0 \in 0..(StaleAfter + QueueTimeout)
  BY RowTyped DEF ReplayConstants
<1>3. row'[r] = [row[r] EXCEPT !.status = "running", !.owner = i, !.age = 0]
      /\ \A q \in Runs : q # r => row'[q] = row[q]
  BY <1>1 DEF RunInv
<1>4. row'[r] \in Row /\ row'[r].status = "running" /\ row'[r].owner = i
      /\ row'[r].episodes = row[r].episodes
  BY <1>2, <1>3 DEF Row, Statuses
<1>5. row' \in [Runs -> Row]
  BY <1>1, <1>3, <1>4 DEF RunInv
<1>6. \A q \in Runs : Onward(q) /\ RowInv(q)'
  <2> SUFFICES ASSUME NEW q \in Runs PROVE Onward(q) /\ RowInv(q)'
    OBVIOUS
  <2>1. RowInv(q)
    BY DEF RunInv
  <2>2. CASE q = r
    BY <1>4, <2>1, <2>2 DEF Onward, RowInv
  <2>3. CASE q # r
    BY <1>3, <2>1, <2>3 DEF Onward, RowInv
  <2>4. QED
    BY <2>2, <2>3
<1>7. QED
  BY <1>3, <1>4, <1>5, <1>6 DEF RowsMove

LEMMA ClaimStep ==
  ASSUME ReplayConstants, NEW i \in Instances PROVE RunInv /\ Claim(i) => RunInv'
<1> SUFFICES ASSUME RunInv, Claim(i) PROVE RunInv'
  OBVIOUS
<1>1. proc[i].at = "claiming" /\ proc[i].at \in Resting /\ group' \in [Runs -> {"absent", "empty", "joined"}]
  BY DEF Claim, Resting, Phases, Performing, RunInv
<1>2. CASE GoTo(i, "idle") /\ UNCHANGED <<row, orphans, faults>>
  <2>1. proc' = [proc EXCEPT ![i] = [proc[i] EXCEPT !.at = "idle"]]
    BY <1>2 DEF GoTo
  <2>2. "idle" \in Phases /\ "idle" \in Resting
    BY DEF Phases, Resting, Performing
  <2> DEFINE p == [proc[i] EXCEPT !.at = "idle"]
  <2>3. p \in Process /\ p.at = "idle" /\ p.exec = proc[i].exec
    BY <2>2, ChangesOfProcess
  <2> HIDE DEF p
  <2>4. proc' = [proc EXCEPT ![i] = p]
    BY <2>1 DEF p
  <2>5. QED
    BY <1>1, <1>2, <2>2, <2>3, <2>4, RowsStand, FaultCounts, RestStep
<1>3. ASSUME NEW r \in Runs, row[r].status = "queued", row' = Claimed(r, i),
             \/ /\ proc' = [proc EXCEPT ![i].at = "planning",
                                        ![i].exec = [NoExecution EXCEPT !.run = r,
                                           !.stop = IF proc[i].stopping THEN "failed" ELSE "none"]]
                /\ UNCHANGED <<orphans, faults>>
             \/ /\ Fault
                /\ orphans' = orphans \cup {r}
                /\ GoTo(i, "idle")
      PROVE  RunInv'
  <2>1. /\ RowsMove /\ row'[r].status = "running" /\ row'[r].owner = i
        /\ \A q \in Runs : q # r => row'[q] = row[q]
    BY <1>3, ClaimedTable
  <2>2. CASE /\ proc' = [proc EXCEPT ![i].at = "planning",
                                     ![i].exec = [NoExecution EXCEPT !.run = r,
                                        !.stop = IF proc[i].stopping THEN "failed" ELSE "none"]]
             /\ UNCHANGED <<orphans, faults>>
    <3> DEFINE e == [NoExecution EXCEPT !.run = r, !.stop = IF proc[i].stopping THEN "failed" ELSE "none"]
               p == [proc[i] EXCEPT !.at = "planning", !.exec = e]
    <3>1. /\ e \in Exec /\ e.run = r /\ e.stop \in {"none", "failed"} /\ e.watch = "off"
          /\ e.failure = "none" /\ e.read = 0 /\ e.total = 0
      <4>1. r \in Runs \cup {NoRun} /\ (IF proc[i].stopping THEN "failed" ELSE "none") \in {"none", "failed"}
        BY <1>3
      <4>2. QED
        BY <4>1, EmptyExecution DEF Exec
    <3> HIDE DEF e
    <3>2. p \in Process /\ p.at = "planning" /\ p.exec = e
      <4>1. "planning" \in Phases
        BY DEF Phases, Performing
      <4>2. proc[i] \in Process
        BY ProcessTyped
      <4>3. QED
        BY <3>1, <4>1, <4>2 DEF Process
    <3>3. proc' = [proc EXCEPT ![i] = p]
      BY <2>2 DEF e
    <3> HIDE DEF p
    <3>4. proc'[i] = p /\ r # NoRun
      BY <3>3 DEF RunInv, Runs, NoRun
    <3>5. OwnInv(i)'
      BY <2>1, <3>1, <3>2, <3>4 DEF OwnInv
    <3>6. ExecInv(i)'
      BY <3>1, <3>2, <3>4 DEF ExecInv, Knows, Performing
    <3>7. \A q \in Runs : row'[q].status = "running" /\ q \notin orphans' =>
            \/ row'[q].owner = i /\ p.exec.run = q /\ p.at \in Performing
            \/ row[q].status = "running" /\ ~(proc[i].exec.run = q /\ proc[i].at \in Performing)
      BY <1>1, <2>1, <3>1, <3>2 DEF Performing, Resting
    <3>8. QED
      BY <1>1, <2>1, <2>2, <3>2, <3>3, <3>5, <3>6, <3>7, FaultCounts, ActorStep DEF RunInv
  <2>3. CASE Fault /\ orphans' = orphans \cup {r} /\ GoTo(i, "idle")
    <3> DEFINE p == [proc[i] EXCEPT !.at = "idle"]
    <3>1. proc' = [proc EXCEPT ![i] = p]
      BY <2>3 DEF GoTo
    <3>2. p \in Process /\ p.at = "idle" /\ p.exec = proc[i].exec
      <4>1. "idle" \in Phases
        BY DEF Phases
      <4>2. QED
        BY <4>1, ChangesOfProcess
    <3> HIDE DEF p
    <3>3. proc'[i] = p /\ ExecInv(i) /\ proc[i].exec.run = NoRun
      BY <1>1, <3>1 DEF RunInv, ExecInv, Knows, Resting
    <3>4. OwnInv(i)' /\ ExecInv(i)'
      BY <3>2, <3>3 DEF OwnInv, ExecInv, Knows, Performing
    <3>5. \A q \in Runs : row'[q].status = "running" /\ q \notin orphans' =>
            row[q].status = "running" /\ ~(proc[i].exec.run = q /\ proc[i].at \in Performing)
      BY <1>1, <2>1, <2>3 DEF Resting
    <3>6. orphans' \subseteq Runs /\ orphans \subseteq orphans' /\ faults' \in 0..MaxFaults
      BY <2>3, FaultCounts DEF RunInv
    <3>7. QED
      BY <1>1, <2>1, <3>1, <3>2, <3>4, <3>5, <3>6, ActorStep
  <2>4. QED
    BY <1>3, <2>2, <2>3
<1>4. QED
  BY <1>2, <1>3 DEF Claim

-------------------------------------------------------------------------------
(* A step of an executor: what has to be shown of it. *)
LEMMA ExecutorStep ==
  ASSUME ReplayConstants, RunInv, RowsMove, NoneClaimed, NEW i \in Instances, NEW p \in Process,
         proc' = [proc EXCEPT ![i] = p],
         group' \in [Runs -> {"absent", "empty", "joined"}],
         orphans \subseteq orphans', orphans' \subseteq Runs, faults' \in 0..MaxFaults,
         p.exec.run = proc[i].exec.run, Knows(p.at, p.exec)',
         proc[i].at \in Performing =>
           \/ p.at \in Performing
           \/ p.exec.run \in orphans'
           \/ row'[p.exec.run].status # "running"
  PROVE  RunInv'
<1>1. proc'[i] = p
  BY DEF RunInv
<1>2. ExecInv(i)'
  BY <1>1 DEF ExecInv, Knows
<1>3. QED
  BY <1>2, PhaseStep

(* Its frame: what holds before the step, and the two ways it changes its   *)
(* process.                                                                *)
LEMMA ExecutorKnows ==
  ASSUME RunInv, NEW i \in Instances
  PROVE  /\ Knows(proc[i].at, proc[i].exec) /\ OwnInv(i)
         /\ group \in [Runs -> {"absent", "empty", "joined"}] /\ orphans \subseteq Runs
         /\ proc[i].at \in Performing => proc[i].exec.run \in Runs /\ proc[i].exec.run # NoRun
  BY ProcessTyped DEF RunInv, ExecInv, Knows

LEMMA KnowsMore ==
  ASSUME RunInv, RowsMove, NoneClaimed, orphans \subseteq orphans', NEW i \in Instances,
         NEW at, NEW e, Knows(at, e), e.run = proc[i].exec.run
  PROVE  Knows(at, e)'
<1>1. e.run \in Runs \cup {NoRun}
  BY ProcessTyped
<1>2. e.run # NoRun => (row[e.run].status # "running" => row'[e.run].status # "running")
  BY <1>1 DEF NoneClaimed
<1>3. e.failure = "written" => e.run # NoRun
  BY DEF Knows
<1>4. QED
  BY <1>2, <1>3 DEF Knows

(* A step that writes to no row.                                            *)
LEMMA SilentStep ==
  ASSUME ReplayConstants, RunInv, UNCHANGED <<row, orphans>>, NEW i \in Instances, NEW p \in Process,
         proc' = [proc EXCEPT ![i] = p],
         group' \in [Runs -> {"absent", "empty", "joined"}], faults' \in 0..MaxFaults,
         p.exec.run = proc[i].exec.run, Knows(p.at, p.exec),
         proc[i].at \in Performing =>
           \/ p.at \in Performing
           \/ p.exec.run \in orphans
           \/ row[p.exec.run].status # "running"
  PROVE  RunInv'
<1>1. RowsMove /\ NoneClaimed
  BY RowsStand
<1>2. Knows(p.at, p.exec)'
  BY <1>1, KnowsMore
<1>3. orphans \subseteq orphans' /\ orphans' \subseteq Runs
  BY DEF RunInv
<1>4. QED
  BY <1>1, <1>2, <1>3, ExecutorStep

LEMMA PlanStep ==
  ASSUME ReplayConstants, NEW i \in Instances PROVE RunInv /\ Plan(i) => RunInv'
<1> SUFFICES ASSUME RunInv, Plan(i) PROVE RunInv'
  OBVIOUS
<1> DEFINE e == proc[i].exec
<1>1. /\ proc[i].at = "planning" /\ UNCHANGED <<row, group, orphans>>
      /\ proc[i] \in Process /\ e \in Exec /\ Knows("planning", e)
      /\ group' \in [Runs -> {"absent", "empty", "joined"}]
  BY ProcessTyped, ExecutorKnows DEF Plan
<1>2. faults' \in 0..MaxFaults
  BY FaultCounts DEF Plan
<1>3. CASE Throw(i)
  <2> DEFINE p == [proc[i] EXCEPT !.at = "failing"]
  <2>1. p \in Process /\ p.at = "failing" /\ p.exec = e /\ p.at \in Performing
    BY <1>1 DEF Process, Phases, Performing
  <2>2. proc' = [proc EXCEPT ![i] = p]
    BY <1>3 DEF Throw, GoTo
  <2> HIDE DEF p
  <2>3. Knows(p.at, p.exec)
    BY <1>1, <2>1 DEF Knows, Performing
  <2>4. QED
    BY <1>1, <1>2, <2>1, <2>2, <2>3, SilentStep
<1>4. CASE /\ e.stop # "failed"
           /\ proc' = [proc EXCEPT ![i].at = "finishing", ![i].exec.stop = "done"]
  <2> DEFINE d == [e EXCEPT !.stop = "done"]
             p == [proc[i] EXCEPT !.at = "finishing", !.exec = d]
  <2>1. /\ d \in Exec /\ d.stop = "done" /\ d.run = e.run /\ d.watch = e.watch
        /\ d.failure = e.failure /\ d.read = e.read /\ d.total = e.total
    BY <1>1 DEF Exec
  <2>2. proc' = [proc EXCEPT ![i] = p]
    BY <1>4
  <2> HIDE DEF d
  <2>3. p \in Process /\ p.at = "finishing" /\ p.exec = d /\ p.at \in Performing
    BY <1>1, <2>1 DEF Process, Phases, Performing
  <2> HIDE DEF p
  <2>4. Knows(p.at, p.exec)
    BY <1>1, <1>4, <2>1, <2>3 DEF Knows, Performing
  <2>5. QED
    BY <1>1, <1>2, <2>1, <2>2, <2>3, <2>4, SilentStep
<1>5. ASSUME NEW w \in 1..MaxWindow, e.stop # "failed",
             proc' = [proc EXCEPT ![i].at = "naming", ![i].exec.total = w]
      PROVE  RunInv'
  <2> DEFINE d == [e EXCEPT !.total = w]
             p == [proc[i] EXCEPT !.at = "naming", !.exec = d]
  <2>1. /\ d \in Exec /\ d.stop = e.stop /\ d.run = e.run /\ d.watch = e.watch
        /\ d.failure = e.failure /\ d.read = e.read
    <3>1. w \in 0..MaxWindow
      BY DEF ReplayConstants
    <3>2. QED
      BY <1>1, <3>1 DEF Exec
  <2>2. proc' = [proc EXCEPT ![i] = p]
    BY <1>5
  <2> HIDE DEF d
  <2>3. p \in Process /\ p.at = "naming" /\ p.exec = d /\ p.at \in Performing
    BY <1>1, <2>1 DEF Process, Phases, Performing
  <2> HIDE DEF p
  <2>4. Knows(p.at, p.exec)
    BY <1>1, <1>5, <2>1, <2>3 DEF Knows, Performing
  <2>5. QED
    BY <1>1, <1>2, <2>1, <2>2, <2>3, <2>4, SilentStep
<1>6. QED
  BY <1>3, <1>4, <1>5 DEF Plan

(* An executor that only moves on.                                          *)
LEMMA GoToStep ==
  ASSUME ReplayConstants, RunInv, RowsMove, NoneClaimed, NEW i \in Instances, NEW phase \in Phases,
         GoTo(i, phase), UNCHANGED <<group, orphans>>, faults' \in 0..MaxFaults,
         Knows(phase, proc[i].exec),
         proc[i].at \in Performing =>
           \/ phase \in Performing
           \/ proc[i].exec.run \in orphans
           \/ row'[proc[i].exec.run].status # "running"
  PROVE  RunInv'
<1> DEFINE q == [proc[i] EXCEPT !.at = phase]
<1>0. q \in Process /\ q.at = phase /\ q.exec = proc[i].exec
  BY ChangesOfProcess
<1>2. proc' = [proc EXCEPT ![i] = q]
  BY DEF GoTo
<1> HIDE DEF q
<1>1. PICK p \in Process : p = q /\ p.at = phase /\ p.exec = proc[i].exec
  BY <1>0
<1>3. Knows(p.at, p.exec)'
  <2>1. Knows(p.at, p.exec)
    BY <1>1
  <2>2. orphans \subseteq orphans' /\ p.exec.run = proc[i].exec.run
    BY <1>1
  <2>3. QED
    BY <2>1, <2>2, KnowsMore
<1>4. proc' = [proc EXCEPT ![i] = p]
  BY <1>1, <1>2
<1>5. QED
  BY <1>1, <1>3, <1>4, ExecutorStep DEF RunInv

(* The condition of every write of an executor asks for the owner and the   *)
(* status; for the executor the status says it all.                        *)
LEMMA MineIs ==
  ASSUME RunInv, NEW i \in Instances, proc[i].exec.run # NoRun
  PROVE  Mine(i) <=> row[proc[i].exec.run].status = "running"
<1>1. OwnInv(i)
  BY DEF RunInv
<1>2. QED
  BY <1>1 DEF OwnInv, Mine, MineIn

LEMMA BeatenTable ==
  ASSUME ReplayConstants, RunInv, NEW i \in Instances, proc[i].exec.run \in Runs, Mine(i),
         row' = Beaten(i)
  PROVE  RowsMove /\ NoneClaimed
<1> DEFINE r == proc[i].exec.run
           x == proc[i].exec.read
           y == proc[i].exec.total
<1>1. r \in Runs /\ row[r] \in Row /\ x \in 0..MaxWindow /\ y \in 0..MaxWindow
      /\ 0 \in 0..(StaleAfter + QueueTimeout)
  BY RowTyped, ProcessTyped DEF ReplayConstants
<1>2. row[r].status = "running"
  BY DEF Mine, MineIn
<1>3. row' = [row EXCEPT ![r] = [row[r] EXCEPT !.age = 0, !.read = x, !.total = y]]
  BY DEF Beaten
<1> HIDE DEF r, x, y
<1>4. row'[r] = [row[r] EXCEPT !.age = 0, !.read = x, !.total = y]
      /\ \A q \in Runs : q # r => row'[q] = row[q]
  BY <1>1, <1>3 DEF RunInv
<1>5. row'[r] \in Row /\ row'[r].status = "running" /\ row'[r].owner = row[r].owner
      /\ row'[r].episodes = row[r].episodes
  BY <1>1, <1>2, <1>4 DEF Row
<1>6. row' \in [Runs -> Row]
  BY <1>1, <1>3, <1>5 DEF RunInv
<1>7. \A q \in Runs : Onward(q) /\ RowInv(q)'
  <2> SUFFICES ASSUME NEW q \in Runs PROVE Onward(q) /\ RowInv(q)'
    OBVIOUS
  <2>1. RowInv(q)
    BY DEF RunInv
  <2>2. CASE q = r
    BY <1>2, <1>5, <2>1, <2>2 DEF Onward, RowInv
  <2>3. CASE q # r
    BY <1>4, <2>1, <2>3 DEF Onward, RowInv
  <2>4. QED
    BY <2>2, <2>3
<1>8. QED
  BY <1>2, <1>4, <1>5, <1>6, <1>7 DEF RowsMove, NoneClaimed

LEMMA NameGroupStep ==
  ASSUME ReplayConstants, NEW i \in Instances PROVE RunInv /\ NameGroup(i) => RunInv'
<1> SUFFICES ASSUME RunInv, NameGroup(i) PROVE RunInv'
  OBVIOUS
<1> DEFINE e == proc[i].exec
<1>1. /\ proc[i].at = "naming" /\ proc[i].at \in Performing /\ UNCHANGED <<group, orphans>>
      /\ proc[i] \in Process /\ e \in Exec /\ Knows("naming", e)
      /\ e.run \in Runs /\ e.run # NoRun /\ e.stop \in {"none", "done", "failed"}
  BY ProcessTyped, ExecutorKnows DEF NameGroup, Performing
<1>2. faults' \in 0..MaxFaults
  BY FaultCounts DEF NameGroup
<1>3. RowsMove /\ NoneClaimed
  BY <1>1, BeatenTable, RowsStand DEF NameGroup
<1>4. "failing" \in Phases /\ "failing" \in Performing /\ "releasing" \in Phases
  BY DEF Phases, Performing
<1>5. Knows("failing", e) /\ Knows("releasing", e)
  BY <1>1 DEF Knows, Performing
<1>6. CASE Throw(i)
  BY <1>1, <1>2, <1>3, <1>4, <1>5, <1>6, GoToStep DEF Throw
<1>7. CASE row' = row /\ ~Mine(i) /\ GoTo(i, "releasing")
  <2>1. row'[e.run].status # "running"
    BY <1>1, <1>7, MineIs
  <2>2. QED
    BY <1>1, <1>2, <1>3, <1>4, <1>5, <1>7, <2>1, GoToStep
<1>8. CASE /\ e.stop # "failed"
           /\ proc' = [proc EXCEPT ![i].at = "reading", ![i].exec.watch = "waiting",
                                   ![i].exec.consumer = "connecting"]
  <2> DEFINE d == [e EXCEPT !.watch = "waiting", !.consumer = "connecting"]
             q == [proc[i] EXCEPT !.at = "reading", !.exec = d]
  <2>1. /\ d \in Exec /\ d.stop = e.stop /\ d.run = e.run /\ d.watch = "waiting"
        /\ d.failure = e.failure /\ d.read = e.read /\ d.total = e.total
    BY <1>1 DEF Exec
  <2>2. proc' = [proc EXCEPT ![i] = q]
    BY <1>8
  <2> HIDE DEF d
  <2>3. PICK p \in Process : p = q /\ p.at = "reading" /\ p.exec = d /\ p.at \in Performing
    <3>1. q \in Process /\ q.at = "reading" /\ q.exec = d /\ q.at \in Performing
      BY <1>1, <2>1 DEF Process, Phases, Performing
    <3>2. QED
      BY <3>1
  <2>4. Knows(p.at, p.exec)
    BY <1>1, <1>8, <2>1, <2>3 DEF Knows, Performing
  <2>5. p.exec.run = e.run /\ orphans \subseteq orphans' /\ orphans' \subseteq Runs
        /\ group' \in [Runs -> {"absent", "empty", "joined"}]
    BY <1>1, <2>1, <2>3 DEF RunInv
  <2>6. Knows(p.at, p.exec)'
    BY <1>3, <2>4, <2>5, KnowsMore
  <2>7. QED
    BY <1>1, <1>2, <1>3, <2>2, <2>3, <2>5, <2>6, ExecutorStep
<1>9. QED
  BY <1>6, <1>7, <1>8 DEF NameGroup

(* An executor whose latch, watch or consumer changes while it stays where  *)
(* it is.                                                                  *)
LEMMA LatchStep ==
  ASSUME ReplayConstants, RunInv, UNCHANGED <<row, orphans>>, NEW i \in Instances, NEW d \in Exec,
         proc' = [proc EXCEPT ![i] = [proc[i] EXCEPT !.exec = d]],
         group' \in [Runs -> {"absent", "empty", "joined"}], faults' \in 0..MaxFaults,
         d.run = proc[i].exec.run, Knows(proc[i].at, d)
  PROVE  RunInv'
<1> DEFINE p == [proc[i] EXCEPT !.exec = d]
<1>1. p \in Process /\ p.at = proc[i].at /\ p.exec = d
  BY ProcessTyped DEF Process
<1>2. proc' = [proc EXCEPT ![i] = p]
  OBVIOUS
<1> HIDE DEF p
<1>3. QED
  BY <1>1, <1>2, SilentStep

LEMMA ConnectStep ==
  ASSUME ReplayConstants, NEW i \in Instances PROVE RunInv /\ Connect(i) => RunInv'
<1> SUFFICES ASSUME RunInv, Connect(i) PROVE RunInv'
  OBVIOUS
<1> DEFINE e == proc[i].exec
<1>1. /\ proc[i].at = "reading" /\ proc[i].at \in Performing /\ UNCHANGED <<row, orphans>>
      /\ e \in Exec /\ Knows("reading", e) /\ e.run \in Runs /\ e.stop \in {"none", "done", "failed"}
  BY ProcessTyped, ExecutorKnows DEF Connect, Performing
<1>2. faults' \in 0..MaxFaults /\ group' \in [Runs -> {"absent", "empty", "joined"}]
  BY <1>1, FaultCounts DEF Connect, RunInv
<1>3. CASE proc' = [proc EXCEPT ![i].exec.consumer = "running"]
  <2> DEFINE d == [e EXCEPT !.consumer = "running"]
  <2>1. /\ d \in Exec /\ d.stop = e.stop /\ d.run = e.run /\ d.watch = e.watch
        /\ d.failure = e.failure /\ d.read = e.read /\ d.total = e.total
    BY <1>1 DEF Exec
  <2>2. proc' = [proc EXCEPT ![i] = [proc[i] EXCEPT !.exec = d]]
    BY <1>3
  <2> HIDE DEF d
  <2>3. Knows(proc[i].at, d)
    BY <1>1, <2>1 DEF Knows
  <2>4. QED
    BY <1>1, <1>2, <2>1, <2>2, <2>3, LatchStep
<1>4. CASE proc' = [proc EXCEPT ![i].exec.consumer = "broken", ![i].exec.stop = Settle(i, "failed")]
  <2> DEFINE d == [e EXCEPT !.consumer = "broken", !.stop = Settle(i, "failed")]
  <2>1. Settle(i, "failed") = IF e.stop = "none" THEN "failed" ELSE e.stop
    BY DEF Settle
  <2>2. /\ d \in Exec /\ d.run = e.run /\ d.watch = e.watch
        /\ d.failure = e.failure /\ d.read = e.read /\ d.total = e.total
        /\ d.stop = IF e.stop = "none" THEN "failed" ELSE e.stop
    BY <1>1, <2>1 DEF Exec
  <2>3. proc' = [proc EXCEPT ![i] = [proc[i] EXCEPT !.exec = d]]
    BY <1>4
  <2> HIDE DEF d
  <2>4. Knows(proc[i].at, d)
    BY <1>1, <2>2 DEF Knows
  <2>5. QED
    BY <1>1, <1>2, <2>2, <2>3, <2>4, LatchStep
<1>5. QED
  BY <1>3, <1>4 DEF Connect

LEMMA ReadStep ==
  ASSUME ReplayConstants, NEW i \in Instances PROVE RunInv /\ Read(i) => RunInv'
<1> SUFFICES ASSUME RunInv, Read(i) PROVE RunInv'
  OBVIOUS
<1> DEFINE e == proc[i].exec
           stop == IF e.read + 1 = e.total THEN "done" ELSE "none"
           d == [e EXCEPT !.read = e.read + 1, !.stop = stop]
<1>1. /\ proc[i].at = "reading" /\ proc[i].at \in Performing /\ UNCHANGED <<row, group, orphans, faults>>
      /\ e \in Exec /\ Knows("reading", e) /\ e.stop = "none" /\ e.read < e.total
      /\ e.read \in 0..MaxWindow /\ e.total \in 0..MaxWindow
  BY ProcessTyped, ExecutorKnows DEF Read, Performing
<1>2. e.read + 1 \in 0..MaxWindow /\ stop \in {"none", "done"}
  BY <1>1 DEF ReplayConstants
<1>3. /\ d \in Exec /\ d.run = e.run /\ d.watch = e.watch /\ d.stop = stop
      /\ d.failure = e.failure /\ d.read = e.read + 1 /\ d.total = e.total
  BY <1>1, <1>2 DEF Exec
<1>4. proc' = [proc EXCEPT ![i] = [proc[i] EXCEPT !.exec = d]]
  BY DEF Read
<1> HIDE DEF d
<1>5. Knows(proc[i].at, d)
  BY <1>1, <1>3 DEF Knows
<1>6. QED
  BY <1>1, <1>3, <1>4, <1>5, FaultCounts, LatchStep DEF RunInv

LEMMA ReadFailsStep ==
  ASSUME ReplayConstants, NEW i \in Instances PROVE RunInv /\ ReadFails(i) => RunInv'
<1> SUFFICES ASSUME RunInv, ReadFails(i) PROVE RunInv'
  OBVIOUS
<1> DEFINE e == proc[i].exec
           d == [e EXCEPT !.stop = "failed"]
<1>1. /\ proc[i].at = "reading" /\ proc[i].at \in Performing /\ UNCHANGED <<row, group, orphans>>
      /\ e \in Exec /\ Knows("reading", e) /\ e.stop = "none" /\ faults' \in 0..MaxFaults
  BY ProcessTyped, ExecutorKnows, FaultCounts DEF ReadFails, Performing
<1>3. /\ d \in Exec /\ d.run = e.run /\ d.watch = e.watch /\ d.stop = "failed"
      /\ d.failure = e.failure /\ d.read = e.read /\ d.total = e.total
  BY <1>1 DEF Exec
<1>4. proc' = [proc EXCEPT ![i] = [proc[i] EXCEPT !.exec = d]]
  BY DEF ReadFails
<1> HIDE DEF d
<1>5. Knows(proc[i].at, d)
  BY <1>1, <1>3 DEF Knows
<1>6. QED
  BY <1>1, <1>3, <1>4, <1>5, LatchStep DEF RunInv

LEMMA WatchStep ==
  ASSUME ReplayConstants, NEW i \in Instances PROVE RunInv /\ Watch(i) => RunInv'
<1> SUFFICES ASSUME RunInv, Watch(i) PROVE RunInv'
  OBVIOUS
<1> DEFINE e == proc[i].exec
<1>1. /\ proc[i].at = "reading" /\ proc[i].at \in Performing /\ UNCHANGED <<group, orphans, faults>>
      /\ e \in Exec /\ Knows("reading", e) /\ e.run \in Runs /\ e.run # NoRun
      /\ e.stop \in {"none", "done", "failed"}
      /\ group' \in [Runs -> {"absent", "empty", "joined"}]
  BY ProcessTyped, ExecutorKnows DEF Watch, Performing
<1>2. faults' \in 0..MaxFaults
  BY <1>1, FaultCounts
<1>3. CASE e.stop # "none" /\ proc' = [proc EXCEPT ![i].exec.watch = e.stop] /\ UNCHANGED row
  <2> DEFINE d == [e EXCEPT !.watch = e.stop]
  <2>1. /\ d \in Exec /\ d.stop = e.stop /\ d.run = e.run /\ d.watch = e.stop
        /\ d.failure = e.failure /\ d.read = e.read /\ d.total = e.total
    BY <1>1, <1>3 DEF Exec
  <2>2. proc' = [proc EXCEPT ![i] = [proc[i] EXCEPT !.exec = d]]
    BY <1>3
  <2> HIDE DEF d
  <2>3. Knows(proc[i].at, d)
    BY <1>1, <2>1 DEF Knows
  <2>4. QED
    BY <1>1, <1>2, <1>3, <2>1, <2>2, <2>3, LatchStep
<1>4. CASE /\ e.stop = "none" /\ UNCHANGED row
           /\ proc' = [proc EXCEPT ![i].exec.watch = "failed", ![i].exec.stop = "failed"]
  <2> DEFINE d == [e EXCEPT !.watch = "failed", !.stop = "failed"]
  <2>1. /\ d \in Exec /\ d.stop = "failed" /\ d.run = e.run /\ d.watch = "failed"
        /\ d.failure = e.failure /\ d.read = e.read /\ d.total = e.total
    BY <1>1 DEF Exec
  <2>2. proc' = [proc EXCEPT ![i] = [proc[i] EXCEPT !.exec = d]]
    BY <1>4
  <2> HIDE DEF d
  <2>3. Knows(proc[i].at, d)
    BY <1>1, <2>1 DEF Knows
  <2>4. QED
    BY <1>1, <1>2, <1>4, <2>1, <2>2, <2>3, LatchStep
<1>5. CASE Mine(i) /\ row' = Beaten(i) /\ UNCHANGED proc
  BY <1>1, <1>2, <1>5, BeatenTable, WorldStep
<1>6. CASE /\ ~Mine(i) /\ UNCHANGED row
           /\ proc' = [proc EXCEPT ![i].exec.watch = "taken", ![i].exec.stop = "failed"]
  <2> DEFINE d == [e EXCEPT !.watch = "taken", !.stop = "failed"]
  <2>1. /\ d \in Exec /\ d.stop = "failed" /\ d.run = e.run /\ d.watch = "taken"
        /\ d.failure = e.failure /\ d.read = e.read /\ d.total = e.total
    BY <1>1 DEF Exec
  <2>2. proc' = [proc EXCEPT ![i] = [proc[i] EXCEPT !.exec = d]]
    BY <1>6
  <2> HIDE DEF d
  <2>3. row[e.run].status # "running"
    BY <1>1, <1>6, MineIs
  <2>4. Knows(proc[i].at, d)
    BY <1>1, <2>1, <2>3 DEF Knows
  <2>5. QED
    BY <1>1, <1>2, <1>6, <2>1, <2>2, <2>4, LatchStep
<1>7. QED
  BY <1>3, <1>4, <1>5, <1>6 DEF Watch

LEMMA JudgeStep ==
  ASSUME ReplayConstants, NEW i \in Instances PROVE RunInv /\ Judge(i) => RunInv'
<1> SUFFICES ASSUME RunInv, Judge(i) PROVE RunInv'
  OBVIOUS
<1> DEFINE e == proc[i].exec
           phase == IF e.watch = "taken" THEN "releasing"
                    ELSE IF e.stop = "failed" THEN "failing" ELSE "finishing"
<1>1. /\ proc[i].at = "reading" /\ proc[i].at \in Performing /\ UNCHANGED <<row, group, orphans, faults>>
      /\ Knows("reading", e) /\ e.watch \in {"done", "failed", "taken"} /\ GoTo(i, phase)
  BY ExecutorKnows DEF Judge, Performing
<1>2. phase \in Phases /\ Knows(phase, e)
  BY <1>1 DEF Knows, Phases, Performing
<1>3. phase \in Performing \/ row[e.run].status # "running"
  BY <1>1 DEF Knows, Performing
<1> HIDE DEF phase
<1>4. QED
  BY <1>1, <1>2, <1>3, RowsStand, FaultCounts, GoToStep

-------------------------------------------------------------------------------
(* The outcome of a run: its row, its episodes and the pruning of old runs. *)
LEMMA OutcomeRow ==
  ASSUME ReplayConstants, RunInv, NEW i \in Instances, NEW r \in Runs, r = proc[i].exec.run, Mine(i),
         proc[i].exec.read = proc[i].exec.total
  PROVE  /\ Outcome(i) \in [Runs -> Row]
         /\ Outcome(i)[r].status = "done" /\ Outcome(i)[r].episodes = TRUE
         /\ Outcome(i)[r].read = Outcome(i)[r].total
         /\ Outcome(i)[r].owner = row[r].owner
         /\ \A q \in Runs : q # r => Outcome(i)[q] = row[q]
<1> DEFINE x == proc[i].exec.read
           w == [row[r] EXCEPT !.status = "done", !.age = 0, !.read = x, !.total = proc[i].exec.total]
           t == [row EXCEPT ![r] = w]
<1>1. /\ row[r] \in Row /\ x \in 0..MaxWindow /\ x = proc[i].exec.total
      /\ 0 \in 0..(StaleAfter + QueueTimeout) /\ row \in [Runs -> Row]
  BY RowTyped, ProcessTyped DEF ReplayConstants, RunInv
<1>2. row[r].owner = i
  BY DEF Mine, MineIn
<1>3. w \in Row /\ w.status = "done" /\ w.owner = i /\ w.read = x /\ w.total = x
  BY <1>1, <1>2 DEF Row, Statuses
<1>4. Outcome(i) = WithEpisodes(t, i, r)
  BY DEF Outcome
<1> HIDE DEF w
<1>5. t \in [Runs -> Row] /\ t[r] = w /\ \A q \in Runs : q # r => t[q] = row[q]
  BY <1>1, <1>3
<1> HIDE DEF t
<1>6. Outcome(i) = [t EXCEPT ![r] = [w EXCEPT !.episodes = TRUE]]
  <2>1. w.episodes \in BOOLEAN
    BY <1>3 DEF Row
  <2>2. (w.episodes \/ (w.owner = i /\ w.status \in {"running", "done"})) = TRUE
    BY <1>3
  <2>3. Outcome(i) = [t EXCEPT ![r] = [t[r] EXCEPT !.episodes =
            t[r].episodes \/ (t[r].owner = i /\ t[r].status \in {"running", "done"})]]
    BY <1>4 DEF WithEpisodes
  <2>4. QED
    BY <1>5, <2>2, <2>3
<1>7. [w EXCEPT !.episodes = TRUE] \in Row
  BY <1>3 DEF Row
<1>8. QED
  BY <1>2, <1>3, <1>5, <1>6, <1>7 DEF Row

LEMMA OutcomeTable ==
  ASSUME ReplayConstants, RunInv, NEW i \in Instances, NEW r \in Runs, r = proc[i].exec.run, Mine(i),
         proc[i].exec.read = proc[i].exec.total, row' = Pruned(Outcome(i))
  PROVE  RowsMove /\ NoneClaimed /\ row'[r].status # "running"
<1> DEFINE t == Outcome(i)
           over == {q \in Runs : t[q].status \in {"done", "failed"}}
           gone == [NoRow EXCEPT !.status = "deleted"]
           newer(q) == {p \in over : p > q}
<1>1. row[r].status = "running"
  BY DEF Mine, MineIn
<1>2. /\ t \in [Runs -> Row] /\ t[r].status = "done" /\ t[r].episodes = TRUE
      /\ t[r].read = t[r].total /\ t[r].owner = row[r].owner
      /\ \A q \in Runs : q # r => t[q] = row[q]
  BY OutcomeRow
<1>3. row' = [q \in Runs |-> IF q \in over /\ Cardinality(newer(q)) >= Kept THEN gone ELSE t[q]]
  BY DEF Pruned
<1> HIDE DEF t
<1>4. gone \in Row /\ gone.status = "deleted" /\ gone.episodes = FALSE
  <2>1. NoRow \in Row /\ NoRow.episodes = FALSE
    BY DEF NoRow, Row, Statuses, ReplayConstants
  <2>2. QED
    BY <2>1 DEF Row, Statuses
<1> HIDE DEF gone
<1>5. \A q \in Runs : t[q] \in Row
  BY <1>2
<1>6. row' \in [Runs -> Row]
  BY <1>3, <1>4, <1>5
<1>7. \A q \in Runs :
        \/ row'[q] = t[q]
        \/ row'[q] = gone /\ t[q].status \in {"done", "failed"} /\ Cardinality(newer(q)) >= Kept
  BY <1>3
<1>8. \A q \in Runs : Onward(q) /\ RowInv(q)'
  <2> SUFFICES ASSUME NEW q \in Runs PROVE Onward(q) /\ RowInv(q)'
    OBVIOUS
  <2>1. RowInv(q)
    BY DEF RunInv
  <2>2. CASE row'[q] = gone /\ t[q].status \in {"done", "failed"}
    <3>1. row[q].status \in {"running", "done", "failed"}
      BY <1>1, <1>2, <2>2
    <3>2. QED
      BY <1>4, <2>2, <3>1 DEF Onward, RowInv
  <2>3. CASE row'[q] = t[q] /\ q = r
    BY <1>1, <1>2, <2>3 DEF Onward, RowInv
  <2>4. CASE row'[q] = t[q] /\ q # r
    BY <1>2, <2>1, <2>4 DEF Onward, RowInv
  <2>5. QED
    BY <1>7, <2>2, <2>3, <2>4
<1>9. ASSUME NEW q \in Runs, row'[q].status = "deleted", row[q].status # "deleted"
      PROVE  Cardinality(Newer(q)') >= Kept
  <2>1. Cardinality(newer(q)) >= Kept
    BY <1>1, <1>2, <1>7, <1>9
  <2>2. \A p \in over : row'[p].status # "none"
    BY <1>4, <1>7
  <2>3. newer(q) \subseteq Newer(q)' /\ Newer(q)' \in SUBSET Runs /\ newer(q) \in SUBSET Runs
    BY <2>2 DEF Newer
  <2> HIDE DEF newer
  <2>4. /\ Cardinality(newer(q)) <= Cardinality(Newer(q)')
        /\ Cardinality(newer(q)) \in Nat /\ Cardinality(Newer(q)') \in Nat
    BY <2>3, NewerIsFinite, FS_Subset
  <2>5. QED
    BY <2>1, <2>4 DEF ReplayConstants
<1>10. \A q \in Runs : row'[q].status = "running" => row[q].status = "running"
  BY <1>1, <1>2, <1>4, <1>7
<1>11. row'[r].status # "running"
  BY <1>2, <1>4, <1>7
<1>12. QED
  BY <1>6, <1>8, <1>9, <1>10, <1>11 DEF RowsMove, NoneClaimed

LEMMA FinishStep ==
  ASSUME ReplayConstants, NEW i \in Instances PROVE RunInv /\ Finish(i) => RunInv'
<1> SUFFICES ASSUME RunInv, Finish(i) PROVE RunInv'
  OBVIOUS
<1> DEFINE e == proc[i].exec
<1>1. /\ proc[i].at = "finishing" /\ proc[i].at \in Performing /\ UNCHANGED <<group, orphans>>
      /\ Knows("finishing", e) /\ e.run \in Runs /\ e.run # NoRun /\ e.read = e.total
  <2>1. proc[i].at = "finishing" /\ proc[i].at \in Performing /\ UNCHANGED <<group, orphans>>
    BY DEF Finish, Performing
  <2>2. Knows("finishing", e) /\ e.run \in Runs /\ e.run # NoRun
    BY <2>1, ExecutorKnows
  <2>3. e.read = e.total
    BY <2>2 DEF Knows
  <2>4. QED
    BY <2>1, <2>2, <2>3
<1>2. faults' \in 0..MaxFaults
  BY FaultCounts DEF Finish
<1>3. "failing" \in Phases /\ "failing" \in Performing /\ "releasing" \in Phases
  BY DEF Phases, Performing
<1>4. Knows("failing", e) /\ Knows("releasing", e)
  BY <1>1 DEF Knows, Performing
<1>5. CASE Mine(i) /\ row' = Pruned(Outcome(i))
  <2>1. RowsMove /\ NoneClaimed /\ row'[e.run].status # "running"
    BY <1>1, <1>5, OutcomeTable
  <2>2. GoTo(i, "releasing") \/ GoTo(i, "failing")
    BY DEF Finish, Throw
  <2>3. QED
    BY <1>1, <1>2, <1>3, <1>4, <2>1, <2>2, GoToStep
<1>6. CASE Throw(i) /\ UNCHANGED row
  <2>1. RowsMove /\ NoneClaimed
    BY <1>6, RowsStand
  <2>2. QED
    BY <1>1, <1>2, <1>3, <1>4, <1>6, <2>1, GoToStep DEF Throw
<1>7. CASE ~Mine(i) /\ UNCHANGED row /\ GoTo(i, "releasing")
  <2>1. RowsMove /\ NoneClaimed /\ row'[e.run].status # "running"
    BY <1>1, <1>7, RowsStand, MineIs
  <2>2. QED
    BY <1>1, <1>2, <1>3, <1>4, <1>7, <2>1, GoToStep
<1>8. QED
  BY <1>5, <1>6, <1>7 DEF Finish

-------------------------------------------------------------------------------
(* The failure of a run and the release of what it holds. *)
LEMMA CatchStep ==
  ASSUME ReplayConstants, NEW i \in Instances PROVE RunInv /\ Catch(i) => RunInv'
<1> SUFFICES ASSUME RunInv, Catch(i) PROVE RunInv'
  OBVIOUS
<1> DEFINE e == proc[i].exec
           d == [e EXCEPT !.failure = "writing"]
<1>1. /\ proc[i].at = "failing" /\ proc[i].at \in Performing /\ UNCHANGED <<row, group, orphans, faults>>
      /\ e \in Exec /\ Knows("failing", e) /\ e.run \in Runs /\ e.run # NoRun
  BY ProcessTyped, ExecutorKnows DEF Catch, Performing
<1>3. /\ d \in Exec /\ d.run = e.run /\ d.watch = e.watch /\ d.stop = e.stop
      /\ d.failure = "writing" /\ d.read = e.read /\ d.total = e.total
  BY <1>1 DEF Exec
<1>4. proc' = [proc EXCEPT ![i] = [proc[i] EXCEPT !.exec = d]]
  BY DEF Catch
<1> HIDE DEF d
<1>5. Knows(proc[i].at, d)
  BY <1>1, <1>3 DEF Knows
<1>6. QED
  BY <1>1, <1>3, <1>4, <1>5, FaultCounts, LatchStep DEF RunInv

LEMMA FailureWrittenStep ==
  ASSUME ReplayConstants, NEW i \in Instances PROVE RunInv /\ FailureWritten(i) => RunInv'
<1> SUFFICES ASSUME RunInv, FailureWritten(i) PROVE RunInv'
  OBVIOUS
<1> DEFINE e == proc[i].exec
<1>1. /\ proc[i].at = "failing" /\ proc[i].at \in Performing /\ UNCHANGED <<row, group, orphans, faults>>
      /\ Knows("failing", e) /\ e.failure = "written" /\ GoTo(i, "releasing")
  BY ExecutorKnows DEF FailureWritten, Performing
<1>2. "releasing" \in Phases /\ Knows("releasing", e)
  BY <1>1 DEF Knows, Phases, Performing
<1>3. e.run \in orphans \/ row'[e.run].status # "running"
  BY <1>1 DEF Knows
<1>4. QED
  BY <1>1, <1>2, <1>3, RowsStand, FaultCounts, GoToStep

LEMMA WriteFailureStep ==
  ASSUME ReplayConstants, NEW i \in Instances PROVE RunInv /\ WriteFailure(i) => RunInv'
<1> SUFFICES ASSUME RunInv, WriteFailure(i) PROVE RunInv'
  OBVIOUS
<1> DEFINE e == proc[i].exec
           d == [e EXCEPT !.failure = "written"]
           q == [proc[i] EXCEPT !.exec = d]
<1>1. /\ e.failure = "writing" /\ UNCHANGED group /\ e \in Exec /\ proc[i] \in Process
      /\ Knows(proc[i].at, e) /\ e.run \in Runs \cup {NoRun}
      /\ group' \in [Runs -> {"absent", "empty", "joined"}]
  BY ProcessTyped, ExecutorKnows DEF WriteFailure
<1>2. e.run # NoRun /\ e.run \in Runs
  BY <1>1 DEF Knows
<1>3. /\ d \in Exec /\ d.run = e.run /\ d.watch = e.watch /\ d.stop = e.stop
      /\ d.failure = "written" /\ d.read = e.read /\ d.total = e.total
  BY <1>1 DEF Exec
<1>4. proc' = [proc EXCEPT ![i] = q]
  BY DEF WriteFailure
<1> HIDE DEF d
<1>5. q \in Process /\ q.at = proc[i].at /\ q.exec = d
  BY <1>1, <1>3 DEF Process
<1> HIDE DEF q
<1>6. PICK p \in Process : p = q /\ p.at = proc[i].at /\ p.exec = d
  BY <1>5
<1>7. proc' = [proc EXCEPT ![i] = p]
  BY <1>4, <1>6
<1>8. CASE row' = FailedBy(i) /\ UNCHANGED <<orphans, faults>>
  <2>1. CASE Mine(i)
    <3>1. row' = Failed(row, {e.run}) /\ row[e.run].status = "running"
      BY <1>8, <2>1 DEF FailedBy, Mine, MineIn
    <3>2. RowsMove /\ NoneClaimed /\ row'[e.run].status = "failed"
      <4>1. {e.run} \in SUBSET Runs /\ \A r \in {e.run} : row[r].status \in {"queued", "running"}
        BY <1>2, <3>1
      <4>2. QED
        BY <3>1, <4>1, FailedTable
    <3>3. Knows(p.at, p.exec)'
      <4>1. row[e.run].status # "running" => row'[e.run].status # "running"
        BY <3>2
      <4>2. QED
        BY <1>1, <1>2, <1>3, <1>6, <3>2, <4>1 DEF Knows
    <3>4. QED
      BY <1>1, <1>3, <1>6, <1>7, <1>8, <3>2, <3>3, FaultCounts, ExecutorStep DEF RunInv
  <2>2. CASE ~Mine(i)
    <3>1. UNCHANGED row /\ row[e.run].status # "running"
      BY <1>2, <1>8, <2>2, MineIs DEF FailedBy
    <3>2. Knows(p.at, p.exec)
      BY <1>1, <1>2, <1>3, <1>6, <3>1 DEF Knows
    <3>3. QED
      BY <1>1, <1>3, <1>6, <1>7, <1>8, <3>1, <3>2, FaultCounts, SilentStep
  <2>3. QED
    BY <2>1, <2>2
<1>9. CASE Fault /\ orphans' = orphans \cup {e.run} /\ UNCHANGED row
  <2>1. RowsMove /\ NoneClaimed
    BY <1>9, RowsStand
  <2>2. orphans \subseteq orphans' /\ orphans' \subseteq Runs /\ faults' \in 0..MaxFaults
    BY <1>2, <1>9, FaultCounts DEF RunInv
  <2>3. Knows(p.at, p.exec)'
    BY <1>1, <1>2, <1>3, <1>6, <1>9 DEF Knows
  <2>4. QED
    BY <1>1, <1>3, <1>6, <1>7, <2>1, <2>2, <2>3, ExecutorStep
<1>10. QED
  BY <1>8, <1>9 DEF WriteFailure

LEMMA ReleaseStep ==
  ASSUME ReplayConstants, NEW i \in Instances PROVE RunInv /\ Release(i) => RunInv'
<1> SUFFICES ASSUME RunInv, Release(i) PROVE RunInv'
  OBVIOUS
<1> DEFINE q == [proc[i] EXCEPT !.at = "idle", !.exec = NoExecution]
<1>1. /\ proc[i].at = "releasing" /\ UNCHANGED <<row, orphans, faults>> /\ proc[i] \in Process
      /\ proc' = [proc EXCEPT ![i] = q]
  BY ProcessTyped DEF Release
<1>2. group' \in [Runs -> {"absent", "empty", "joined"}]
  BY DEF Release, RunInv
<1>3. q \in Process /\ q.at = "idle" /\ q.exec = NoExecution
  BY <1>1, EmptyExecution DEF Process, Phases
<1> HIDE DEF q
<1>4. PICK p \in Process : p = q /\ p.at = "idle" /\ p.exec = NoExecution
  BY <1>3
<1>5. proc' = [proc EXCEPT ![i] = p] /\ proc'[i] = p
  BY <1>1, <1>4 DEF RunInv
<1>6. RowsMove
  BY <1>1, RowsStand
<1>7. OwnInv(i)'
  BY <1>4, <1>5, EmptyExecution DEF OwnInv
<1>8. ExecInv(i)'
  BY <1>4, <1>5, EmptyExecution DEF ExecInv, Knows, Performing
<1>9. \A r \in Runs : row'[r].status = "running" /\ r \notin orphans' =>
        row[r].status = "running" /\ ~(proc[i].exec.run = r /\ proc[i].at \in Performing)
  BY <1>1 DEF Performing
<1>10. QED
  BY <1>1, <1>2, <1>5, <1>6, <1>7, <1>8, <1>9, FaultCounts, ActorStep DEF RunInv

-------------------------------------------------------------------------------
(* The life of a process. *)
LEMMA ShutdownStep ==
  ASSUME ReplayConstants, NEW i \in Instances PROVE RunInv /\ Shutdown(i) => RunInv'
<1> SUFFICES ASSUME RunInv, Shutdown(i) PROVE RunInv'
  OBVIOUS
<1> DEFINE e == proc[i].exec
           failure == IF e.failure = "none" THEN "writing" ELSE e.failure
           d == [e EXCEPT !.stop = "failed", !.failure = failure]
           now == proc[i].at \in Performing /\ e.stop = "none"
           q == [proc[i] EXCEPT !.stopping = TRUE, !.exec = IF now THEN d ELSE e]
<1>1. /\ UNCHANGED <<row, group, orphans>> /\ proc[i] \in Process /\ e \in Exec
      /\ Knows(proc[i].at, e) /\ faults' \in 0..MaxFaults
      /\ group' \in [Runs -> {"absent", "empty", "joined"}]
      /\ e.failure \in {"none", "writing", "written"}
  BY ProcessTyped, ExecutorKnows, FaultCounts DEF Shutdown
<1>2. proc' = [proc EXCEPT ![i] = q]
  BY DEF Shutdown
<1>3. /\ d \in Exec /\ d.run = e.run /\ d.watch = e.watch /\ d.stop = "failed"
      /\ d.failure = failure /\ d.read = e.read /\ d.total = e.total
  BY <1>1 DEF Exec
<1> HIDE DEF d
<1>4. q \in Process /\ q.at = proc[i].at /\ q.exec = IF now THEN d ELSE e
  BY <1>1, <1>3 DEF Process
<1> HIDE DEF q
<1>5. q.exec.run = e.run
  BY <1>3, <1>4
<1>6. Knows(q.at, q.exec)
  <2>1. CASE ~now
    BY <1>1, <1>4, <2>1
  <2>2. CASE now
    <3>1. proc[i].at # "finishing" /\ e.watch \notin {"done", "failed"} /\ e.run # NoRun
      BY <1>1, <2>2 DEF Knows
    <3>2. Knows(proc[i].at, d)
      BY <1>1, <1>3, <2>2, <3>1 DEF Knows
    <3>3. QED
      BY <1>4, <2>2, <3>2
  <2>3. QED
    BY <2>1, <2>2
<1>7. QED
  BY <1>1, <1>2, <1>4, <1>5, <1>6, SilentStep

LEMMA ExitStep ==
  ASSUME ReplayConstants, NEW i \in Instances PROVE RunInv /\ Exit(i) => RunInv'
<1> SUFFICES ASSUME RunInv, Exit(i) PROVE RunInv'
  OBVIOUS
<1>1. /\ proc[i].at = "idle" /\ GoTo(i, "down") /\ UNCHANGED <<row, group, orphans, faults>>
      /\ Knows("idle", proc[i].exec)
  BY ExecutorKnows DEF Exit
<1>2. "down" \in Phases /\ Knows("down", proc[i].exec)
  BY <1>1 DEF Phases, Knows, Performing
<1>3. QED
  BY <1>1, <1>2, RowsStand, FaultCounts, GoToStep DEF Performing

LEMMA StartStep ==
  ASSUME ReplayConstants, NEW i \in Instances PROVE RunInv /\ Start(i) => RunInv'
<1> SUFFICES ASSUME RunInv, Start(i) PROVE RunInv'
  OBVIOUS
<1>1. /\ proc[i].at = "down" /\ proc[i].at \in Resting /\ UNCHANGED <<row, group, orphans, faults>>
      /\ proc' = [proc EXCEPT ![i] = Idle]
  BY DEF Start, Resting, Phases, Performing
<1>2. Idle \in Process /\ Idle.at \in Resting /\ Idle.exec = NoExecution
  BY EmptyExecution DEF Idle, Process, Resting, Phases, Performing
<1>3. QED
  BY <1>1, <1>2, RowsStand, FaultCounts, RestStep DEF RunInv

LEMMA CrashStep ==
  ASSUME ReplayConstants, NEW i \in Instances PROVE RunInv /\ Crash(i) => RunInv'
<1> SUFFICES ASSUME RunInv, Crash(i) PROVE RunInv'
  OBVIOUS
<1> DEFINE e == proc[i].exec
           q == [Idle EXCEPT !.at = "down"]
<1>1. /\ UNCHANGED <<row, group>> /\ proc' = [proc EXCEPT ![i] = q] /\ faults' \in 0..MaxFaults
      /\ orphans' = IF e.run # NoRun THEN orphans \cup {e.run} ELSE orphans
      /\ e.run \in Runs \cup {NoRun}
  BY ProcessTyped, FaultCounts DEF Crash
<1>2. q \in Process /\ q.at = "down" /\ q.exec = NoExecution
  BY EmptyExecution DEF Idle, Process, Phases, Performing
<1> HIDE DEF q
<1>3. PICK p \in Process : p = q /\ p.at = "down" /\ p.exec = NoExecution
  BY <1>2
<1>4. proc' = [proc EXCEPT ![i] = p] /\ proc'[i] = p
  BY <1>1, <1>3 DEF RunInv
<1>5. RowsMove /\ orphans \subseteq orphans' /\ orphans' \subseteq Runs
  BY <1>1, RowsStand DEF RunInv
<1>6. OwnInv(i)'
  BY <1>3, <1>4, EmptyExecution DEF OwnInv
<1>7. ExecInv(i)'
  BY <1>3, <1>4, EmptyExecution DEF ExecInv, Knows, Performing
<1>8. \A r \in Runs : row'[r].status = "running" /\ r \notin orphans' =>
        row[r].status = "running" /\ ~(proc[i].exec.run = r /\ proc[i].at \in Performing)
  BY <1>1 DEF Runs, NoRun
<1>9. QED
  BY <1>1, <1>4, <1>5, <1>6, <1>7, <1>8, ActorStep DEF RunInv

-------------------------------------------------------------------------------
LEMMA RunsStep == ASSUME ReplayConstants PROVE RunInv /\ [Next]_vars => RunInv'
<1> SUFFICES ASSUME RunInv, [Next]_vars PROVE RunInv'
  OBVIOUS
<1>1. CASE CreateRun \/ ExpireQueued \/ TimePasses
  BY <1>1, CreateRunStep, ExpireQueuedStep, TimePassesStep
<1>2. ASSUME NEW i \in Instances, Tick(i) PROVE RunInv'
  BY <1>2, RecoverStaleStep, ReadKeptStep, DropOrphanGroupsStep, ClaimStep DEF Tick
<1>3. ASSUME NEW i \in Instances, Perform(i) PROVE RunInv'
  BY <1>3, PlanStep, NameGroupStep, ConnectStep, WatchStep, JudgeStep, FinishStep, CatchStep,
     WriteFailureStep, FailureWrittenStep, ReleaseStep DEF Perform
<1>4. ASSUME NEW i \in Instances,
             Read(i) \/ ReadFails(i) \/ Shutdown(i) \/ Exit(i) \/ Crash(i) \/ Start(i)
      PROVE  RunInv'
  BY <1>4, ReadStep, ReadFailsStep, ShutdownStep, ExitStep, CrashStep, StartStep
<1>5. CASE \E r \in Runs : SessionEnds(r)
  BY <1>5, SessionEndsStep
<1>6. CASE UNCHANGED vars
  BY <1>6, RowsStand, FaultCounts, WorldStep DEF vars, RunInv
<1>7. QED
  BY <1>1, <1>2, <1>3, <1>4, <1>5, <1>6 DEF Next

(* Whoever ends a run, what its row says is whole: a run in work has an     *)
(* executor or is known to have lost it, a run that is done has read its   *)
(* whole window and carries its episodes, a failed one carries none, and   *)
(* the newest finished runs are not pruned (replay-runner.service.ts and   *)
(* replay.ts of the store).                                                *)
THEOREM RunsStayWhole == ASSUME ReplayConstants PROVE Spec => []RunsAreWhole
<1>1. Init => RunInv
  BY RunsInit
<1>2. RunInv /\ [Next]_vars => RunInv'
  BY RunsStep
<1>3. RunInv => RunsAreWhole
  BY RunIsWhole
<1>4. QED
  BY <1>1, <1>2, <1>3, PTL DEF Spec

-------------------------------------------------------------------------------
(* A finished run: who writes rows, and why none of them writes this one.   *)
Stands(r) == row'[r] = row[r] \/ row'[r].status = "deleted"

LEMMA FailedStand ==
  ASSUME NEW rs, row' = Failed(row, rs), NEW r \in Runs, r \notin rs PROVE Stands(r)
  BY DEF Failed, Stands

LEMMA BeatenStand ==
  ASSUME RunInv, NEW i \in Instances, Mine(i), row' = Beaten(i), NEW r \in Runs, Finished(r)
  PROVE  Stands(r)
<1>1. r # proc[i].exec.run
  BY DEF Mine, MineIn, Finished
<1>2. QED
  BY <1>1 DEF RunInv, Beaten, Stands

LEMMA PrunedStand ==
  ASSUME ReplayConstants, RunInv, NEW i \in Instances, proc[i].exec.run \in Runs, Mine(i),
         proc[i].exec.read = proc[i].exec.total,
         row' = Pruned(Outcome(i)), NEW r \in Runs, Finished(r)
  PROVE  Stands(r)
<1>1. r # proc[i].exec.run
  BY DEF Mine, MineIn, Finished
<1>2. Outcome(i)[r] = row[r]
  BY <1>1, OutcomeRow
<1>3. row'[r] = Outcome(i)[r] \/ row'[r] = [NoRow EXCEPT !.status = "deleted"]
  BY DEF Pruned
<1>4. [NoRow EXCEPT !.status = "deleted"].status = "deleted"
  BY DEF NoRow
<1>5. QED
  BY <1>2, <1>3, <1>4 DEF Stands

LEMMA RunOutcomeStep ==
  ASSUME ReplayConstants, RunInv, [Next]_vars, NEW r \in Runs, Finished(r) PROVE Stands(r)
<1>1. row[r].status \in {"done", "failed"} /\ row[r] \in Row
  BY RowTyped DEF Finished
<1>2. CASE UNCHANGED row
  BY <1>2 DEF Stands
<1>3. CASE CreateRun
  <2>1. PICK q \in Runs : row[q].status = "none" /\ row' = [row EXCEPT ![q].status = "queued"]
    BY <1>3 DEF CreateRun
  <2>2. QED
    BY <1>1, <2>1 DEF RunInv, Stands
<1>4. CASE ExpireQueued
  <2> DEFINE rs == {q \in Runs : row[q].status = "queued" /\ row[q].age >= QueueTimeout}
  <2>1. row' = Failed(row, rs) /\ r \notin rs
    BY <1>1, <1>4 DEF ExpireQueued
  <2>2. QED
    BY <2>1, FailedStand
<1>5. CASE TimePasses
  <2>1. row'[r] = [row[r] EXCEPT !.age = row[r].age]
    BY <1>1, <1>5 DEF TimePasses
  <2>2. QED
    BY <1>1, <2>1 DEF Row, Stands
<1>6. ASSUME NEW i \in Instances, RecoverStale(i) PROVE Stands(r)
  <2>1. row' = Failed(row, Stale) /\ r \notin Stale
    BY <1>1, <1>6 DEF RecoverStale, Stale
  <2>2. QED
    BY <2>1, FailedStand
<1>7. ASSUME NEW i \in Instances, NEW q \in Runs, row[q].status = "queued", row' = Claimed(q, i)
      PROVE  Stands(r)
  <2>1. r # q
    BY <1>1, <1>7
  <2>2. QED
    BY <1>7, <2>1, ClaimedTable DEF Stands
<1>8. ASSUME NEW i \in Instances, NameGroup(i) \/ Watch(i) PROVE Stands(r)
  <2>1. CASE Mine(i) /\ row' = Beaten(i)
    BY <2>1, BeatenStand
  <2>2. QED
    BY <1>2, <1>8, <2>1 DEF NameGroup, Watch
<1>9. ASSUME NEW i \in Instances, Finish(i) PROVE Stands(r)
  <2>1. CASE Mine(i) /\ row' = Pruned(Outcome(i))
    <3>1. Knows("finishing", proc[i].exec) /\ proc[i].exec.run \in Runs
      BY <1>9, ExecutorKnows DEF Finish, Performing
    <3>2. proc[i].exec.read = proc[i].exec.total
      BY <3>1 DEF Knows
    <3>3. QED
      BY <2>1, <3>1, <3>2, PrunedStand
  <2>2. QED
    BY <1>2, <1>9, <2>1 DEF Finish
<1>10. ASSUME NEW i \in Instances, WriteFailure(i) PROVE Stands(r)
  <2>1. CASE Mine(i) /\ row' = Failed(row, {proc[i].exec.run})
    <3>1. r \notin {proc[i].exec.run}
      BY <1>1, <2>1 DEF Mine, MineIn
    <3>2. QED
      BY <2>1, <3>1, FailedStand
  <2>2. QED
    BY <1>2, <1>10, <2>1 DEF WriteFailure, FailedBy
<1>11. ASSUME NEW i \in Instances, Tick(i) PROVE Stands(r)
  BY <1>2, <1>6, <1>7, <1>11 DEF Tick, ReadKept, DropOrphanGroups, Claim
<1>12. ASSUME NEW i \in Instances, Perform(i) PROVE Stands(r)
  <2>1. CASE \/ Plan(i) \/ Connect(i) \/ Judge(i) \/ Catch(i) \/ FailureWritten(i) \/ Release(i)
    BY <1>2, <2>1 DEF Plan, Connect, Judge, Catch, FailureWritten, Release
  <2>2. QED
    BY <1>8, <1>9, <1>10, <1>12, <2>1 DEF Perform
<1>13. ASSUME NEW i \in Instances,
              Read(i) \/ ReadFails(i) \/ Shutdown(i) \/ Exit(i) \/ Crash(i) \/ Start(i)
       PROVE  Stands(r)
  BY <1>2, <1>13 DEF Read, ReadFails, Shutdown, Exit, Crash, Start
<1>14. CASE \E q \in Runs : SessionEnds(q)
  BY <1>2, <1>14 DEF SessionEnds
<1>15. QED
  BY <1>2, <1>3, <1>4, <1>5, <1>11, <1>12, <1>13, <1>14 DEF Next, vars

(* The outcome of a run is written once: the recovery of abandoned runs,    *)
(* the shutdown, the executor and the gateway never change a finished run; *)
(* only the pruning removes it.                                            *)
THEOREM RunOutcomesStand == ASSUME ReplayConstants PROVE Spec => OutcomeStands
<1>1. RunInv /\ [Next]_vars =>
        [\A r \in Runs : Finished(r) => \/ row'[r] = row[r]
                                        \/ row'[r].status = "deleted"]_vars
  BY RunOutcomeStep DEF Stands
<1>2. Init => RunInv
  BY RunsInit
<1>3. RunInv /\ [Next]_vars => RunInv'
  BY RunsStep
<1>4. QED
  BY <1>1, <1>2, <1>3, PTL DEF Spec, OutcomeStands

===============================================================================
