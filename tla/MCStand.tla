------------------------------- MODULE MCStand -------------------------------
(* The tools of the stand side by side: the scenarios of the gateway, the  *)
(* job of CI that plays them, the experiments of kafka-lab, one of which   *)
(* is run at a time, and the look of the gateway at the broker.            *)
EXTENDS Scenarios, Probes

CONSTANT door

Of(kind, faults) == [kind |-> kind, faults |-> faults]

(* One scenario leaves its fault to the cleaning, one has the simulator    *)
(* inject it and clears it in a step of its own.                           *)
MCScripts == {<<Of("inject", {door}), Of("wait", {})>>, <<Of("simScenario", {door}), Of("clear", {door})>>}

-----------------------------------------------------------------------------
(* Two lines, each with a breaker; a snapshot is old from 61 seconds on.   *)

Cycle(at, outcome, duration) == [at |-> at, outcome |-> outcome, duration |-> duration]

Snapshots(l) ==
  {[line |-> l, ts |-> ts, interval |-> 15, connected |-> c, cycle |-> y, reconnects |-> {1, 5},
    breakers |-> [d \in {"m-" \o l} |-> b]] :
     ts \in {0, 30}, c \in BOOLEAN, y \in {NoCycle, Cycle(1, "polled", 10), Cycle(1, "idle", 1)}, b \in {"open", "closed"}}

Latest == UNION {[ls -> UNION {Snapshots(l) : l \in ls}] : ls \in SUBSET {"l1", "l2"}}
LatestMaps == {m \in Latest : \A l \in DOMAIN m : m[l].line = l}

LineProbe(connected, atLeast, pct) ==
  [kind |-> "line", line |-> "l1", connected |-> connected, reconnectsAtLeast |-> atLeast,
   within |-> [of |-> "base", pct |-> pct]]

LineProbes == {LineProbe(c, n, pct) : c \in {Any, "yes", "no"}, n \in 0..2, pct \in {0, 20}}
BreakerProbes == {[kind |-> "breaker", device |-> "m-l1", state |-> b] : b \in {"open", "closed"}}
Context == [baselines |-> [b \in {"base"} |-> 9], dlqAtStart |-> 0]

(* "What is not in the snapshot is not confirmed" (facts.ts:237): a stale  *)
(* line confirms nothing, neither that its port is open nor that it is     *)
(* not; a probe that holds on the fresh snapshots holds with the rest too. *)
StaleNeverConfirms ==
  \A m \in LatestMaps, p \in LineProbes \cup BreakerProbes :
    LET ever == LineFactsOf(m, 3, 30)
        fresh == LineFactsOf(m, 3, 61)
    IN  Evaluate(p, fresh, Context) =>
          /\ Evaluate(p, ever, Context)
          /\ "l1" \in DOMAIN m /\ m["l1"].ts = 30

(* Snapshots that come late or twice change nothing: of every line the     *)
(* newest is kept, in whatever order they arrive.                          *)
SnapshotsInAnyOrder ==
  \A a, b \in Snapshots("l1") \cup Snapshots("l2") :
    a.line # b.line \/ a.ts # b.ts => Recorded(Recorded(<<>>, a), b) = Recorded(Recorded(<<>>, b), a)

Polls == {[now |-> n, cycle |-> c] : n \in 0..4, c \in {NoCycle} \cup {Cycle(at, o, at) : at \in 0..3, o \in {"polled", "idle"}}}
PollSeqs ==
  {s \in UNION {[1..n -> Polls] : n \in 0..3} : \A i \in DOMAIN s : i > 1 => s[i - 1].now < s[i].now}

(* A baseline is the mean of as many different polled cycles as asked, all *)
(* of them ended after the start of its step.                              *)
BaselineOfDistinctCycles ==
  \A s \in PollSeqs :
    Baseline(s, 1, 2, 3, 4).verdict = "passed" =>
      Cardinality({s[i].cycle.at : i \in {j \in DOMAIN s : s[j].cycle.outcome = "polled" /\ s[j].cycle.at >= 1}}) >= 2

Steps ==
  {[kind |-> "baseline", as |-> a, of |-> NoName, wait |-> 0] : a \in {"a", "b"}}
  \cup {[kind |-> k, as |-> NoName, of |-> o, wait |-> w] : k \in {"waitFor", "hold"}, o \in {"a", NoName}, w \in 1..2}

(* A scenario the schema accepts never looks for a baseline it has not     *)
(* taken, and its waits alone do not pass the limit of the run.            *)
AcceptedScenarioRuns ==
  \A steps \in UNION {[1..n -> Steps] : n \in 0..3} :
    AcceptsScenario([steps |-> steps, timeout |-> 3]) =>
      /\ \A i \in DOMAIN steps : Waits(steps[i]) /\ steps[i].of # NoName =>
           Cardinality({j \in 1..(i - 1) : steps[j].as = steps[i].of}) = 1
      /\ \A i, j \in DOMAIN steps : i # j => steps[i].wait + steps[j].wait <= 3

Judged ==
  StaleNeverConfirms /\ SnapshotsInAnyOrder /\ BaselineOfDistinctCycles /\ AcceptedScenarioRuns

(* What a run that is under way takes for true has been seen: stale        *)
(* snapshots confirm nothing, late ones change nothing, a baseline is of   *)
(* cycles of its own step, and no probe looks for a baseline that was      *)
(* never taken.                                                            *)
VerdictsAreEarned == (\E r \in Runs : row[r].status # "none") => Judged

-----------------------------------------------------------------------------
CONSTANTS WatchedGroups, GatewayGroups, WatchedMembers, WatchedPartitions, Window, JournalLimit, MaxHigh, MaxChanges,
  MaxBreaks, a, CiAvailable, AskedLists, StartLimit, ResultLimit, MaxStarted

VARIABLES part, log, group, work, rows, step, report, trouble,
  consumers, high, committed, changes, look, online, stage, view, breaks, history, settled,
  job, results, table, ghosts

lab == <<log, group, work, rows, step, report, trouble>>
pipeline == <<consumers, high, committed, changes, look, online, stage, view, breaks, history, settled>>
ci == <<job, results, table, ghosts>>
standVars == <<part, lab, vars, pipeline, ci>>

MCAvailable == <<"s1", "s2">>
MCAsked == {<<>>, <<"s2", "s2", "none">>}

I == INSTANCE CiRunner WITH Available <- CiAvailable
P == INSTANCE PipelineSampler WITH Groups <- WatchedGroups, Members <- WatchedMembers,
       Partitions <- WatchedPartitions, group <- consumers, connected <- online

C == INSTANCE LabConsumers WITH
       Messages <- 6, Block <- 3, TrapMessages <- 2, Sample <- 3,
       FeedPlan <- <<0, 0, 1>>, Prefill <- 3, FeedBatch <- 1, MaxFeeds <- 1, MaxMarks <- 1, Burst <- 2

(* One frame of each kind that can wait; the device of the last one is     *)
(* only added to the topology before the first redrive.                    *)
Frame(key, bytes, version) == [key |-> key, bytes |-> bytes, version |-> version]
D == INSTANCE LabDlq WITH
       Frames <- <<Frame("known", "good", 1), Frame("known", "cut", 1), Frame("late", "good", 1)>>,
       PartitionOf <- [k \in {"known", "late"} |-> IF k = "known" THEN 0 ELSE 1],
       Known <- {"known"}, Late <- "late", FinalAttempts <- 3

G == INSTANCE LabBroker WITH
       Count <- 2, Crowd <- {"k1", "k2", "k3"},
       PartitionFor <- [d \in {"x", "y", "z"} |-> IF d = "x" THEN 0 ELSE 1],
       Rounds <- 2, PlainCount <- 3,
       Versions <- [k \in {"x", "y", "z"} |-> IF k = "x" THEN 2 ELSE 1],
       Doomed <- "z", MaxCleanings <- 2
R == INSTANCE LabRun WITH RunTopics <- {"t"}, RunGroups <- {"g", "h"}, StandTopics <- {"raw"},
                          DropTries <- 2, MaxRuns <- 2, MaxTrouble <- 2

NoLab ==
  /\ log = <<>> /\ group = <<>> /\ work = <<>> /\ rows = <<>>
  /\ step = "none" /\ report = <<>> /\ trouble = 0

StandInit ==
  /\ Init
  /\ P!SamplerInit
  /\ \/ part \in {"scenarios", "ci", "pipeline"} /\ NoLab
     \/ part = "commits" /\ C!CommitsInit
     \/ part = "dlq" /\ D!DlqInit
     \/ part = "sink" /\ C!SinkInit
     \/ part = "lag" /\ C!LagInit
     \/ part = "groups" /\ G!GroupsInit
     \/ part = "topics" /\ (G!OrderInit \/ G!CompactInit)
     \/ part = "run" /\ R!RunInit
  /\ IF part = "ci" THEN I!CiInit ELSE job = 0 /\ results = <<>> /\ table = <<>> /\ ghosts = {}
  /\ part # "pipeline" => consumers = [g \in WatchedGroups |-> P!Absent]

Scenario(A) == part = "scenarios" /\ A /\ UNCHANGED <<part, lab, pipeline, ci>>
Lab(p, A) == part = p /\ A /\ UNCHANGED <<part, vars, pipeline, ci>>
Pipeline(A) == part = "pipeline" /\ A /\ UNCHANGED <<part, lab, vars, ci>>
Ci(A) == part = "ci" /\ A /\ UNCHANGED <<part, lab, vars, pipeline>>

StandNext ==
  \/ Scenario(Next) \/ Pipeline(P!SamplerNext) \/ Ci(I!CiNext)
  \/ Lab("commits", C!CommitsNext) \/ Lab("dlq", D!DlqNext) \/ Lab("sink", C!SinkNext)
  \/ Lab("lag", C!LagNext) \/ Lab("groups", G!GroupsNext) \/ Lab("topics", G!TopicsNext)
  \/ Lab("run", R!RunNext)

(* The work of an experiment goes on; what is only waited for, a commit, a *)
(* cleaning or another look, comes at some time.                           *)
StandFairness ==
  /\ \A g \in Gateways : WF_standVars(Scenario(GateStep(g))) /\ WF_standVars(Scenario(Sweep(g)))
  /\ \A r \in Runs :
       /\ WF_standVars(Scenario(RunnerStep(r))) /\ WF_standVars(Scenario(Write(r)))
       /\ WF_standVars(Scenario(~Alive(r) /\ GoesStale(r)))
  /\ WF_standVars(Lab("commits", C!CommitsMoves))
  /\ WF_standVars(Lab("dlq", D!DlqMoves))
  /\ WF_standVars(Lab("sink", C!SinkMoves))
  /\ WF_standVars(Lab("lag", C!LagReads)) /\ WF_standVars(Lab("lag", C!LagCommits))
  /\ WF_standVars(Lab("lag", C!LagLooks))
  /\ WF_standVars(Lab("groups", G!GroupsWork)) /\ WF_standVars(Lab("groups", G!Await))
  /\ WF_standVars(Lab("topics", G!TopicsMoves)) /\ WF_standVars(Lab("topics", G!LookAgain))
  /\ WF_standVars(Lab("topics", G!Clean))
  /\ WF_standVars(Lab("run", R!RunMoves))
  /\ WF_standVars(Ci(I!JobStep))
  /\ WF_standVars(Pipeline(P!Begin)) /\ WF_standVars(Pipeline(P!LookStep))
  /\ WF_standVars(Pipeline(\E g \in WatchedGroups : P!Settle(g)))

StandSpec == StandInit /\ [][StandNext]_standVars /\ StandFairness

-----------------------------------------------------------------------------
(* What a scenario takes for true was seen, what an experiment concludes   *)
(* is so, however its consumers were disturbed, and so is what the gateway *)
(* notes of the groups.                                                    *)
ConclusionsAreEarned ==
  /\ part = "scenarios" => VerdictsAreEarned
  /\ part = "ci" => I!CiIsHonest
  /\ part = "commits" => C!CommitsVerdict
  /\ part = "dlq" => D!DlqVerdict
  /\ part = "sink" => C!SinkVerdict
  /\ part = "lag" => C!LagVerdict
  /\ part = "groups" => G!GroupsVerdict
  /\ part = "topics" => G!TopicsVerdict
  /\ part = "run" => R!RunVerdict
  /\ part = "pipeline" => P!LooksAreSound

LabDone ==
  /\ part = "commits" => C!CommitsDone
  /\ part = "dlq" => D!DlqDone
  /\ part = "sink" => C!SinkDone
  /\ part = "lag" => C!LagDone
  /\ part = "groups" => G!GroupsDone
  /\ part = "topics" => G!TopicsDone
  /\ part = "run" => R!RunOver
  /\ part = "ci" => I!CiEnded
  /\ part = "pipeline" => P!CaughtUp

(* Every run of a scenario frees the stand, every experiment ends, and the *)
(* view of the broker catches up with it.                                  *)
StandEnds == StandIsFreed /\ []<>LabDone
===============================================================================
