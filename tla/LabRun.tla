--------------------------------- MODULE LabRun ---------------------------------
(***************************************************************************)
(* One run of an experiment of kafka-lab (lab.ts): the traces of the last  *)
(* run are swept away, the experiment creates topics and groups that a     *)
(* registry remembers, and whatever its end the registry is tidied.  The   *)
(* process may be killed, and an answer of the broker may be lost.         *)
(*                                                                         *)
(* What the broker does on request is external: it deletes a group only    *)
(* when it is there and has no member, and a member of a dead process only *)
(* leaves when its session ends.                                           *)
(***************************************************************************)
EXTENDS Naturals, FiniteSets

CONSTANTS RunTopics, RunGroups,  \* what the experiment creates
          StandTopics,           \* topics of the stand, without the lab's prefix
          DropTries,             \* attempts to delete the groups
          MaxRuns, MaxTrouble

VARIABLES log, group, work, rows, step, report, trouble
lab == <<log, group, work, rows, step, report, trouble>>

(* log: the topics of the broker; group: how each group of the experiment  *)
(* is; work: the registry, and what the drop in progress was asked for.    *)
RunInit ==
  /\ log = StandTopics
  /\ group = [g \in RunGroups |-> "none"]
  /\ work = [topics |-> {}, groups |-> {}, drop |-> {}, tries |-> 0]
  /\ rows = 1
  /\ step = "list"
  /\ report = [clean |-> TRUE, failed |-> FALSE, left |-> FALSE]
  /\ trouble = 0

Present == {g \in RunGroups : group[g] # "none"}
IsLabName(t) == t \in RunTopics
Empty(g) == group[g] = "idle"

(* sweep: both lists are read before anything is deleted. *)
ListTraces ==
  /\ step = "list"
  /\ work' = [topics |-> {t \in log : IsLabName(t)}, groups |-> {}, drop |-> Present, tries |-> 0]
  /\ step' = "sweep"
  /\ UNCHANGED <<log, group, rows, report, trouble>>

Dropping == step \in {"sweep", "tidy"}
AllDropped == \A g \in work.drop : Empty(g)

(* dropGroups: every attempt names all the groups again, and one that is   *)
(* gone already fails it as much as one with a live member.                *)
DropGroups ==
  /\ Dropping /\ work.tries < DropTries
  /\ group' = [g \in RunGroups |-> IF g \in work.drop /\ Empty(g) THEN "none" ELSE group[g]]
  /\ IF AllDropped
     THEN step' = IF step = "sweep" THEN "sweepTopics" ELSE "tidyTopics"
     ELSE UNCHANGED step
  /\ work' = [work EXCEPT !.tries = IF AllDropped THEN 0 ELSE @ + 1]
  /\ UNCHANGED <<log, rows, report, trouble>>

(* In the sweep that fails the run before the experiment, in the tidying   *)
(* it is noted and the topics stay.                                        *)
GiveUpDrop ==
  /\ Dropping /\ work.tries = DropTries
  /\ step' = IF step = "sweep" THEN "startTidy" ELSE "left"
  /\ report' = [report EXCEPT !.failed = @ \/ step = "sweep", !.left = step = "tidy"]
  /\ UNCHANGED <<log, group, work, rows, trouble>>

DropTopics ==
  /\ step \in {"sweepTopics", "tidyTopics"}
  /\ log' = log \ {t \in work.topics : IsLabName(t)}
  /\ work' = [work EXCEPT !.topics = {}, !.drop = {}]
  /\ step' = IF step = "sweepTopics" THEN "run" ELSE "end"
  /\ report' = [report EXCEPT !.clean = step = "sweepTopics" =>
                                 Present = {} /\ {t \in log' : IsLabName(t)} = {}]
  /\ UNCHANGED <<group, rows, trouble>>

(* lab.topic: the registry learns of a topic once its creation is answered. *)
CreateTopic(t) ==
  /\ step = "run" /\ t \notin log
  /\ log' = log \cup {t}
  /\ work' = [work EXCEPT !.topics = @ \cup {t}]
  /\ UNCHANGED <<group, rows, step, report, trouble>>

CreateUnanswered(t) ==
  /\ step = "run" /\ t \notin log /\ trouble < MaxTrouble
  /\ log' = log \cup {t}
  /\ report' = [report EXCEPT !.failed = TRUE]
  /\ step' = "startTidy" /\ trouble' = trouble + 1
  /\ UNCHANGED <<group, work, rows>>

(* lab.consumer: the group is registered before the client connects, and   *)
(* is at the broker once the client joined.                                *)
RegisterGroup(g) ==
  /\ step = "run" /\ g \notin work.groups
  /\ work' = [work EXCEPT !.groups = @ \cup {g}]
  /\ UNCHANGED <<log, group, rows, step, report, trouble>>

JoinGroup(g) ==
  /\ step = "run" /\ g \in work.groups /\ group[g] = "none"
  /\ group' = [group EXCEPT ![g] = "member"]
  /\ UNCHANGED <<log, work, rows, step, report, trouble>>

Conclude ==
  /\ step = "run" /\ RunTopics \subseteq log /\ \A g \in RunGroups : group[g] # "none"
  /\ step' = "startTidy"
  /\ UNCHANGED <<log, group, work, rows, report, trouble>>

ExperimentFails ==
  /\ step = "run" /\ trouble < MaxTrouble
  /\ report' = [report EXCEPT !.failed = TRUE]
  /\ step' = "startTidy" /\ trouble' = trouble + 1
  /\ UNCHANGED <<log, group, work, rows>>

(* tidy: the clients leave first, then the groups of the registry go.  A   *)
(* client whose leaving fails stays a member until its session ends.       *)
Tidy ==
  /\ step = "startTidy"
  /\ group' = [g \in RunGroups |-> IF group[g] = "member" THEN "idle" ELSE group[g]]
  /\ work' = [work EXCEPT !.drop = work.groups, !.tries = 0]
  /\ step' = "tidy"
  /\ UNCHANGED <<log, rows, report, trouble>>

LeavingFails(g) ==
  /\ step = "startTidy" /\ group[g] = "member" /\ trouble < MaxTrouble
  /\ group' = [group EXCEPT ![g] = "lapsing"] /\ trouble' = trouble + 1
  /\ UNCHANGED <<log, work, rows, step, report>>

Killed ==
  /\ step \notin {"end", "left", "killed"} /\ trouble < MaxTrouble
  /\ group' = [g \in RunGroups |-> IF group[g] = "member" THEN "lapsing" ELSE group[g]]
  /\ trouble' = trouble + 1
  /\ step' = "killed"
  /\ UNCHANGED <<log, work, rows, report>>

SessionEnds(g) ==
  /\ group[g] = "lapsing"
  /\ group' = [group EXCEPT ![g] = "idle"]
  /\ UNCHANGED <<log, work, rows, step, report, trouble>>

RunAgain ==
  /\ step \in {"end", "left", "killed"} /\ rows < MaxRuns
  /\ rows' = rows + 1
  /\ step' = "list"
  /\ report' = [clean |-> TRUE, failed |-> FALSE, left |-> FALSE]
  /\ work' = [topics |-> {}, groups |-> {}, drop |-> {}, tries |-> 0]
  /\ UNCHANGED <<log, group, trouble>>

RunMoves ==
  \/ ListTraces \/ DropGroups \/ GiveUpDrop \/ DropTopics \/ Conclude \/ Tidy
  \/ \E t \in RunTopics : CreateTopic(t)
  \/ \E g \in RunGroups : RegisterGroup(g) \/ JoinGroup(g)
Accidents ==
  \/ ExperimentFails \/ Killed
  \/ \E t \in RunTopics : CreateUnanswered(t)
  \/ \E g \in RunGroups : LeavingFails(g)
RunNext == RunMoves \/ Accidents \/ RunAgain \/ \E g \in RunGroups : SessionEnds(g)

-------------------------------------------------------------------------------
(* Properties. *)

(* lab.ts 265-268: a run that gets as far as its experiment begins at an   *)
(* empty place, whatever the runs before left behind; the topics of the    *)
(* stand are never touched; a run that came to an end removed what it made *)
(* unless it says that it could not; and without an accident nothing is    *)
(* left.                                                                   *)
RunVerdict ==
  /\ report.clean
  /\ StandTopics \subseteq log
  /\ step = "end" /\ trouble = 0 => log = StandTopics /\ Present = {} /\ ~report.failed
  /\ step = "left" => trouble > 0 /\ report.left
  /\ trouble = 0 => ~report.failed

(* Every run ends or is killed.  *)
RunOver == step \in {"end", "left", "killed"}
===============================================================================
