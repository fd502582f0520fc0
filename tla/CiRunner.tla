-------------------------------- MODULE CiRunner --------------------------------
(***************************************************************************)
(* The job of CI that plays scenarios of the stand one after the other     *)
(* through the gateway: it starts a run, takes a lost answer for what it   *)
(* may have done, waits for a busy stand, watches the run to its end and   *)
(* exits with a code.                                                      *)
(*                                                                         *)
(* Of the gateway the table of runs is kept: one run is active at most,    *)
(* other people and another job under the same account start runs too.  A  *)
(* request that was given up may still arrive.  Time is what the job waits *)
(* itself; an answer takes none.                                           *)
(***************************************************************************)
EXTENDS Integers, Sequences, FiniteSets, SequencesExt

CONSTANTS
  Available,     \* the scenarios of the stand, in their order
  AskedLists,    \* lists of names a job may be given; the empty one is for all
  StartLimit,    \* conflictLimitMs in seconds
  ResultLimit,   \* resultLimitMs in seconds
  MaxStarted     \* bound: runs started

VARIABLES
  job,       \* where the job is, with the call under way
  results,   \* outcomes of the attempts that are over
  table,     \* runs: scenario, account, the attempts it counts as created in, status
  ghosts     \* starts given up by the job that may still arrive

ci == <<job, results, table, ghosts>>

PollSec == 2
ConflictRetrySec == 15
TransientRetrySec == 5
RequestTimeoutSec == 15

NoOne == 0

(* Names in the order they were asked for, each once.                      *)
Names(asked) ==
  FoldLeft(LAMBDA names, name : IF Contains(names, name) THEN names ELSE Append(names, name), <<>>, asked)
IsSelected(asked) == Available # <<>> /\ ToSet(asked) \subseteq ToSet(Available)
Selected(asked) == IF asked = <<>> THEN Available ELSE Names(asked)

NewCall(at, limit) ==
  [at |-> at, limit |-> limit, elapsed |-> 0, relogged |-> FALSE, uncertain |-> FALSE,
   pending |-> "none", met |-> NoOne]

CiInit ==
  /\ \E asked \in AskedLists :
       job = [asked |-> asked, n |-> 1, run |-> NoOne, spent |-> 0, busy |-> FALSE,
              call |-> NewCall("login", 0)]
  /\ results = <<>> /\ ghosts = {}
  /\ \E old \in {{}} \cup {{[scenario |-> s, by |-> "ci", for |-> f, status |-> "active"]} :
                             s \in ToSet(Available), f \in {{}, {1}}} :
       table = SetToSeq(old)

at == job.call.at
Scenario == Selected(job.asked)[job.n]
ActiveRuns == {r \in DOMAIN table : table[r].status = "active"}

-------------------------------------------------------------------------------
(* The stand. *)

(* A run created within the slack before an attempt counts as its own.     *)
Started(scenario, by, for) ==
  /\ ActiveRuns = {} /\ Len(table) < MaxStarted
  /\ table' = Append(table, [scenario |-> scenario, by |-> by, for |-> for, status |-> "active"])

(* What happens on the stand at any other time might as well happen when   *)
(* the job asks for it next.                                               *)
JobAsks == at \in {"start", "recover"}

(* Which scenario people play makes no difference.                         *)
OthersStart ==
  /\ JobAsks
  /\ \/ Started(Scenario, "people", {})
     \/ \E s \in ToSet(Selected(job.asked)), for \in {{job.n}, {job.n, job.n + 1}} : Started(s, "ci", for)
  /\ UNCHANGED <<job, results, ghosts>>

RunEnds(r) ==
  /\ JobAsks \/ at = "poll"
  /\ r \in ActiveRuns
  /\ \E status \in {"passed", "failed"} : table' = [table EXCEPT ![r].status = status]
  /\ UNCHANGED <<job, results, ghosts>>

GhostArrives(s) ==
  /\ JobAsks /\ s \in ghosts /\ ghosts' = ghosts \ {s}
  /\ IF ActiveRuns = {} THEN Started(s, "ci", {job.n}) ELSE UNCHANGED table
  /\ UNCHANGED <<job, results>>

-------------------------------------------------------------------------------
(* What to do about an answer. *)

Phase == IF at = "start" THEN "start" ELSE "read"
IsAmbiguous(status) == status \in {"none", "unavailable"}

WaitWithin(sec, elapsed) == IF elapsed + sec <= job.call.limit THEN "wait" ELSE "fail"

Decide(status, elapsed) ==
  IF status = "ok" THEN "accept"
  ELSE IF status = "unauthorized" THEN IF job.call.relogged THEN "fail" ELSE "relogin"
  ELSE IF status = "conflict" /\ Phase = "start"
    THEN IF job.busy THEN "fail" ELSE WaitWithin(ConflictRetrySec, elapsed)
  ELSE IF IsAmbiguous(status) THEN WaitWithin(TransientRetrySec, elapsed)
  ELSE "fail"

RetrySec(status) == IF status = "conflict" THEN ConflictRetrySec ELSE TransientRetrySec

-------------------------------------------------------------------------------
(* Attempts. *)

(* The run of an attempt without an outcome may keep the stand; an attempt *)
(* that did not begin tells nothing new of it.                             *)
StaysBusy(state) == state = "unfinished" \/ (job.busy /\ state = "not-started")

NextAttempt(n, busy) ==
  [job EXCEPT !.n = n, !.run = NoOne, !.spent = 0, !.busy = busy,
              !.call = IF n > Len(Selected(job.asked)) THEN NewCall("ended", 0)
                       ELSE NewCall("start", StartLimit)]

AttemptEnds(state, passed) ==
  /\ results' = Append(results, [state |-> state, passed |-> passed, run |-> job.run])
  /\ job' = NextAttempt(job.n + 1, StaysBusy(state))

PollAgain(spent) ==
  LET left == ResultLimit - spent
  IN  [job EXCEPT !.spent = spent + PollSec,
                  !.call = NewCall("poll", IF left > PollSec THEN left ELSE PollSec)]
Watching(r) == [PollAgain(0) EXCEPT !.run = r]

(* A call that fails ends the attempt, and before the first one the job.   *)
CallFails ==
  IF at \in {"login", "list"}
    THEN job' = [job EXCEPT !.call = NewCall("ended", 0)] /\ UNCHANGED results
    ELSE AttemptEnds(IF at = "poll" THEN "unfinished" ELSE "not-started", FALSE)

CarryOut(decision, call) ==
  \/ decision = "wait" /\ UNCHANGED results
     /\ job' = [job EXCEPT !.call = [call EXCEPT !.at = IF @ = "recover" THEN "start" ELSE @,
                                                 !.relogged = FALSE, !.pending = "none"]]
  \/ decision = "fail" /\ CallFails

(* An answer other than the wanted one, after so many seconds.             *)
Refused(status, after, met) ==
  LET elapsed == job.call.elapsed + after
      decision == Decide(status, elapsed)
      call == [job.call EXCEPT
        !.elapsed = IF decision = "wait" THEN elapsed + RetrySec(status) ELSE elapsed,
        !.uncertain = @ \/ IsAmbiguous(status), !.met = IF decision = "wait" THEN met ELSE NoOne]
  IN  IF decision = "relogin"
        THEN \/ /\ job' = [job EXCEPT !.call = [call EXCEPT !.relogged = TRUE]]
                /\ UNCHANGED results
             \/ CallFails
        ELSE IF call.uncertain /\ at = "start"
          THEN job' = [job EXCEPT !.call = [call EXCEPT !.at = "recover", !.pending = decision]]
               /\ UNCHANGED results
          ELSE CarryOut(decision, call)

Login ==
  /\ at = "login"
  /\ \/ /\ job' = [job EXCEPT !.call = NewCall("list", ResultLimit)] /\ UNCHANGED results
     \/ CallFails
  /\ UNCHANGED <<table, ghosts>>

List ==
  /\ at = "list"
  /\ IF IsSelected(job.asked) THEN job' = NextAttempt(1, FALSE) /\ UNCHANGED results ELSE CallFails
  /\ UNCHANGED <<table, ghosts>>

(* The start is taken and its answer comes, or the answer is lost, at once *)
(* or after the time of a request, with its effect done, not done or still *)
(* to come.                                                                *)
Lost == \E after \in {0, RequestTimeoutSec} : Refused("none", after, NoOne)

Start ==
  /\ at = "start"
  /\ \/ /\ Started(Scenario, "ci", {job.n})
        /\ \/ job' = Watching(Len(table')) /\ UNCHANGED results
           \/ Lost
        /\ UNCHANGED ghosts
     \/ ghosts = {} /\ ghosts' = {Scenario} /\ Lost /\ UNCHANGED table
     \/ /\ \E r \in ActiveRuns : Refused("conflict", 0, r)
        /\ UNCHANGED <<table, ghosts>>

(* Any call may be refused at once. *)
RefusedAtOnce ==
  /\ at \in {"list", "start", "poll"}
  /\ \E status \in {"unauthorized", "unavailable", "error"} : Refused(status, 0, NoOne)
  /\ UNCHANGED <<table, ghosts>>

NoAnswer ==
  /\ at \in {"list", "start", "poll"} /\ Refused("none", RequestTimeoutSec, NoOne)
  /\ UNCHANGED <<table, ghosts>>

OwnActiveRun ==
  {r \in ActiveRuns : table[r].scenario = Scenario /\ table[r].by = "ci" /\ job.n \in table[r].for}

(* Before it asks again, or gives up, the job looks for a run of its own;  *)
(* a look that fails finds none.                                           *)
Recover ==
  /\ at = "recover"
  /\ \/ \E r \in OwnActiveRun : job' = Watching(r) /\ UNCHANGED results
     \/ OwnActiveRun = {} /\ CarryOut(job.call.pending, job.call)
  /\ UNCHANGED <<table, ghosts>>

RecoverFails ==
  /\ at = "recover" /\ CarryOut(job.call.pending, job.call)
  /\ UNCHANGED <<table, ghosts>>

Poll ==
  /\ at = "poll"
  /\ LET spent == job.spent + job.call.elapsed
     IN  IF job.run \notin ActiveRuns THEN AttemptEnds("finished", table[job.run].status = "passed")
         ELSE IF spent < ResultLimit THEN job' = PollAgain(spent) /\ UNCHANGED results
         ELSE AttemptEnds("unfinished", FALSE)
  /\ UNCHANGED <<table, ghosts>>

JobStep ==
  \/ Login \/ List \/ Start \/ RefusedAtOnce \/ NoAnswer \/ Recover \/ RecoverFails \/ Poll

CiNext ==
  \/ JobStep \/ OthersStart
  \/ \E r \in DOMAIN table : RunEnds(r)
  \/ \E s \in ghosts : GhostArrives(s)

-------------------------------------------------------------------------------
(* Properties. *)

ExitCode ==
  IF Len(results) = Len(Selected(job.asked)) /\ \A n \in DOMAIN results : results[n].passed THEN 0 ELSE 1

(* The code of the job is earned: when it is zero, every scenario asked    *)
(* for has passed in a run of its own that this account started for this   *)
(* attempt, though answers were lost and runs of others came between       *)
(* (attempt, ownActiveRun, main).                                          *)
ExitIsEarned ==
  at = "ended" /\ ExitCode = 0 =>
    \A n \in DOMAIN results :
      LET run == table[results[n].run]
      IN  /\ run.status = "passed" /\ run.scenario = Selected(job.asked)[n]
          /\ run.by = "ci" /\ n \in run.for
          /\ \A m \in DOMAIN results : results[m].run = results[n].run => m = n

(* A stand that is busy is waited for only while another run than one left *)
(* without an outcome keeps it ("Занятый стенд не ждут, когда его держит   *)
(* прогон без итога", decide.ts:24).                                       *)
WaitsForNoLeftRun ==
  job.call.met # NoOne =>
    \A n \in DOMAIN results : results[n].state = "unfinished" => results[n].run # job.call.met

CiIsHonest == ExitIsEarned /\ WaitsForNoLeftRun

(* The job ends, whatever the gateway answers or does not.                 *)
CiEnded == at = "ended"
===============================================================================
