-------------------------------- MODULE RunWatch -------------------------------
(***************************************************************************)
(* A screen that starts a run and watches it to its end over the polling   *)
(* of the gateway: a replay (useReplayLaunch, useReplayRun, useReplayRuns, *)
(* ReplayPage), a scenario (useScenarioRun, useScenarios) or a redrive of  *)
(* dead letters (useDlqRedrive).  The gateway answers a request at once     *)
(* with a picture of what is so, and the picture may arrive late.          *)
(*                                                                         *)
(* A query has one request under way; an invalidation drops that request   *)
(* and makes a new one.  Whether a run was done or has failed is the same. *)
(***************************************************************************)
EXTENDS Integers, Sequences, FiniteSets

CONSTANTS MaxRuns, MaxTroubles,
          MaxUses      \* bound: launches and choices of the reader

VARIABLES
  screen,    \* "replay", "scenario" or "redrive"
  runs,      \* the runs of the gateway, in the order of their creation
  list,      \* the list of the screen, as it was last answered
  asking,    \* the request of the list: No, or Answered with a picture of the runs
  polled,    \* what is known of a run by its own query, No: nothing yet
  polling,   \* the request of that query: No, or the status in its answer
  refused,   \* runs whose last poll failed with an error that stays
  chosen,    \* the run followed, 0: none
  launch,    \* the launch: No, Busy, or Answered with its run
  wants,     \* a 409 makes the screen follow the active run of the next list
  failure,   \* the notice of a launch refused: No, Busy, or Seen
  expired,   \* redrive: the step waited for in vain
  troubles, used

watch == <<screen, runs, list, asking, polled, polling, refused, chosen, launch, wants, failure,
           expired, troubles, used>>

No == "no"
Busy == "busy"
Answered == "answered"
Seen == "busy, run seen"
Screens == {"replay", "scenario", "redrive"}
Ids == 1..MaxRuns

Finished(status) == status = "finished"
Running(status) == status \in {"queued", "running"}
ActiveIn(pictured) == {i \in DOMAIN pictured : Running(pictured[i])}
ActiveOf(pictured) == IF ActiveIn(pictured) = {} THEN 0 ELSE CHOOSE i \in ActiveIn(pictured) : TRUE

(* The list has been read for the first time before there is a screen.    *)
WatchInit ==
  /\ screen \in Screens
  /\ runs = <<>> /\ list = <<>> /\ asking = <<No, <<>>>>
  /\ polled = [i \in Ids |-> No] /\ polling = [i \in Ids |-> No] /\ refused = {}
  /\ chosen = 0 /\ launch = <<No, 0>> /\ wants = FALSE /\ failure = No /\ expired = <<0, No>>
  /\ troubles = 0 /\ used = 0

-------------------------------------------------------------------------------
(* What the screen shows. *)

(* The address of the replay page names a run; without it the active one,  *)
(* and then the last one, is shown.                                        *)
Shown ==
  IF screen # "replay" \/ chosen # 0 THEN chosen
  ELSE IF ActiveOf(list) # 0 THEN ActiveOf(list) ELSE Len(list)

Listed(i) ==
  IF screen = "redrive" \/ i \notin DOMAIN list THEN No
  ELSE IF screen = "scenario" /\ ~Running(list[i]) THEN No
  ELSE IF list[i] = "gone" THEN No ELSE list[i]

(* A replay that is finished in the list is not asked for any more. *)
Settled(i) == screen = "replay" /\ Finished(Listed(i))

StatusOf(i) ==
  IF i = 0 THEN No
  ELSE IF Settled(i) THEN Listed(i)
  ELSE IF polled[i] # No THEN polled[i] ELSE Listed(i)

FinishedId == IF Finished(StatusOf(Shown)) /\ ~Settled(Shown) THEN Shown ELSE 0

(* The poll has met an error that another try would not mend. *)
Stopped ==
  /\ Shown \in refused
  /\ IF screen = "replay" THEN ~Settled(Shown) ELSE Running(StatusOf(Shown))

Step == IF Running(StatusOf(chosen)) THEN <<chosen, StatusOf(chosen)>> ELSE <<0, No>>

(* The run that keeps a new one from being started. *)
BlockedBy ==
  LET active == ActiveOf(list)
  IN  CASE screen = "replay" ->
             IF active # 0 /\ Shown = active /\ Finished(StatusOf(Shown)) THEN 0 ELSE active
        [] screen = "scenario" ->
             IF chosen = 0 \/ StatusOf(chosen) = No \/ Stopped THEN active
             ELSE IF ~Finished(StatusOf(chosen)) THEN chosen
             ELSE IF active # chosen THEN active ELSE 0
        [] screen = "redrive" ->
             IF Step[1] # 0 /\ ~Stopped /\ Step # expired THEN chosen ELSE 0

(* The query of the run shown goes on asking. *)
Asks(i) ==
  /\ i = Shown /\ i # 0 /\ ~Settled(i)
  /\ ~Finished(polled[i]) /\ i \notin refused
  /\ screen = "redrive" => polled[i] # No /\ Step # expired

-------------------------------------------------------------------------------
(* Effects after a change: the end of the run refreshes the list, and the  *)
(* notice that the stand is busy goes when the run it was about has ended. *)

Refreshed(request) ==
  IF FinishedId' # 0 /\ FinishedId' # FinishedId THEN <<Answered, runs'>> ELSE request

Noticed(notice) ==
  IF notice = No \/ screen # "scenario" THEN notice
  ELSE IF BlockedBy' # 0 THEN Seen ELSE IF notice = Seen THEN No ELSE notice

Effects(request, notice) ==
  /\ asking' = IF screen = "redrive" THEN <<No, <<>>>> ELSE Refreshed(request)
  /\ failure' = Noticed(notice)

-------------------------------------------------------------------------------
(* The list. *)

AskList ==
  /\ screen # "redrive" /\ asking[1] = No
  /\ asking' = <<Answered, runs>>
  /\ UNCHANGED <<screen, runs, list, polled, polling, refused, chosen, launch, wants, failure,
                 expired, troubles, used>>

(* The panel of scenarios follows a run the list names as another one; the *)
(* replay page does it after a 409 only.                                   *)
ReadList ==
  /\ asking[1] = Answered
  /\ list' = asking[2]
  /\ chosen' = LET active == ActiveOf(list')
                   follows == \/ screen = "scenario" /\ active # ActiveOf(list)
                              \/ screen = "replay" /\ wants
               IN  IF active # 0 /\ follows THEN active ELSE chosen
  /\ wants' = FALSE
  /\ UNCHANGED <<screen, runs, polled, polling, refused, launch, expired, troubles, used>>
  /\ Effects(<<No, <<>>>>, failure)

ListLost ==
  /\ asking[1] # No /\ troubles < MaxTroubles /\ troubles' = troubles + 1
  /\ asking' = <<No, <<>>>> /\ wants' = FALSE
  /\ UNCHANGED <<screen, runs, list, polled, polling, refused, chosen, launch, failure, expired,
                 used>>

-------------------------------------------------------------------------------
(* The query of one run. *)

AskRun(i) ==
  /\ Asks(i) /\ polling[i] = No
  /\ polling' = [polling EXCEPT ![i] = runs[i]]
  /\ UNCHANGED <<screen, runs, list, asking, polled, refused, chosen, launch, wants, failure,
                 expired, troubles, used>>

ReadRun(i) ==
  /\ polling[i] # No
  /\ polling' = [polling EXCEPT ![i] = No]
  /\ IF polling[i] = "gone"
     THEN refused' = refused \cup {i} /\ UNCHANGED polled
     ELSE refused' = refused \ {i} /\ polled' = [polled EXCEPT ![i] = polling[i]]
  /\ UNCHANGED <<screen, runs, list, chosen, launch, wants, expired, troubles, used>>
  /\ Effects(asking, failure)

(* No answer, 408, 429 or 5xx: asked again after a second. *)
RunLost(i) ==
  /\ polling[i] # No /\ troubles < MaxTroubles /\ troubles' = troubles + 1
  /\ polling' = [polling EXCEPT ![i] = No]
  /\ UNCHANGED <<screen, runs, list, asking, polled, refused, chosen, launch, wants, failure,
                 expired, used>>

(* No right any more, or an answer that breaks the contract. *)
RunRefused(i) ==
  /\ polling[i] # No /\ troubles < MaxTroubles /\ troubles' = troubles + 1
  /\ polling' = [polling EXCEPT ![i] = No]
  /\ refused' = refused \cup {i}
  /\ UNCHANGED <<screen, runs, list, polled, chosen, launch, wants, expired, used>>
  /\ Effects(asking, failure)

Expires ==
  /\ screen = "redrive" /\ Step[1] # 0 /\ Step # expired
  /\ expired' = Step
  /\ UNCHANGED <<screen, runs, list, asking, polled, polling, refused, chosen, launch, wants,
                 failure, troubles, used>>

-------------------------------------------------------------------------------
(* Only the limit of time of a redrive tells a run that waits from one     *)
(* that goes on.                                                           *)
First == IF screen = "redrive" THEN "queued" ELSE "running"

(* Starting a run.  The stand takes one at a time, a redrive waits for its *)
(* turn.                                                                   *)

Press ==
  /\ launch[1] = No /\ BlockedBy = 0 /\ used < MaxUses
  /\ used' = used + 1
  /\ IF screen = "redrive" \/ ActiveIn(runs) = {}
     THEN /\ Len(runs) < MaxRuns
          /\ runs' = Append(runs, First) /\ launch' = <<Answered, Len(runs) + 1>>
     ELSE launch' = <<Busy, 0>> /\ UNCHANGED runs
  /\ failure' = No
  /\ IF screen = "redrive" THEN chosen' = 0 /\ expired' = <<0, No>> ELSE UNCHANGED <<chosen, expired>>
  /\ UNCHANGED <<screen, list, asking, polled, polling, refused, wants, troubles>>

Accepted ==
  /\ launch[1] = Answered
  /\ polled' = [polled EXCEPT ![launch[2]] = First]
  /\ refused' = refused \ {launch[2]}
  /\ chosen' = launch[2] /\ launch' = <<No, 0>>
  /\ UNCHANGED <<screen, runs, list, polling, wants, expired, troubles, used>>
  /\ Effects(<<Answered, runs>>, No)

RefusedBusy ==
  /\ launch[1] = Busy
  /\ launch' = <<No, 0>>
  /\ wants' = (screen = "replay")
  /\ UNCHANGED <<screen, runs, list, polled, polling, refused, chosen, expired, troubles, used>>
  /\ Effects(IF screen = "scenario" \/ asking[1] = No THEN <<Answered, runs>> ELSE asking, Busy)

(* The answer of the launch is lost; the run may exist. *)
LaunchLost ==
  /\ launch[1] # No /\ troubles < MaxTroubles /\ troubles' = troubles + 1
  /\ launch' = <<No, 0>>
  /\ UNCHANGED <<screen, runs, list, asking, polled, polling, refused, chosen, wants, failure,
                 expired, used>>

-------------------------------------------------------------------------------
(* The reader chooses a run of the list; other tabs start runs, and the    *)
(* processor takes them to their ends; old runs are deleted.               *)

Follow(i) ==
  /\ screen = "replay" /\ i \in DOMAIN list /\ Listed(i) # No /\ chosen # i
  /\ used < MaxUses /\ used' = used + 1
  /\ chosen' = i
  /\ UNCHANGED <<screen, runs, list, polled, polling, refused, launch, wants, expired, troubles>>
  /\ Effects(asking, failure)

OthersStart ==
  /\ Len(runs) < MaxRuns /\ (screen = "redrive" \/ ActiveIn(runs) = {})
  /\ runs' = Append(runs, First)
  /\ UNCHANGED <<screen, list, asking, polled, polling, refused, chosen, launch, wants, failure,
                 expired, troubles, used>>

RunMoves(i) ==
  /\ i \in DOMAIN runs /\ runs[i] # "gone"
  /\ runs' = [runs EXCEPT ![i] = CASE @ = "queued" -> "running" [] @ = "running" -> "finished"
                                    [] @ = "finished" -> "gone"]
  /\ runs[i] = "finished" => screen = "replay" /\ i < Len(runs)
  /\ UNCHANGED <<screen, list, asking, polled, polling, refused, chosen, launch, wants, failure,
                 expired, troubles, used>>

WatchNext ==
  \/ AskList \/ ReadList \/ ListLost
  \/ \E i \in Ids :
       \/ AskRun(i) \/ ReadRun(i) \/ RunLost(i) \/ RunRefused(i)
       \/ Follow(i) \/ RunMoves(i)
  \/ Expires \/ Press \/ Accepted \/ RefusedBusy \/ LaunchLost \/ OthersStart

(* What is under way comes to its end, the timers of the queries go on,    *)
(* and the processor takes its runs to their ends.                         *)
ReadsLists == AskList \/ ReadList
ReadsRuns == Accepted \/ RefusedBusy \/ \E i \in Ids : AskRun(i) \/ ReadRun(i)
RunsEnd == \E i \in Ids : RunMoves(i) /\ Running(runs[i])

-------------------------------------------------------------------------------
(* Properties. *)

(* When the runs of the gateway have ended, the screen lets another one be *)
(* started, and shows no run as going on, unless it says that it cannot    *)
(* know (a refusal, or the time limit of a redrive).                       *)
Clear ==
  /\ BlockedBy = 0 /\ failure # Seen
  /\ Running(StatusOf(Shown)) => Stopped \/ Step = expired

(* The end of a run, once shown, is not taken back, but by the answer of   *)
(* the launch that comes after it, or when the run has been deleted.       *)
EndStays ==
  [][Shown # 0 /\ Shown' = Shown /\ Finished(StatusOf(Shown)) /\ launch # <<Answered, Shown>>
       => Finished(StatusOf(Shown)') \/ runs[Shown] = "gone"]_watch
================================================================================
