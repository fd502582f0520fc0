------------------------------ MODULE LabConsumers ------------------------------
(***************************************************************************)
(* Three experiments of kafka-lab with one consumer each.                  *)
(*                                                                         *)
(* commits.ts: commits before and after the work.  Two groups read one     *)
(* topic, the handler of each falls on one message and is started again; a *)
(* third group commits without arguments and then with an explicit         *)
(* position.  idempotency.ts: a receiver gets the same batch again; rows   *)
(* go to a table with the unique key and to one without, over a single     *)
(* session of psql that answers one question at a time.  lag.ts: no        *)
(* consumer, a slow one under an even feed, a paused one under a burst,    *)
(* and one that catches up.                                                *)
(*                                                                         *)
(* Message n has the offset n - 1, a row of the sample is its number.      *)
(* What kafkajs does by itself, commit what was handled and say that a     *)
(* consumer has crashed, is external.  One trouble may come from outside:  *)
(* a heartbeat or a commit is refused, or the group rebalances and the     *)
(* consumer reads again what it has not confirmed.                         *)
(***************************************************************************)
EXTENDS Integers, Sequences, FiniteSets, SequencesExt

CONSTANTS
  Messages, Block, TrapMessages,    \* commits
  Sample,                           \* the receiver
  FeedPlan,    \* lag: the partition of message n is FeedPlan[n % its length + 1]
  Prefill, FeedBatch, MaxFeeds, MaxMarks, Burst

VARIABLES log, group, work, rows, step, report, trouble
lab == <<log, group, work, rows, step, report, trouble>>

-------------------------------------------------------------------------------
(* Commits before and after the work. *)

Rounds ==
  <<[of |-> "auto", falls |-> TRUE], [of |-> "auto", falls |-> FALSE],
    [of |-> "manual", falls |-> TRUE], [of |-> "manual", falls |-> FALSE],
    [of |-> "trap", falls |-> FALSE], [of |-> "trap", falls |-> FALSE]>>

Mute == 5          (* the round that commits without arguments *)

Round == Rounds[step.round]
Running(of) == step.phase = "run" /\ Round.of = of
CrashAt == IF Round.falls THEN log.crashAt ELSE 0

Consumer(at) == [at |-> at, buffer |-> <<>>, last |-> 0, alive |-> TRUE, from |-> -1, read |-> -1]

CommitsInit ==
  /\ log \in [crashAt : 1..Messages]
  /\ group = [auto |-> -1, manual |-> -1, trap |-> -1]
  /\ rows = [auto |-> <<>>, manual |-> <<>>]
  /\ work = Consumer(0)
  /\ step = [round |-> 1, phase |-> "join"]
  /\ report = [dropped |-> <<>>, autoStop |-> -1, manualStop |-> -1, mute |-> <<>>, explicit |-> <<>>]
  /\ trouble = 0

(* A new consumer begins at the committed position, or at the beginning.   *)
Join ==
  /\ step.phase = "join"
  /\ work' = Consumer(IF group[Round.of] < 0 THEN 0 ELSE group[Round.of])
  /\ step' = [step EXCEPT !.phase = "run"]
  /\ UNCHANGED <<log, group, rows, report, trouble>>

Awaited == IF Round.of = "trap" THEN TrapMessages ELSE Messages
Handles(of) == Running(of) /\ work.alive /\ work.at < Awaited
Id == work.at + 1

(* autoRound: numbers go to the base by the block. *)
Buffered == IF Len(work.buffer) + 1 = Block THEN <<>> ELSE Append(work.buffer, Id)
Flushed == IF Len(work.buffer) + 1 = Block THEN Append(work.buffer, Id) ELSE <<>>

(* The heartbeat after the work is refused: the message counts as not      *)
(* handled, whatever became of its number.                                 *)
HandleAuto(refused) ==
  /\ Handles("auto") /\ Id # CrashAt
  /\ rows' = [rows EXCEPT !.auto = @ \o Flushed]
  /\ work' = [work EXCEPT !.buffer = Buffered, !.alive = ~refused,
                          !.at = IF refused THEN @ ELSE Id, !.last = IF refused THEN @ ELSE Id]
  /\ UNCHANGED <<log, step, report>>

AutoHandles == HandleAuto(FALSE) /\ UNCHANGED <<group, trouble>>

(* kafkajs commits what was handled, now and when the handler falls.       *)
AutoCommits ==
  /\ Running("auto") /\ work.alive /\ work.at > 0 /\ group.auto # work.at
  /\ group' = [group EXCEPT !.auto = work.at]
  /\ UNCHANGED <<log, work, rows, step, report, trouble>>

AutoFalls ==
  /\ Handles("auto") /\ Id = CrashAt
  /\ work' = [work EXCEPT !.alive = FALSE]
  /\ group' = [group EXCEPT !.auto = IF work.at > 0 THEN work.at ELSE @]
  /\ UNCHANGED <<log, rows, step, report, trouble>>

AutoRefused ==
  /\ trouble = 0 /\ trouble' = 1
  /\ HandleAuto(TRUE)
  /\ group' \in {group, [group EXCEPT !.auto = IF work.at > 0 THEN work.at ELSE @]}

(* manualRound: the number is written at once, the position confirmed by   *)
(* the block.                                                              *)
HandleManual(refused) ==
  /\ Handles("manual") /\ Id # CrashAt
  /\ rows' = [rows EXCEPT !.manual = Append(@, Id)]
  /\ group' = [group EXCEPT !.manual = IF Id % Block = 0 /\ ~refused THEN Id ELSE @]
  /\ refused => Id % Block = 0
  /\ work' = [work EXCEPT !.alive = ~refused, !.at = Id, !.last = IF refused THEN @ ELSE Id]
  /\ UNCHANGED <<log, step, report>>

ManualHandles == HandleManual(FALSE) /\ UNCHANGED trouble

ManualFalls ==
  /\ Handles("manual") /\ Id = CrashAt
  /\ work' = [work EXCEPT !.alive = FALSE]
  /\ UNCHANGED <<log, group, rows, step, report, trouble>>

ManualRefused == trouble = 0 /\ trouble' = 1 /\ HandleManual(TRUE)

(* trapRound: a batch is confirmed as a whole; without arguments kafkajs   *)
(* confirms nothing.  A refused commit begins again at what is confirmed.  *)
TrapReads ==
  /\ Handles("trap")
  /\ \E upto \in Id..TrapMessages :
       /\ work' = [work EXCEPT !.at = upto, !.from = IF @ < 0 THEN work.at ELSE @, !.read = upto - 1]
       /\ group' = [group EXCEPT !.trap = IF step.round = Mute THEN @ ELSE upto]
  /\ UNCHANGED <<log, rows, step, report, trouble>>

TrapRefused ==
  /\ Handles("trap") /\ trouble = 0 /\ trouble' = 1
  /\ work' = [work EXCEPT !.at = IF group.trap < 0 THEN 0 ELSE group.trap,
                          !.from = IF @ < 0 THEN work.at ELSE @]
  /\ UNCHANGED <<log, group, rows, step, report>>

-------------------------------------------------------------------------------
(* What the round was waited for, and what is read off after it.           *)

Ended ==
  IF Round.falls THEN ~work.alive
  ELSE IF Round.of = "trap" THEN work.read = TrapMessages - 1
  ELSE work.last = Messages

Trap == <<work.from, work.read, group.trap>>

Observe ==
  /\ step.phase = "run" /\ Ended
  /\ report' = CASE step.round = 1 -> [report EXCEPT !.dropped = work.buffer, !.autoStop = group.auto]
                 [] step.round = 3 -> [report EXCEPT !.manualStop = group.manual]
                 [] step.round = 5 -> [report EXCEPT !.mute = Trap]
                 [] step.round = 6 -> [report EXCEPT !.explicit = Trap]
                 [] step.round \in {2, 4} -> report
  /\ rows' = [rows EXCEPT !.auto = IF step.round = 2 THEN @ \o work.buffer ELSE @]
  /\ step' = IF step.round < Len(Rounds) THEN [round |-> step.round + 1, phase |-> "join"]
             ELSE [step EXCEPT !.phase = "concluded"]
  /\ UNCHANGED <<log, group, work, trouble>>

(* A consumer that has crashed in a round that waits for its end: the wait *)
(* runs out and the experiment with it.                                    *)
CommitsFail ==
  /\ step.phase = "run" /\ ~work.alive /\ ~Ended
  /\ step' = [step EXCEPT !.phase = "failed"]
  /\ UNCHANGED <<log, group, work, rows, report, trouble>>

CommitsMoves ==
  \/ Join \/ AutoHandles \/ AutoCommits \/ AutoFalls \/ ManualHandles \/ ManualFalls
  \/ TrapReads \/ Observe \/ CommitsFail
CommitsNext == CommitsMoves \/ AutoRefused \/ ManualRefused \/ TrapRefused

-------------------------------------------------------------------------------
(* A receiver that gets the same batch again. *)

AllRows == [k \in 1..Sample |-> k]

SinkInit ==
  /\ log = <<>>
  /\ group = 0
  /\ work = [runs |-> FALSE, at |-> 0, upto |-> 0, asked |-> "nobody"]
  /\ rows = [keyed |-> {}, plain |-> 0]
  /\ step = "send"
  /\ report = [delivered |-> 0, keyed |-> 0, plain |-> 0, failed |-> FALSE,
               before |-> 0, repeated |-> -1, resent |-> -1, keyless |-> -1]
  /\ trouble = 0

Idle == work.upto = 0
Starts(at) == [work EXCEPT !.runs = TRUE, !.at = at]

SendSample ==
  /\ step = "send"
  /\ log' = AllRows
  /\ work' = Starts(0)
  /\ step' = "first"
  /\ UNCHANGED <<group, rows, report, trouble>>

(* The sink: one insert into each table, then the counts. *)

(* A question while another is open is an error: here of the sink.  *)
TakeBatch ==
  /\ work.runs /\ Idle /\ work.at < Len(log)
  /\ \E upto \in (work.at + 1)..Len(log) :
       IF work.asked = "nobody"
       THEN /\ work' = [work EXCEPT !.upto = upto, !.asked = "sink"]
            /\ UNCHANGED report
       ELSE /\ work' = [work EXCEPT !.at = upto]
            /\ report' = [report EXCEPT !.failed = TRUE]
  /\ UNCHANGED <<log, group, rows, step, trouble>>

Batch == SubSeq(log, work.at + 1, work.upto)
New(batch) == ToSet(batch) \ rows.keyed

(* insertBatch into both: what is already there conflicts and does nothing.*)
Insert ==
  /\ work.asked = "sink"
  /\ rows' = [keyed |-> rows.keyed \cup ToSet(Batch), plain |-> rows.plain + Len(Batch)]
  /\ report' = [report EXCEPT !.keyed = @ + Cardinality(New(Batch)), !.plain = @ + Len(Batch),
                              !.delivered = @ + Len(Batch)]
  /\ work' = [work EXCEPT !.at = work.upto, !.upto = 0, !.asked = "nobody"]
  /\ UNCHANGED <<log, group, step, trouble>>

SinkCommits ==
  /\ work.runs /\ Idle /\ group < work.at
  /\ group' = work.at
  /\ UNCHANGED <<log, work, rows, step, report, trouble>>

ReadsAgain ==
  /\ work.runs /\ Idle /\ trouble = 0 /\ group < work.at
  /\ trouble' = 1
  /\ work' = [work EXCEPT !.at = group]
  /\ UNCHANGED <<log, group, rows, step, report>>

(* The experiment.  It asks the same session for the number of rows.       *)

Delivered(times) == ~report.failed /\ report.delivered >= times * Sample

Asks(from, times, next) ==
  /\ step = from /\ Delivered(times)
  /\ IF work.asked = "nobody"
     THEN step' = next /\ work' = [work EXCEPT !.asked = "experiment"]
     ELSE step' = "failed" /\ UNCHANGED work
  /\ UNCHANGED <<log, group, rows, report, trouble>>

Ask == Asks("first", 1, "first asked") \/ Asks("second", 2, "second asked") \/ Asks("third", 3, "third asked")

FirstAnswer ==
  /\ step = "first asked"
  /\ work' = [work EXCEPT !.asked = "nobody"]
  /\ step' = "stop"
  /\ UNCHANGED <<log, group, rows, report, trouble>>

(* stop waits for the batch at hand; then the group is empty and may be    *)
(* put back to the beginning, and the second consumer starts there.        *)
StopAndReset ==
  /\ step = "stop" /\ Idle
  /\ group' = 0
  /\ work' = Starts(0)
  /\ report' = [report EXCEPT !.before = report.keyed]
  /\ step' = "second"
  /\ UNCHANGED <<log, rows, trouble>>

(* The answer to the second question, and the same batch is sent again.    *)
SecondAnswer ==
  /\ step = "second asked"
  /\ work' = [work EXCEPT !.asked = "nobody"]
  /\ report' = [report EXCEPT !.repeated = report.keyed - report.before, !.before = report.keyed]
  /\ log' = log \o AllRows
  /\ step' = "third"
  /\ UNCHANGED <<group, rows, trouble>>

ThirdAnswer ==
  /\ step = "third asked"
  /\ work' = [work EXCEPT !.asked = "nobody"]
  /\ report' = [report EXCEPT !.resent = report.keyed - report.before,
                              !.keyless = report.delivered - rows.plain]
  /\ step' = "concluded"
  /\ UNCHANGED <<log, group, rows, trouble>>

SinkFails ==
  /\ step \in {"first", "second", "third"} /\ report.failed
  /\ step' = "failed"
  /\ UNCHANGED <<log, group, work, rows, report, trouble>>

SinkMoves ==
  \/ SendSample \/ TakeBatch \/ Insert \/ SinkCommits
  \/ Ask \/ FirstAnswer \/ StopAndReset \/ SecondAnswer \/ ThirdAnswer \/ SinkFails
SinkNext == SinkMoves \/ ReadsAgain

-------------------------------------------------------------------------------
(* The lag of a group. *)

(* A snapshot of the lag is two calls at once, the ends of the partitions  *)
(* and the committed offsets, each answered at a moment of its own.  Paces *)
(* and ages are left out: how fast the consumer is, is a choice.           *)
Partitions == {FeedPlan[k] : k \in DOMAIN FeedPlan}
Unknown == -1
NoAnswer == <<>>
Each(n) == [p \in Partitions |-> n]

(* send: which messages of a number go where is known beforehand. *)
Fed(count) ==
  [p \in Partitions |->
     log[p] + Cardinality({k \in 0..(count - 1) : FeedPlan[((report.sent + k) % Len(FeedPlan)) + 1] = p})]

LagInit ==
  /\ log = Each(0)
  /\ group = Each(Unknown)
  /\ work = [at |-> Each(0), runs |-> FALSE]
  /\ rows = [ends |-> NoAnswer, offsets |-> NoAnswer]
  /\ step = "prefill"
  /\ report = [sent |-> 0, feeds |-> 0, marks |-> 0, previous |-> Unknown, before |-> 0, after |-> 0, idle |-> 0]
  /\ trouble = 0

(* The topic and its reader. *)

Puts(count) == log' = Fed(count) /\ report' = [report EXCEPT !.sent = @ + count]

PrefillTopic ==
  /\ step = "prefill"
  /\ Puts(Prefill)
  /\ step' = "idle"
  /\ UNCHANGED <<group, work, rows, trouble>>

Feed ==
  /\ step = "grow" /\ report.feeds < MaxFeeds
  /\ log' = Fed(FeedBatch)
  /\ report' = [report EXCEPT !.sent = @ + FeedBatch, !.feeds = @ + 1]
  /\ UNCHANGED <<group, work, rows, step, trouble>>

Handle(p) ==
  /\ work.runs /\ work.at[p] < log[p]
  /\ work' = [work EXCEPT !.at[p] = @ + 1]
  /\ UNCHANGED <<log, group, rows, step, report, trouble>>

(* Commits go on for a while when the consumer is paused. *)
CommitAt(p) ==
  /\ group[p] < work.at[p] /\ work.at[p] > 0
  /\ group' = [group EXCEPT ![p] = work.at[p]]
  /\ UNCHANGED <<log, work, rows, step, report, trouble>>

ReadAgain(p) ==
  /\ trouble = 0 /\ trouble' = 1
  /\ work.runs /\ work.at[p] > group[p] /\ group[p] # Unknown
  /\ work' = [work EXCEPT !.at[p] = group[p]]
  /\ UNCHANGED <<log, group, rows, step, report>>

(* readLag. *)

Looking == step \in {"idle", "join", "grow", "settle", "before", "after", "drain"}

FetchEnds ==
  /\ Looking /\ rows.ends = NoAnswer
  /\ rows' = [rows EXCEPT !.ends = log]
  /\ UNCHANGED <<log, group, work, step, report, trouble>>

FetchOffsets ==
  /\ Looking /\ rows.offsets = NoAnswer
  /\ rows' = [rows EXCEPT !.offsets = group]
  /\ UNCHANGED <<log, group, work, step, report, trouble>>

Taken == rows.ends # NoAnswer /\ rows.offsets # NoAnswer
Larger(a, b) == IF a > b THEN a ELSE b
LagOf(p) == IF rows.offsets[p] = Unknown THEN Unknown ELSE Larger(0, rows.ends[p] - rows.offsets[p])
Reported == {p \in Partitions : rows.offsets[p] # Unknown}
Total == MapThenSumSet(LAMBDA p : LagOf(p), Reported)
Committed == MapThenSumSet(LAMBDA p : rows.offsets[p], Reported)

(* What the experiment does with a snapshot; the next one is then taken.   *)
Uses(at, next, told) ==
  /\ step = at /\ Taken
  /\ step' = next /\ report' = told
  /\ rows' = [ends |-> NoAnswer, offsets |-> NoAnswer]
  /\ UNCHANGED <<group, trouble>>

SeenIdle ==
  /\ Uses("idle", "join", [report EXCEPT !.idle = Cardinality(Reported)])
  /\ work' = [work EXCEPT !.runs = TRUE]
  /\ UNCHANGED log

SeenJoined ==
  /\ Uses("join", IF Reported = Partitions THEN "grow" ELSE "join", report)
  /\ UNCHANGED <<log, work>>

(* The feed is stopped after the last mark, and the consumer paused. *)
SeenGrowth ==
  /\ Uses("grow", IF report.marks + 1 < MaxMarks THEN "grow" ELSE "settle",
          [report EXCEPT !.marks = @ + 1])
  /\ work' = [work EXCEPT !.runs = report.marks + 1 < MaxMarks]
  /\ UNCHANGED log

SeenSettled ==
  /\ Uses("settle", IF Committed = report.previous THEN "before" ELSE "settle",
          [report EXCEPT !.previous = Committed])
  /\ UNCHANGED <<log, work>>

SeenBefore ==
  /\ Uses("before", "after", [report EXCEPT !.before = Total, !.sent = @ + Burst])
  /\ log' = Fed(Burst)
  /\ UNCHANGED work

SeenAfter ==
  /\ Uses("after", "drain", [report EXCEPT !.after = Total])
  /\ work' = [work EXCEPT !.runs = TRUE]
  /\ UNCHANGED log

SeenDrained ==
  /\ Uses("drain", IF Total = 0 THEN "concluded" ELSE "drain", report)
  /\ UNCHANGED <<log, work>>

LagReads == PrefillTopic \/ \E p \in Partitions : Handle(p)
LagCommits == \E p \in Partitions : CommitAt(p)
LagLooks ==
  \/ FetchEnds \/ FetchOffsets \/ SeenIdle \/ SeenJoined \/ SeenGrowth \/ SeenSettled
  \/ SeenBefore \/ SeenAfter \/ SeenDrained
LagNext == LagReads \/ LagCommits \/ LagLooks \/ Feed \/ \E p \in Partitions : ReadAgain(p)

-------------------------------------------------------------------------------
(* Properties. *)

Lost(base) == {id \in 1..Messages : id \notin ToSet(base)}
Twice(base) == {id \in 1..Messages : \E j, k \in DOMAIN base : j < k /\ base[j] = id /\ base[k] = id}

(* What the experiment concludes is what happened: a commit before the     *)
(* work loses exactly the numbers of the buffer that were already          *)
(* confirmed, a commit after the work loses nothing and repeats what was   *)
(* done since; a commit without arguments confirms nothing, an explicit    *)
(* one stands behind the last message that was read.                       *)
CommitsVerdict ==
  step.phase = "concluded" =>
    /\ Lost(rows.auto) = {id \in ToSet(report.dropped) : id <= report.autoStop}
    /\ Lost(rows.manual) = {}
    /\ trouble = 0 =>
         /\ Lost(rows.auto) = ToSet(report.dropped) /\ Twice(rows.auto) = {}
         /\ Twice(rows.manual) =
              {id \in 1..(log.crashAt - 1) : id > report.manualStop}
    /\ report.mute = <<0, TrapMessages - 1, -1>>
    /\ report.explicit = <<0, TrapMessages - 1, TrapMessages>>

(* An experiment that nothing disturbs comes to its conclusion. *)
CommitsDone == step.phase = "concluded" \/ trouble = 1

(* What was counted is what the tables hold, at any moment nobody writes.  *)
(* The conclusion: however often a batch came, the table with the key has  *)
(* each row once and the one without has every delivery; undisturbed, the  *)
(* repeated and the resent batch inserted nothing.                         *)
SinkVerdict ==
  /\ report.keyed = Cardinality(rows.keyed) /\ report.plain = rows.plain
  /\ step = "concluded" =>
       /\ rows.keyed = 1..Sample
       /\ report.keyless = 0
       /\ trouble = 0 => report.repeated = 0 /\ report.resent = 0 /\ report.delivered = 3 * Sample

(* An experiment that nothing disturbs comes to its conclusion. *)
SinkDone == step = "concluded" \/ trouble = 1

LagNow == MapThenSumSet(LAMBDA p : log[p] - Larger(0, group[p]), Partitions)

(* The conclusions of the experiment: without a commit there is no number; *)
(* once every partition has one and nothing is being sent, a snapshot      *)
(* shows no less than is left, though its halves are of different moments; *)
(* a burst under a paused consumer raises the lag by no more than itself;  *)
(* and a lag of nothing means that everything was handled.                 *)
LagVerdict ==
  /\ report.idle = 0
  /\ step \in {"settle", "before", "after", "drain"} /\ Taken => Total >= LagNow
  /\ step \in {"drain", "concluded"} => report.after - report.before <= Burst
  /\ step = "concluded" => group = log /\ work.at = log

(* The slow phase, the pause and the drain come to an end once the feed    *)
(* has: an experiment is concluded.                                        *)
LagDone == step = "concluded" \/ trouble = 1
================================================================================
