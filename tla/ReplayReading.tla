---------------------------- MODULE ReplayReading -----------------------------
(***************************************************************************)
(* How a replay run reads its window.  The offsets of the window are found *)
(* by time, a consumer without commits is moved to them at every join of   *)
(* its temporary group, and a tracker decides which message counts.  Every *)
(* counted frame goes through the core, which judges it with the setpoints *)
(* of both variants.  Meanwhile the broker deletes the head of the log.    *)
(*                                                                         *)
(* A partition carries one device of the run.  An offset is also the time  *)
(* at which the message was sent; `at` is the time inside the frame, and   *)
(* a collector may send a frame long after it was taken.                   *)
(*                                                                         *)
(* Sources: replay-offsets.ts, replay-core.ts, handleBatch and consume of  *)
(* replay-runner.service.ts.                                               *)
(***************************************************************************)
EXTENDS Integers, Sequences, FiniteSets, SequencesExt

CONSTANTS
  Partitions,    \* partitions of the raw topic
  Logs,          \* what the partitions may hold: a sequence of messages each
  From, To,      \* the window asked for
  EndSlack,      \* REPLAY_END_SLACK_MS
  MaxEpisodes,   \* REPLAY_MAX_EPISODES
  MaxRejoins,    \* bound: joins of the temporary group after the first
  MaxDeleted,    \* bound: messages deleted from a log by retention
  NoValue        \* a frame without a usable sample

Variants == {"baseline", "patched"}

(* The engine of the live stream with the setpoints of each variant. *)
Baseline == INSTANCE Alarms WITH MinValue <- -1, MaxValue <- 1, Hysteresis <- 0, Debounce <- 1
Patched == INSTANCE Alarms WITH MinValue <- -1, MaxValue <- 2, Hysteresis <- 1, Debounce <- 1

VARIABLES
  log,        \* the log of each partition
  low,        \* first offset the broker still has
  window,     \* PartitionWindow: start inclusive, end exclusive
  next,       \* the tracker: next offset of the window
  position,   \* where the consumer fetches
  seek,       \* the seek each partition waits for, 0: none
  paused,     \* partitions on pause
  batch,      \* the message of the batch in hand to be handled next, 0: none
  core,       \* the core, device by device
  applied,    \* offsets given to the core, in order
  latch,      \* none, done or failed
  rejoins     \* joins so far, only bounds the model

vars == <<log, low, window, next, position, seek, paused, batch, core, applied, latch, rejoins>>

High(p) == Len(log[p]) + 1

ClampTo(value, min, max) == IF value < min THEN min ELSE IF value > max THEN max ELSE value

(* fetchTopicOffsetsByTimestamp, and the end of the log when nothing is    *)
(* that late.                                                              *)
OffsetAt(messages, time) == IF time > Len(messages) THEN Len(messages) + 1 ELSE time

(* The window in offsets, from three questions to the broker taken at once:*)
(* the log does not grow here, and what retention deletes between them is  *)
(* deleted as well right after (Retention, skipLost).                      *)
PlanPartition(messages, first) ==
  LET high  == Len(messages) + 1
      start == ClampTo(OffsetAt(messages, From), first, high)
  IN [start |-> start, end |-> ClampTo(OffsetAt(messages, To + EndSlack), start, high)]

IsDone(p) == next[p] >= window[p].end

Accepts(p, from, offset) == from <= offset /\ offset < window[p].end

(* Mutant: a gap is left to be waited for. *)
SkipNothing(p, from, offset) == from

(* skipLost: a message beyond the position means that retention has taken  *)
(* what lay between.                                                       *)
SkipLost(p, from, offset) ==
  IF from >= window[p].end \/ offset <= from THEN from
  ELSE IF offset < window[p].end THEN offset ELSE window[p].end

-----------------------------------------------------------------------------
(* The core. *)

NoEpisode == 0

FreshCore ==
  [matched |-> 0, rejected |-> 0, first |-> 0, last |-> 0,
   alarm |-> [v \in Variants |-> Baseline!IdleAlarm],
   episodes |-> [v \in Variants |-> <<>>]]

Evaluate(v, mem, value, at) ==
  IF v = "baseline" THEN Baseline!EvaluateAlarm(mem, TRUE, value, at)
  ELSE Patched!EvaluateAlarm(mem, TRUE, value, at)

(* applyTransitions: a raise opens an episode, a clear closes the episode  *)
(* with the same time of raise.                                            *)
Transition(episodes, before, after, at) ==
  IF after.raised /\ ~before.raised
    THEN Append(episodes, [raised |-> at, cleared |-> NoEpisode])
  ELSE IF before.raised /\ ~after.raised
    THEN [e \in DOMAIN episodes |-> IF episodes[e].raised = before.raisedAt
                                      THEN [episodes[e] EXCEPT !.cleared = at] ELSE episodes[e]]
  ELSE episodes

Match(c, message) ==
  LET after == [v \in Variants |-> Evaluate(v, c.alarm[v], message.value, message.at)] IN
    [c EXCEPT !.matched = c.matched + 1,
              !.first = IF c.matched = 0 THEN message.at ELSE c.first,
              !.last = message.at,
              !.alarm = after,
              !.episodes = [v \in Variants |->
                 Transition(c.episodes[v], c.alarm[v], after[v], message.at)]]

InWindow(message) == From <= message.at /\ message.at < To

NotLater(c, message) == c.matched > 0 /\ message.at <= c.last

(* Mutant: copies of a redrive count. *)
CoreFrameCopies(c, message) ==
  IF message.kind = "undecodable" THEN [c EXCEPT !.rejected = c.rejected + 1]
  ELSE IF message.kind = "foreign" \/ ~InWindow(message) THEN c
  ELSE IF NotLater(c, message) \/ message.kind = "unusable" THEN [c EXCEPT !.rejected = c.rejected + 1]
  ELSE Match(c, message)

(* apply and frame: copies of a redrive and frames of other devices are    *)
(* passed over; a frame not later than the last accepted is rejected, and  *)
(* so is one processFrame cannot use, which leaves the last accepted alone.*)
CoreFrame(c, message) ==
  IF message.kind = "undecodable" THEN [c EXCEPT !.rejected = c.rejected + 1]
  ELSE IF message.kind \in {"copy", "foreign"} \/ ~InWindow(message) THEN c
  ELSE IF NotLater(c, message) \/ message.kind = "unusable" THEN [c EXCEPT !.rejected = c.rejected + 1]
  ELSE Match(c, message)

(* ReplayLimitError: one more raise than a variant may hold. *)
OverLimit(c) == \E v \in Variants : Len(c.episodes[v]) > MaxEpisodes

-----------------------------------------------------------------------------
TypeOK ==
  /\ \A p \in Partitions :
       /\ low[p] \in 1..High(p)
       /\ window[p].start \in 1..High(p) /\ window[p].end \in window[p].start..High(p)
       /\ next[p] \in window[p].start..window[p].end
       /\ position[p] \in 1..High(p)
       /\ core[p].matched + core[p].rejected <= Len(applied[p])
  /\ paused \subseteq Partitions
  /\ latch \in {"none", "done", "failed"}

Init ==
  /\ log \in Logs
  /\ low = [p \in Partitions |-> 1]
  /\ window = [p \in Partitions |-> PlanPartition(log[p], 1)]
  /\ next = [p \in Partitions |-> window[p].start]
  /\ position = [p \in Partitions |-> 1]
  /\ seek = [p \in Partitions |-> IF IsDone(p) THEN 0 ELSE next[p]]
  /\ paused = {p \in Partitions : IsDone(p)}
  /\ batch = [p \in Partitions |-> 0]
  /\ core = [p \in Partitions |-> FreshCore]
  /\ applied = [p \in Partitions |-> <<>>]
  /\ latch = "none"
  /\ rejoins = 0

(* Retention deletes the head of a log, never its last message: the topic  *)
(* goes on growing.                                                        *)
Retention(p) ==
  /\ low[p] <= MaxDeleted /\ low[p] < Len(log[p])
  /\ low' = [low EXCEPT ![p] = low[p] + 1]
  /\ UNCHANGED <<log, window, next, position, seek, paused, batch, core, applied, latch, rejoins>>

(* GROUP_JOIN, between two batches: nothing is committed, so fetching      *)
(* starts at the head of the log until the seeks of the handler take       *)
(* effect.                                                                 *)
Join ==
  /\ \A p \in Partitions : batch[p] = 0
  /\ rejoins < MaxRejoins /\ rejoins' = rejoins + 1
  /\ position' = low
  /\ seek' = [p \in Partitions |-> IF IsDone(p) THEN 0 ELSE next[p]]
  /\ paused' = {p \in Partitions : IsDone(p)}
  /\ UNCHANGED <<log, low, window, next, batch, core, applied, latch>>

Seek(p) ==
  /\ seek[p] # 0 /\ batch[p] = 0
  /\ position' = [position EXCEPT ![p] = seek[p]]
  /\ seek' = [seek EXCEPT ![p] = 0]
  /\ UNCHANGED <<log, low, window, next, paused, batch, core, applied, latch, rejoins>>

(* A fetch below the head of the log is moved to the head. *)
OutOfRange(p) ==
  /\ position[p] < low[p]
  /\ position' = [position EXCEPT ![p] = low[p]]
  /\ UNCHANGED <<log, low, window, next, seek, paused, batch, core, applied, latch, rejoins>>

Fetch(p) ==
  /\ batch[p] = 0 /\ p \notin paused /\ latch = "none"
  /\ low[p] <= position[p] /\ position[p] < High(p)
  /\ batch' = [batch EXCEPT ![p] = position[p]]
  /\ UNCHANGED <<log, low, window, next, position, seek, paused, core, applied, latch, rejoins>>

(* One message of handleBatch: the gap before it, then the core; only a    *)
(* counted message is resolved.                                            *)
HandleMessage(p) ==
  /\ batch[p] \in 1..(High(p) - 1) /\ latch = "none"
  /\ LET at == SkipLost(p, next[p], batch[p])
         c  == CoreFrame(core[p], log[p][batch[p]])
     IN \/ /\ ~Accepts(p, at, batch[p])
           /\ next' = [next EXCEPT ![p] = at]
           /\ batch' = [batch EXCEPT ![p] = batch[p] + 1]
           /\ UNCHANGED <<position, core, applied, latch>>
        \/ /\ Accepts(p, at, batch[p]) /\ OverLimit(c)
           /\ next' = [next EXCEPT ![p] = at]
           /\ latch' = "failed"
           /\ UNCHANGED <<position, core, applied, batch>>
        \/ /\ Accepts(p, at, batch[p]) /\ ~OverLimit(c)
           /\ next' = [next EXCEPT ![p] = batch[p] + 1]
           /\ core' = [core EXCEPT ![p] = c]
           /\ applied' = [applied EXCEPT ![p] = Append(applied[p], batch[p])]
           /\ position' = [position EXCEPT ![p] = batch[p] + 1]
           /\ batch' = [batch EXCEPT ![p] = batch[p] + 1]
           /\ UNCHANGED latch
  /\ UNCHANGED <<log, low, window, seek, paused, rejoins>>

(* The batch is over, however many messages the broker put in it, or is    *)
(* broken off: it is stale or the run has stopped.                         *)
EndBatch(p) ==
  /\ batch[p] # 0
  /\ batch[p] \in {High(p), position[p]} \/ seek[p] # 0 \/ latch # "none"
  /\ batch' = [batch EXCEPT ![p] = 0]
  /\ paused' = IF IsDone(p) THEN paused \cup {p} ELSE paused
  /\ latch' = IF latch = "none" /\ \A q \in Partitions : IsDone(q) THEN "done" ELSE latch
  /\ UNCHANGED <<log, low, window, next, position, seek, core, applied, rejoins>>

(* perform: a window without offsets needs no consumer. *)
NothingToRead ==
  /\ latch = "none" /\ \A p \in Partitions : window[p].start = window[p].end
  /\ latch' = "done"
  /\ UNCHANGED <<log, low, window, next, position, seek, paused, batch, core, applied, rejoins>>

Next ==
  \/ Join \/ NothingToRead
  \/ \E p \in Partitions : Retention(p) \/ Seek(p) \/ OutOfRange(p) \/ Fetch(p)
                          \/ HandleMessage(p) \/ EndBatch(p)

Spec == Init /\ [][Next]_vars

(* The broker gives batches, kafkajs applies seeks and resets, and does    *)
(* not give empty batches for ever.                                        *)
Fairness ==
  /\ WF_vars(NothingToRead)
  /\ \A p \in Partitions :
       /\ SF_vars(Seek(p)) /\ WF_vars(OutOfRange(p)) /\ WF_vars(Fetch(p))
       /\ SF_vars(HandleMessage(p)) /\ WF_vars(EndBatch(p))

FairSpec == Spec /\ Fairness

-----------------------------------------------------------------------------
(* Properties. *)

LostIn(p) == {o \in window[p].start..(next[p] - 1) : \A k \in DOMAIN applied[p] : applied[p][k] # o}

(* Joins, resets and broken batches never make the core see a message of   *)
(* the window twice or out of order.                                       *)
AppliedOnce ==
  \A p \in Partitions :
    /\ \A k \in DOMAIN applied[p] : window[p].start <= applied[p][k] /\ applied[p][k] < window[p].end
    /\ \A j, k \in DOMAIN applied[p] : j < k => applied[p][j] < applied[p][k]

(* What the tracker gives up was really deleted by the broker. *)
LossIsReal == \A p \in Partitions : \A o \in LostIn(p) : o < low[p]

(* Reference: the frames of the window that count, straight from the log:  *)
(* own frames inside [from, to) later than every earlier one.              *)
Counted(p) ==
  LET own == {o \in window[p].start..(window[p].end - 1) :
                log[p][o].kind = "frame" /\ InWindow(log[p][o])}
  IN {o \in own : \A e \in own : e < o => log[p][e].at < log[p][o].at}

(* Whatever the joins and the batches were, a run that lost nothing has    *)
(* matched the counted frames, and the episodes of a variant begin exactly *)
(* where the sample crosses its threshold after a sample back in range.    *)
OutcomeIsOfTheWindow ==
  latch = "done" => \A p \in Partitions : LostIn(p) = {} =>
    /\ core[p].matched = Cardinality(Counted(p))
    /\ \A v \in Variants :
         LET max   == IF v = "baseline" THEN 1 ELSE 2
             valued == {o \in Counted(p) : log[p][o].value # NoValue}
             above == {o \in valued : log[p][o].value > max}
             back  == {o \in valued : log[p][o].value < 1}
             begin == {o \in above : \A e \in above : e < o => \E b \in back : e < b /\ b < o}
         IN {core[p].episodes[v][k].raised : k \in DOMAIN core[p].episodes[v]}
              = {log[p][o].at : o \in begin}

(* The CHECK of core.replay_alarm_episode and its key: an episode ends     *)
(* after it begins and two of a variant never begin together.  A row that  *)
(* broke them would fail the whole outcome.                                *)
EpisodesCanBeStored ==
  \A p \in Partitions, v \in Variants :
    LET es == core[p].episodes[v] IN
      /\ \A k \in DOMAIN es : es[k].cleared # NoEpisode => es[k].cleared >= es[k].raised
      /\ \A j, k \in DOMAIN es : j # k => es[j].raised # es[k].raised

(* The window closes although retention eats it while it is being read.    *)
ReadingEnds == <>(latch # "none")

(* Every message of the window is given to the core once, or was deleted   *)
(* by retention, whatever the order of fetches, seeks and joins.           *)
ReadOnceOrLost == TypeOK /\ AppliedOnce /\ LossIsReal

(* What a reading reports depends on the window alone, and its episodes    *)
(* can be stored.                                                          *)
OutcomeIsSound == OutcomeIsOfTheWindow /\ EpisodesCanBeStored
===============================================================================
