-------------------------------- MODULE Ingest --------------------------------
(***************************************************************************)
(* The ingest path of stream-processor: instances of one consumer group    *)
(* read one partition of telemetry.raw.v1, decode a batch on copies of     *)
(* their memory, write it to the database in one transaction, publish the  *)
(* results and only then commit the offset.  The partition carries one     *)
(* device with one metric; the offset of a frame stands for its time,      *)
(* since one serial poller produces the frames of a device in order.       *)
(*                                                                         *)
(* Sources: ingest/raw-batch.service.ts, ingest/ingest-consumer.service.ts *)
(* and ingest/frame.ts, the store functions they call, and the behaviour   *)
(* of kafkajs and of the broker they rely on.                              *)
(***************************************************************************)
EXTENDS Alarms, FiniteSets, Sequences

CONSTANTS
  Instances,    \* processes of stream-processor
  None,         \* no instance
  Modes,        \* device modes a frame can show
  Frames,       \* messages the topic may hold, see FrameAssumption
  MaxLog,       \* bound: messages in the partition
  MaxBatch,     \* bound: messages of one fetch
  MaxAttempts,  \* MAX_ATTEMPTS of a batch before the process exits
  Faults,       \* kinds of faults that may happen in this instance of the model
  MaxFaults     \* bound: faults in a behaviour

(* A message is a live frame, a copy returned from the dead-letter queue   *)
(* (x-dlq-attempt or x-dlq-redrive-of set) or something undecodable.       *)
FrameKind == {"live", "copy", "poison"}

FaultKinds ==
  {"crash", "evict", "write", "send", "refused", "restore", "edit", "unloaded"}

ASSUME FrameAssumption ==
  /\ Frames \subseteq [kind: FrameKind, mode: Modes, value: Int \cup {NoValue}]
  /\ None \notin Instances
  /\ MaxLog \in Nat /\ MaxBatch \in Nat \ {0}
  /\ MaxAttempts \in Nat /\ MaxFaults \in Nat
  /\ Faults \subseteq FaultKinds

Offsets == 1..MaxLog

VARIABLES
  log,          \* the partition: a sequence of Frames
  committed,    \* offset of the last message confirmed by the group
  owner,        \* the member the partition is assigned to
  rules,        \* modes with an enabled setpoint, core.alarm_rules
  readings,     \* offsets whose rows are in ts.readings
  quarantine,   \* offsets with a row in core.dlq_message
  episodes,     \* offsets that opened a row of core.alarm_events
  closings,     \* <<opening, closing>> offsets of rows with cleared_at
  topics,       \* what was published: offsets and alarm transitions
  up,           \* processes running
  member,       \* "current", "stale" (left out, not aware of it) or "out"
  owned,        \* "no", "adopting" or "yes": the device in this.owned
  mem,          \* this.alarms of the device
  known,        \* AlarmRulesService.byDevice: setpoints as last read
  pos,          \* last offset before the next fetch
  pc,           \* where the batch handler is
  batch,        \* the batch being handled and its drafts
  attempts,     \* failed attempts of the partition in a row
  faults        \* faults so far, only bounds the model

database == <<readings, quarantine, episodes, closings>>
group == <<committed, owner>>
memory == <<owned, mem, known>>
vars == <<log, group, rules, database, topics, up, member, memory, pos, pc, batch,
          attempts, faults>>

-------------------------------------------------------------------------------
(* Transitions of an episode and the draft of a batch. *)

Transition == [state: {"raised", "cleared"}, raisedAt: Nat, at: Offsets]

TransitionsOf(m, ruled, value, at) ==
  IF Clears(m, ruled, value)
  THEN {[state |-> "cleared", raisedAt |-> m.raisedAt, at |-> at]}
  ELSE IF Raises(m, ruled, value)
       THEN {[state |-> "raised", raisedAt |-> at, at |-> at]}
       ELSE {}

Draft == [next: 0..MaxLog + 1, last: 0..MaxLog, mem: AlarmMemory,
          out: SUBSET Transition]

NoBatch == [next |-> 0, last |-> 0, mem |-> IdleAlarm, out |-> {}]

Openings(out) == {t.at : t \in {u \in out : u.state = "raised"}}
Closings(out) ==
  {<<t.raisedAt, t.at>> : t \in {u \in out : u.state = "cleared"}}

(* Messages of the batch of i, from the confirmed position to the last. *)
BatchOf(i) == pos[i] + 1 .. batch[i].last
OfKind(kinds, offsets) == {o \in offsets : log[o].kind \in kinds}

IsOpen(e) == e \in episodes /\ ~\E c \in closings : c[1] = e

(* Mutant: closings written before the openings of the same batch. *)
ClosingRowsFirst(out) ==
  {c \in Closings(out) : c[1] \in episodes /\ ~\E d \in closings : d[1] = c[1]}

(* UPDATE ... WHERE cleared_at IS NULL: only rows still open are closed,   *)
(* the ones this transaction has just inserted included.                   *)
ClosingRows(out) ==
  {c \in Closings(out) : /\ c[1] \in episodes \cup Openings(out)
                         /\ ~\E d \in closings : d[1] = c[1]}

(* CHECK (cleared_at IS NULL OR cleared_at >= occurred_at). *)
ConstraintHolds(out) == \A c \in ClosingRows(out) : c[1] <= c[2]

-------------------------------------------------------------------------------
Init ==
  /\ log = <<>>
  /\ committed = 0 /\ owner = None
  /\ rules \in SUBSET Modes
  /\ readings = {} /\ quarantine = {} /\ episodes = {} /\ closings = {}
  /\ topics = [readings |-> {}, dlq |-> {}, alarms |-> {}]
  /\ up = Instances
  /\ member = [i \in Instances |-> "out"]
  /\ owned = [i \in Instances |-> "no"]
  /\ mem = [i \in Instances |-> IdleAlarm]
  /\ known = [i \in Instances |-> rules]
  /\ pos = [i \in Instances |-> 0]
  /\ pc = [i \in Instances |-> "idle"]
  /\ batch = [i \in Instances |-> NoBatch]
  /\ attempts = [i \in Instances |-> 0]
  /\ faults = 0

Fault(kind) ==
  /\ kind \in Faults
  /\ faults < MaxFaults
  /\ faults' = faults + 1

(* The collector publishes a frame, or the redrive returns a copy. *)
Produce ==
  /\ Len(log) < MaxLog
  /\ \E f \in Frames : log' = Append(log, f)
  /\ UNCHANGED <<group, rules, database, topics, up, member, memory, pos, pc, batch,
                 attempts, faults>>

-------------------------------------------------------------------------------
(* Group membership and handover. *)

Current == {i \in up : member[i] = "current"}

(* GROUP_JOIN of every participant.  The member that keeps the partition   *)
(* under its old memberId keeps its memory; anybody else forgets the       *)
(* device, and a new owner has to restore it before the first batch.       *)
Keeps(i) == member[i] = "current" /\ owner = i

JoinGroup(o, joined) ==
  /\ owner' = o
  /\ member' = [i \in Instances |->
                  IF i \in joined THEN "current"
                  ELSE IF member[i] = "current" THEN "stale" ELSE member[i]]
  /\ owned' = [i \in Instances |->
                 IF i \notin joined \/ (i = o /\ Keeps(i)) THEN owned[i]
                 ELSE IF i = o THEN "adopting" ELSE "no"]
  /\ mem' = [i \in Instances |->
               IF i \notin joined \/ (i = o /\ Keeps(i)) THEN mem[i] ELSE IdleAlarm]
  /\ pos' = [i \in Instances |-> IF i \in joined THEN committed ELSE pos[i]]
  /\ UNCHANGED <<log, committed, rules, database, topics, up, known, pc, batch, attempts>>

(* The coordinator waits until every member has finished its batch and     *)
(* joined again.  A rebalance starts when somebody wants to join or the    *)
(* owner is gone; a quiet group is left alone.                             *)
Rebalance ==
  LET ready == {i \in up : pc[i] = "idle"}
  IN /\ Current \subseteq ready
     /\ ready \ Current # {} \/ owner \notin Current
     /\ \E o \in ready : JoinGroup(o, ready)
     /\ UNCHANGED faults

(* Members that sent no heartbeat for the session timeout are left out: a  *)
(* handler sends one only after the offset is confirmed.                   *)
Evict ==
  /\ Fault("evict")
  /\ \E joined \in SUBSET {i \in up : pc[i] = "idle"} :
       /\ ~(Current \subseteq joined)
       /\ \E o \in joined : JoinGroup(o, joined)

(* adopt: the open episodes of the device come back from the database; the *)
(* latest one wins, pending debounce counts are lost.                      *)
LatestOpen == {e \in episodes : IsOpen(e) /\ \A d \in episodes : IsOpen(d) => d <= e}

(* Mutant: a new owner starts with an empty alarm memory. *)
RestoredNothing == {IdleAlarm}

Restored ==
  IF LatestOpen = {} THEN {IdleAlarm}
  ELSE {RaisedAlarm(DetectViolation(log[e].value), e) : e \in LatestOpen}

Adopt(i) ==
  /\ i \in up
  /\ owned[i] = "adopting"
  /\ owned' = [owned EXCEPT ![i] = "yes"]
  /\ \E m \in Restored : mem' = [mem EXCEPT ![i] = m]
  /\ UNCHANGED <<log, group, rules, database, topics, up, member, known, pos, pc, batch,
                 attempts, faults>>

(* All attempts to read the database failed: the instance goes on without. *)
AdoptBlind(i) ==
  /\ i \in up
  /\ owned[i] = "adopting"
  /\ Fault("restore")
  /\ owned' = [owned EXCEPT ![i] = "yes"]
  /\ UNCHANGED <<log, group, rules, database, topics, up, member, mem, known, pos, pc,
                 batch, attempts>>

-------------------------------------------------------------------------------
(* The batch handler. *)

Step(i, from, to) ==
  /\ i \in up
  /\ pc[i] = from
  /\ pc' = [pc EXCEPT ![i] = to]

Smaller(a, b) == IF a <= b THEN a ELSE b

(* eachBatch after handovers.ready(): the fetch takes what the log holds,  *)
(* the drafts start from the memory of the instance.  The loop over the    *)
(* messages awaits nothing, so isRunning and isStale can break it only     *)
(* before its first message, and then the handler does nothing.            *)
Fetch(i) ==
  /\ Step(i, "idle", "draft")
  /\ member[i] # "out"
  /\ owned[i] = "yes"
  /\ pos[i] < Len(log)
  /\ batch' = [batch EXCEPT ![i] =
                 [next |-> pos[i] + 1,
                  last |-> Smaller(Len(log), pos[i] + MaxBatch),
                  mem |-> mem[i], out |-> {}]]
  /\ UNCHANGED <<log, group, rules, database, topics, up, member, memory, pos, attempts,
                 faults>>

(* One turn of the loop over the messages.  A live frame goes through the  *)
(* alarm engine; a copy and a poisoned message leave the drafts alone.     *)
Drafted(d, f, ruled) ==
  IF f.kind = "live"
  THEN [next |-> d.next + 1, last |-> d.last,
        mem |-> EvaluateAlarm(d.mem, ruled, f.value, d.next),
        out |-> d.out \cup TransitionsOf(d.mem, ruled, f.value, d.next)]
  ELSE [next |-> d.next + 1, last |-> d.last, mem |-> d.mem, out |-> d.out]

(* After the last message the drafts are ready to be written. *)
DraftMessage(i) ==
  LET o == batch[i].next
  IN /\ Step(i, "draft", IF o = batch[i].last THEN "write" ELSE "draft")
     /\ batch' = [batch EXCEPT ![i] =
                    Drafted(batch[i], log[o], log[o].mode \in known[i])]
     /\ UNCHANGED <<log, group, rules, database, topics, up, member, memory, pos,
                    attempts, faults>>

(* The transaction: readings of live frames and copies, episodes opened,   *)
(* episodes closed, rows of poisoned messages.                             *)
Write(i) ==
  LET out == batch[i].out
  IN /\ Step(i, "write", "send")
     /\ ConstraintHolds(out)
     /\ readings' = readings \cup OfKind({"live", "copy"}, BatchOf(i))
     /\ quarantine' = quarantine \cup OfKind({"poison"}, BatchOf(i))
     /\ episodes' = episodes \cup Openings(out)
     /\ closings' = closings \cup ClosingRows(out)
     /\ UNCHANGED <<log, group, rules, topics, up, member, memory, pos, batch, attempts,
                    faults>>

(* sendRaw and send, then, without a pause, attempts.delete and remember,  *)
(* which touches only a device the instance still owns.                    *)
Publish(i) ==
  /\ Step(i, "send", "commit")
  /\ topics' = [readings |-> topics.readings \cup OfKind({"live"}, BatchOf(i)),
                dlq |-> topics.dlq \cup OfKind({"poison"}, BatchOf(i)),
                alarms |-> topics.alarms \cup batch[i].out]
  /\ attempts' = [attempts EXCEPT ![i] = 0]
  /\ mem' = IF owned[i] = "yes" THEN [mem EXCEPT ![i] = batch[i].mem] ELSE mem
  /\ UNCHANGED <<log, group, rules, database, up, member, owned, known, pos, batch, faults>>

(* Mutant: commitOffsetsIfNecessary without arguments commits nothing. *)
CommitNothing(i) ==
  /\ Step(i, "commit", "idle")
  /\ member[i] = "current"
  /\ pos' = [pos EXCEPT ![i] = batch[i].last]
  /\ batch' = [batch EXCEPT ![i] = NoBatch]
  /\ UNCHANGED <<log, group, rules, database, topics, up, member, memory, attempts,
                 faults>>

(* commitThrough accepted by the coordinator: the member is current. *)
Commit(i) ==
  /\ Step(i, "commit", "idle")
  /\ member[i] = "current"
  /\ committed' = batch[i].last
  /\ pos' = [pos EXCEPT ![i] = batch[i].last]
  /\ batch' = [batch EXCEPT ![i] = NoBatch]
  /\ UNCHANGED <<log, owner, rules, database, topics, up, member, memory,
                 attempts, faults>>

(* The member was left out meanwhile: the commit is refused and it has to  *)
(* join again under another memberId.                                      *)
CommitFenced(i) ==
  /\ Step(i, "commit", "idle")
  /\ member[i] # "current"
  /\ member' = [member EXCEPT ![i] = "out"]
  /\ batch' = [batch EXCEPT ![i] = NoBatch]
  /\ UNCHANGED <<log, group, rules, database, topics, up, memory, pos, attempts, faults>>

(* The coordinator moved or is rebalancing: the commit fails, kafkajs joins *)
(* again under the same memberId and reads from the confirmed position.     *)
CommitRefused(i) ==
  /\ Step(i, "commit", "idle")
  /\ member[i] = "current"
  /\ Fault("refused")
  /\ batch' = [batch EXCEPT ![i] = NoBatch]
  /\ UNCHANGED <<log, group, rules, database, topics, up, member, memory, pos, attempts>>

-------------------------------------------------------------------------------
(* Failures. *)

(* The process is gone with all it remembers; the group notices later. *)
Stop(i) ==
  /\ up' = up \ {i}
  /\ member' = [member EXCEPT ![i] = "out"]
  /\ owned' = [owned EXCEPT ![i] = "no"]
  /\ mem' = [mem EXCEPT ![i] = IdleAlarm]
  /\ pos' = [pos EXCEPT ![i] = 0]
  /\ pc' = [pc EXCEPT ![i] = "idle"]
  /\ batch' = [batch EXCEPT ![i] = NoBatch]
  /\ attempts' = [attempts EXCEPT ![i] = 0]

(* Mutants: one attempt too many; the failed batch is skipped. *)
GiveBackLate(i) ==
  IF attempts[i] > MaxAttempts
  THEN Stop(i)
  ELSE /\ attempts' = [attempts EXCEPT ![i] = @ + 1]
       /\ pc' = [pc EXCEPT ![i] = "idle"]
       /\ batch' = [batch EXCEPT ![i] = NoBatch]
       /\ UNCHANGED <<up, member, owned, mem, pos>>
GiveBackSkipping(i) ==
  /\ attempts' = [attempts EXCEPT ![i] = 0]
  /\ pc' = [pc EXCEPT ![i] = "idle"]
  /\ batch' = [batch EXCEPT ![i] = NoBatch]
  /\ pos' = [pos EXCEPT ![i] = batch[i].last]
  /\ UNCHANGED <<up, member, owned, mem>>

(* catch of handle: count the attempt, pause the partition without a       *)
(* commit, or leave the process to Docker after MAX_ATTEMPTS.              *)
GiveBack(i) ==
  IF attempts[i] + 1 > MaxAttempts
  THEN Stop(i)
  ELSE /\ attempts' = [attempts EXCEPT ![i] = @ + 1]
       /\ pc' = [pc EXCEPT ![i] = "idle"]
       /\ batch' = [batch EXCEPT ![i] = NoBatch]
       /\ UNCHANGED <<up, member, owned, mem, pos>>

(* The transaction breaks the CHECK of core.alarm_events and rolls back. *)
WriteRejected(i) ==
  /\ i \in up /\ pc[i] = "write"
  /\ ~ConstraintHolds(batch[i].out)
  /\ GiveBack(i)
  /\ UNCHANGED <<log, group, rules, database, topics, known, faults>>

(* The database is not available. *)
WriteFailed(i) ==
  /\ i \in up /\ pc[i] = "write"
  /\ Fault("write")
  /\ GiveBack(i)
  /\ UNCHANGED <<log, group, rules, database, topics, known>>

(* The broker is not available: the transaction is already there, and some *)
(* of what was to be sent may be too, the copies for the dead-letter topic *)
(* before readings and events.                                             *)
PublishFailed(i) ==
  /\ i \in up /\ pc[i] = "send"
  /\ Fault("send")
  /\ \E dlq \in SUBSET OfKind({"poison"}, BatchOf(i)),
        live \in SUBSET OfKind({"live"}, BatchOf(i)), out \in SUBSET batch[i].out :
       /\ live # {} \/ out # {} => dlq = OfKind({"poison"}, BatchOf(i))
       /\ topics' = [readings |-> topics.readings \cup live, dlq |-> topics.dlq \cup dlq,
                     alarms |-> topics.alarms \cup out]
  /\ GiveBack(i)
  /\ UNCHANGED <<log, group, rules, database, known>>

Crash(i) ==
  /\ i \in up
  /\ Fault("crash")
  /\ Stop(i)
  /\ UNCHANGED <<log, group, rules, database, topics, known>>

(* Docker restarts the process, and the first reading of the setpoints     *)
(* ends before the first batch arrives.                                    *)
Restart(i) ==
  /\ i \notin up
  /\ up' = up \cup {i}
  /\ known' = [known EXCEPT ![i] = rules]
  /\ UNCHANGED <<log, group, rules, database, topics, member, owned, mem, pos, pc, batch,
                 attempts, faults>>

(* onModuleInit does not wait for that reading: the batches may come first. *)
RestartUnloaded(i) ==
  /\ i \notin up
  /\ Fault("unloaded")
  /\ up' = up \cup {i}
  /\ known' = [known EXCEPT ![i] = {}]
  /\ UNCHANGED <<log, group, rules, database, topics, member, owned, mem, pos, pc, batch,
                 attempts>>

-------------------------------------------------------------------------------
(* Setpoints. *)

(* An engineer enables or disables the setpoint of a mode. *)
EditRules ==
  /\ Fault("edit")
  /\ \E m \in Modes :
       rules' = IF m \in rules THEN rules \ {m} ELSE rules \cup {m}
  /\ UNCHANGED <<log, group, database, topics, up, member, memory, pos, pc, batch, attempts>>

(* The periodic refresh; it never runs inside the loop over a batch. *)
RefreshRules(i) ==
  /\ i \in up
  /\ pc[i] # "draft"
  /\ known[i] # rules
  /\ known' = [known EXCEPT ![i] = rules]
  /\ UNCHANGED <<log, group, rules, database, topics, up, member, owned, mem, pos, pc,
                 batch, attempts, faults>>

-------------------------------------------------------------------------------
Handle(i) ==
  \/ Fetch(i) \/ DraftMessage(i)
  \/ Write(i) \/ WriteRejected(i) \/ Publish(i)
  \/ Commit(i) \/ CommitFenced(i)

Next ==
  \/ Produce \/ Rebalance \/ Evict \/ EditRules
  \/ \E i \in Instances :
       \/ Handle(i) \/ Adopt(i) \/ AdoptBlind(i)
       \/ WriteFailed(i) \/ PublishFailed(i) \/ CommitRefused(i)
       \/ Crash(i) \/ Restart(i) \/ RestartUnloaded(i) \/ RefreshRules(i)

Spec == Init /\ [][Next]_vars

(* The processes, Docker and the coordinator keep working; faults and      *)
(* edits need not happen.                                                  *)
Fairness ==
  /\ WF_vars(Rebalance)
  /\ \A i \in Instances :
       /\ WF_vars(Handle(i)) /\ WF_vars(Adopt(i))
       /\ WF_vars(Restart(i)) /\ WF_vars(RefreshRules(i))

FairSpec == Spec /\ Fairness

-------------------------------------------------------------------------------
(* Properties. *)

TypeOK ==
  /\ log \in Seq(Frames) /\ Len(log) <= MaxLog
  /\ committed \in 0..MaxLog
  /\ owner \in Instances \cup {None}
  /\ rules \in SUBSET Modes
  /\ readings \subseteq Offsets /\ quarantine \subseteq Offsets
  /\ episodes \subseteq Offsets /\ closings \subseteq Offsets \X Offsets
  /\ topics \in [readings: SUBSET Offsets, dlq: SUBSET Offsets,
                 alarms: SUBSET Transition]
  /\ up \subseteq Instances
  /\ member \in [Instances -> {"current", "stale", "out"}]
  /\ owned \in [Instances -> {"no", "adopting", "yes"}]
  /\ mem \in [Instances -> AlarmMemory]
  /\ known \in [Instances -> SUBSET Modes]
  /\ pos \in [Instances -> 0..MaxLog]
  /\ pc \in [Instances -> {"idle", "draft", "write", "send", "commit"}]
  /\ batch \in [Instances -> Draft]
  /\ attempts \in [Instances -> 0..MaxAttempts]
  /\ faults \in 0..MaxFaults

(* A confirmed message is never lost: its rows are in the database and what *)
(* it produced was handed to the broker, whatever crashed or was left out.  *)
(* The order transaction, publication, commit of RawBatchService.handle.    *)
CommittedIsDurable ==
  \A o \in 1..committed :
    /\ log[o].kind = "live" => o \in readings /\ o \in topics.readings
    /\ log[o].kind = "copy" => o \in readings
    /\ log[o].kind = "poison" => o \in quarantine /\ o \in topics.dlq

(* No alarm event reaches a consumer that the database does not have: the  *)
(* screen never shows an episode or its end that a refetch would deny.     *)
PublishedIsStored ==
  \A t \in topics.alarms :
    IF t.state = "raised" THEN t.raisedAt \in episodes
                          ELSE \E c \in closings : c[1] = t.raisedAt

(* A metric never has two open episodes (adopt restores the open one).     *)
OneOpenEpisode ==
  \A d, e \in episodes : IsOpen(d) /\ IsOpen(e) => d = e

Settled(i) ==
  /\ i \in Current /\ owner = i /\ owned[i] = "yes"
  /\ pc[i] = "idle" /\ attempts[i] = 0

(* The owner of the device knows every open episode, so it will be able to *)
(* close it: no episode stays open as an orphan.                           *)
NoOrphanEpisode ==
  \A i \in Instances : Settled(i) =>
    \A e \in episodes : IsOpen(e) => mem[i].raised /\ mem[i].raisedAt = e

Usable(o) == log[o].kind = "live" /\ log[o].value # NoValue
Violation(o) == DetectViolation(log[o].value)

(* An episode opens only after Debounce violating cycles in a row on one   *)
(* boundary, unusable samples not counted, whatever was delivered again.   *)
DebouncedRaise ==
  \A e \in episodes :
    \E run \in SUBSET (1..e) :
      /\ e \in run /\ Cardinality(run) = Debounce
      /\ \A o \in run : Usable(o) /\ Violation(o) = Violation(e) /\ Violation(o) # "none"
      /\ \A o \in 1..e : (Usable(o) /\ \E p \in run : p < o) => o \in run

(* An episode is closed only by a sample past the return zone or by a mode *)
(* without a setpoint.                                                     *)
ClosedForReason ==
  \A c \in closings :
    \/ log[c[2]].mode \notin rules
    \/ /\ Usable(c[2])
       /\ IF Violation(c[1]) = "max" THEN log[c[2]].value < MaxValue - Hysteresis
                                     ELSE log[c[2]].value > MinValue + Hysteresis

(* Everything in the partition is confirmed in the end, as the comment on   *)
(* the pause of the partition in RawBatchService.handle has it.             *)
PartitionDrains == []<>(committed = Len(log))

(* The one thing that holds a partition for ever is a batch whose rows the  *)
(* CHECK of core.alarm_events rejects; crashes, handovers and outages pass. *)
DrainsUnlessRejected ==
  \/ PartitionDrains
  \/ []<>(\E i \in up : pc[i] = "write" /\ ~ConstraintHolds(batch[i].out))

(* Alarm episodes survive crashes, failed calls and handovers: of a metric *)
(* at most one is open, and none is open that nobody will ever close.      *)
EpisodesAreSound == OneOpenEpisode /\ NoOrphanEpisode
===============================================================================
