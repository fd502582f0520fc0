-------------------------------- MODULE LabDlq --------------------------------
(***************************************************************************)
(* The experiment of kafka-lab about the queue of undelivered messages and *)
(* their redrive (experiments/dlq.ts): a consumer with the ladder of the   *)
(* receiver, a table of rows in memory, three requests for a redrive with  *)
(* one cause removed before the first of them.                             *)
(*                                                                         *)
(* A message is its key, what its bytes are, the version in its header,    *)
(* the attempts it carries and the row it was sent for.  One trouble may   *)
(* come from outside: a send or a commit of the consumer that fails.       *)
(***************************************************************************)
EXTENDS Integers, Sequences, FiniteSets, SequencesExt

CONSTANTS Frames,      \* what is sent first: key, bytes and version of each
          PartitionOf, \* the partition of a key
          Known, Late, \* devices of the topology, and the one that is added
          FinalAttempts

VARIABLES log, group, work, rows, step, report, trouble
lab == <<log, group, work, rows, step, report, trouble>>

Major == 1
Partitions == {PartitionOf[k] : k \in DOMAIN PartitionOf}
NoRow == 0

Message(frame, attempts, redriveOf) ==
  [key |-> frame.key, bytes |-> frame.bytes, version |-> frame.version,
   attempts |-> attempts, redriveOf |-> redriveOf]

(* decode: the first rung that does not hold. *)
Decode(message, devices) ==
  CASE message.version > Major -> "schema_major_mismatch"
    [] message.version <= Major /\ message.bytes = "empty" -> "empty"
    [] message.version <= Major /\ message.bytes = "cut" -> "invalid_json"
    [] message.version <= Major /\ message.bytes = "broken" -> "schema"
    [] message.version <= Major /\ message.bytes = "good" ->
         IF message.key \in devices THEN "ok" ELSE "unknown_device"

(* recordDlq: one row for one offset; a row of the same key is its origin. *)
RecordDlq(table, p, failed) ==
  LET m == failed.message
      twin == \E k \in DOMAIN table : table[k].partition = p /\ table[k].offset = failed.offset
      origin == m.redriveOf \in DOMAIN table /\ table[m.redriveOf].message.key = m.key
  IN  IF twin THEN table
      ELSE Append(table, [partition |-> p, offset |-> failed.offset, message |-> m, why |-> failed.why,
                          attempts |-> m.attempts + 1,
                          redriveOf |-> IF origin THEN m.redriveOf ELSE NoRow,
                          resolved |-> FALSE, finalRejected |-> FALSE])

Waits(row) == ~row.resolved /\ ~row.finalRejected
Pending == {k \in DOMAIN rows : Waits(rows[k])}
Rejected == {k \in Pending : rows[k].attempts >= FinalAttempts}
Due == Pending \ Rejected

(* resolveCopies: a copy closes the row it was sent for. *)
Closable(table, message) ==
  /\ message.redriveOf \in DOMAIN table
  /\ table[message.redriveOf].message.key = message.key
  /\ Waits(table[message.redriveOf])

ResolveCopies(table, messages) ==
  [k \in DOMAIN table |->
     [table[k] EXCEPT !.resolved =
        @ \/ \E j \in DOMAIN messages : messages[j].redriveOf = k /\ Closable(table, messages[j])]]

(* toRedriveMessage *)
RedriveMessage(k) == Message(rows[k].message, rows[k].attempts, k)

-------------------------------------------------------------------------------

DlqInit ==
  /\ log = [p \in Partitions |-> <<>>]
  /\ group = [p \in Partitions |-> 0]
  /\ work = <<>>
  /\ rows = <<>>
  /\ step = "send"
  /\ report = [devices |-> Known, traffic |-> <<>>, sent |-> <<>>, queued |-> 0, crashed |-> FALSE,
               before |-> 0, due |-> {}, wave |-> 0]
  /\ trouble = 0

Sent(messages) ==
  [p \in Partitions |-> log[p] \o SelectSeq(messages, LAMBDA m : PartitionOf[m.key] = p)]

SendFrames ==
  /\ step = "send"
  /\ log' = Sent([k \in DOMAIN Frames |-> Message(Frames[k], 0, NoRow)])
  /\ step' = "first"
  /\ UNCHANGED <<group, work, rows, report, trouble>>

(* handleBatch up to its first await: a batch, or the part of it that was  *)
(* read before it went stale, is decoded, its rows are recorded and the    *)
(* rows of its copies closed.                                              *)
TakeBatch(p) ==
  /\ work = <<>> /\ group[p] < Len(log[p])
  /\ \E upto \in (group[p] + 1)..Len(log[p]) :
       LET read == [k \in 1..(upto - group[p]) |->
                      LET m == log[p][group[p] + k]
                      IN  [offset |-> group[p] + k, message |-> m, why |-> Decode(m, report.devices)]]
           failed == SelectSeq(read, LAMBDA r : r.why # "ok")
           recorded == FoldLeft(LAMBDA table, r : RecordDlq(table, p, r), rows, failed)
       IN  /\ rows' = ResolveCopies(recorded, [k \in DOMAIN read |-> read[k].message])
           /\ report' = [report EXCEPT !.traffic = @ \o [k \in DOMAIN read |-> [p |-> p, read |-> read[k]]]]
           /\ work' = <<[p |-> p, upto |-> upto, failed |-> failed, at |-> "sending"]>>
  /\ UNCHANGED <<log, group, step, trouble>>

SendQueue ==
  /\ work # <<>> /\ work[1].at = "sending"
  /\ report' = [report EXCEPT !.sent = @ \o work[1].failed]
  /\ work' = <<[work[1] EXCEPT !.at = "committing"]>>
  /\ UNCHANGED <<log, group, rows, step, trouble>>

Commit ==
  /\ work # <<>> /\ work[1].at = "committing"
  /\ group' = [group EXCEPT ![work[1].p] = work[1].upto]
  /\ work' = <<>>
  /\ UNCHANGED <<log, rows, step, report, trouble>>

(* A failure is remembered and the batch is read again. *)
BatchFails ==
  /\ work # <<>> /\ trouble = 0 /\ trouble' = 1
  /\ report' = [report EXCEPT !.crashed = TRUE]
  /\ work' = <<>>
  /\ UNCHANGED <<log, group, rows, step>>

(* The watcher of the queue. *)
Watch ==
  /\ report.queued < Len(report.sent)
  /\ report' = [report EXCEPT !.queued = @ + 1]
  /\ UNCHANGED <<log, group, work, rows, step, trouble>>

-------------------------------------------------------------------------------
(* The experiment. *)

(* passed: a wait that also looks whether the consumer has failed. *)
Passed(count) == ~report.crashed /\ Len(report.traffic) >= count
QueueSeen == report.queued >= Len(rows)

FirstRead ==
  /\ step = "first" /\ Passed(Len(Frames))
  /\ step' = "watch"
  /\ UNCHANGED <<log, group, work, rows, report, trouble>>

(* The queue is looked at and one cause is removed. *)
DeviceAppears ==
  /\ step = "watch" /\ QueueSeen
  /\ report' = [report EXCEPT !.devices = @ \cup {Late}]
  /\ step' = "redrive"
  /\ UNCHANGED <<log, group, work, rows, trouble>>

(* redrive: who has used up his attempts is rejected for good, the others  *)
(* go back to the topic and are closed when the send has been confirmed.   *)
Redrive ==
  /\ step = "redrive"
  /\ rows' = [k \in DOMAIN rows |-> [rows[k] EXCEPT !.finalRejected = @ \/ k \in Rejected]]
  /\ log' = Sent([k \in 1..Cardinality(Due) |-> RedriveMessage(SetToSortSeq(Due, <)[k])])
  /\ report' = [report EXCEPT !.due = Due, !.before = Len(report.traffic), !.wave = @ + 1]
  /\ step' = "resolve"
  /\ UNCHANGED <<group, work, trouble>>

Resolve ==
  /\ step = "resolve"
  /\ rows' = [k \in DOMAIN rows |-> [rows[k] EXCEPT !.resolved = @ \/ k \in report.due]]
  /\ step' = IF report.wave < 3 THEN "wave" ELSE "last"
  /\ UNCHANGED <<log, group, work, report, trouble>>

WaveRead ==
  /\ step = "wave" /\ Passed(report.before + Cardinality(report.due))
  /\ step' = "redrive"
  /\ UNCHANGED <<log, group, work, rows, report, trouble>>

Conclude ==
  /\ step = "last" /\ QueueSeen
  /\ step' = "concluded"
  /\ UNCHANGED <<log, group, work, rows, report, trouble>>

Fails ==
  /\ step \in {"first", "wave"} /\ report.crashed
  /\ step' = "failed"
  /\ UNCHANGED <<log, group, work, rows, report, trouble>>

DlqMoves ==
  \/ SendFrames \/ (\E p \in Partitions : TakeBatch(p)) \/ SendQueue \/ Commit \/ Watch
  \/ FirstRead \/ DeviceAppears \/ Redrive \/ Resolve \/ WaveRead \/ Conclude \/ Fails
DlqNext == DlqMoves \/ BatchFails

-------------------------------------------------------------------------------
(* Properties. *)

RECURSIVE ChainOf(_)
(* The rows of one failure, from the last one back to the first. *)
ChainOf(k) == IF k = NoRow THEN <<>> ELSE <<k>> \o ChainOf(rows[k].redriveOf)

Hopeless(frame) == Decode(Message(frame, 0, NoRow), report.devices) # "ok"

(* The conclusion of the experiment, however its batches were cut and      *)
(* whether a copy outran the answer to its own request: nothing waits, the *)
(* bytes that cannot be read are rejected after exactly the last attempt,  *)
(* each failure has a row of its own in one chain, every other message was *)
(* accepted once, and copies lie where their originals lay.                *)
DlqVerdict ==
  step = "concluded" /\ ~report.crashed =>
    /\ Pending = {}
    /\ Cardinality({k \in DOMAIN rows : rows[k].finalRejected}) =
         Cardinality({k \in DOMAIN Frames : Hopeless(Frames[k])})
    /\ \A k \in DOMAIN rows : rows[k].finalRejected =>
         /\ Len(ChainOf(k)) = FinalAttempts
         /\ \A j \in DOMAIN ChainOf(k) : rows[ChainOf(k)[j]].attempts = FinalAttempts - j + 1
    /\ Len(SelectSeq(report.traffic, LAMBDA t : t.read.why = "ok")) =
         Cardinality({k \in DOMAIN Frames : ~Hopeless(Frames[k])})
    /\ report.queued = Len(rows)
    /\ \A k \in DOMAIN rows : rows[k].redriveOf # NoRow => rows[k].partition = rows[rows[k].redriveOf].partition

(* An experiment that nothing disturbs comes to its conclusion. *)
DlqDone == step = "concluded" \/ trouble = 1
===============================================================================
