------------------------------- MODULE LabBroker -------------------------------
(***************************************************************************)
(* The experiments of kafka-lab about what a broker does.                  *)
(*                                                                         *)
(* groups.ts and rebalance.ts: members of groups come and go, are given    *)
(* partitions, and what they read is counted from marks.  order.ts: the    *)
(* order of the messages of one key.  compaction.ts: the last value of a   *)
(* key.                                                                    *)
(*                                                                         *)
(* The group protocol of the broker is external: a change of the members   *)
(* makes all of them rejoin, the next generation gives each partition to   *)
(* one of them, and each learns of it with an event of its own.  So are    *)
(* the partitioner, the order in which a consumer is given partitions, the *)
(* segments of a log and their cleaner.  One trouble may come: a group     *)
(* rebalances for no reason of the experiment, or messages come again.     *)
(* The pauses of the code, 0.7 and 8 seconds, are long enough for commits  *)
(* and generations that are under way.                                     *)
(***************************************************************************)
EXTENDS Integers, Sequences, FiniteSets, SequencesExt

CONSTANTS
  Count,              \* groups: partitions of the topic
  Crowd,              \* members of the group that has more of them than partitions
  PartitionFor,       \* order: the partition of the key of a device
  Rounds, PlainCount,
  Versions, Doomed,   \* compaction: states written for each key; the key that is deleted
  MaxCleanings

VARIABLES log, group, work, rows, step, report, trouble
lab == <<log, group, work, rows, step, report, trouble>>

-------------------------------------------------------------------------------
(* groups.ts *)

Partitions == 1..Count

Members == {"a", "b", "c", "r1", "r2"} \cup Crowd
GroupOf(m) ==
  CASE m \in {"a", "b"} -> "work" [] m = "c" -> "audit" [] m \in {"r1", "r2"} -> "ride" [] m \in Crowd -> "crowd"
Groups == {"work", "audit", "crowd", "ride"}
FromBeginning(m) == m \in {"a", "b", "c"}
Unresolved == -1
Each(n) == [p \in Partitions |-> n]

GroupsInit ==
  /\ step \in {"first", "rest", "ride"}
  /\ log = IF step = "rest" THEN Each(2) ELSE Each(0)
  /\ group = [g \in Groups |-> [members |-> {}, rejoined |-> {}, synced |-> {}, stable |-> FALSE,
                                owner |-> Each("nobody"), committed |-> Each(Unresolved)]]
  /\ work = [m \in Members |-> [assigned |-> {}, joins |-> 0, seen |-> Each(0), pos |-> Each(Unresolved)]]
  /\ rows = 0          (* messages a member without a position has skipped *)
  /\ report = [since |-> [m \in Members |-> 0], saw |-> FALSE, before |-> {}, told |-> <<>>]
  /\ trouble = 0

-------------------------------------------------------------------------------
(* The broker and the members. *)

(* Partitions of all topics are dealt out as one list: no member has two   *)
(* more than another.                                                      *)
Held(owner, m) == {p \in Partitions : owner[p] = m}
Dealt(members) ==
  {owner \in [Partitions -> members] :
     \A m, n \in members : Cardinality(Held(owner, m)) <= Cardinality(Held(owner, n)) + 1}

Entered(gr, ms) == [gr EXCEPT !.members = @ \cup ms, !.rejoined = ms, !.stable = FALSE]
Left(gr, m) == [gr EXCEPT !.members = @ \ {m}, !.rejoined = {}, !.stable = FALSE]

Rejoin(m) ==
  LET g == GroupOf(m)
  IN  /\ m \in group[g].members \ group[g].rejoined /\ ~group[g].stable
      /\ group' = [group EXCEPT ![g].rejoined = @ \cup {m}]
      /\ UNCHANGED <<log, work, rows, step, report, trouble>>

Complete(g) ==
  /\ ~group[g].stable /\ group[g].members # {} /\ group[g].rejoined = group[g].members
  /\ \E owner \in Dealt(group[g].members) :
       group' = [group EXCEPT ![g].stable = TRUE, ![g].synced = {}, ![g].owner = owner]
  /\ UNCHANGED <<log, work, rows, step, report, trouble>>

(* GROUP_JOIN: the whole new assignment; of what was taken away no event   *)
(* speaks.                                                                 *)
GroupJoin(m) ==
  LET g == GroupOf(m)
  IN  /\ group[g].stable /\ m \in group[g].members \ group[g].synced
      /\ group' = [group EXCEPT ![g].synced = @ \cup {m}]
      /\ work' = [work EXCEPT ![m].assigned = Held(group[g].owner, m), ![m].joins = @ + 1,
                              ![m].pos = Each(Unresolved)]
      /\ UNCHANGED <<log, rows, step, report, trouble>>

Reads(m) ==
  LET gr == group[GroupOf(m)]
  IN  m \in gr.members /\ IF gr.stable THEN m \in gr.synced ELSE m \notin gr.rejoined

(* Where a member begins: at what the group has committed, else at the     *)
(* beginning or at the end of that moment.                                 *)
Resolve(m, p) ==
  LET committed == group[GroupOf(m)].committed[p]
  IN  /\ Reads(m) /\ p \in work[m].assigned /\ work[m].pos[p] = Unresolved
      /\ work' = [work EXCEPT ![m].pos[p] = IF committed # Unresolved THEN committed
                                            ELSE IF FromBeginning(m) THEN 0 ELSE log[p]]
      /\ rows' = IF committed = Unresolved /\ m \in Crowd /\ step = "third" THEN 1 ELSE rows
      /\ UNCHANGED <<log, group, step, report, trouble>>

Read(m, p) ==
  /\ Reads(m) /\ p \in work[m].assigned
  /\ work[m].pos[p] # Unresolved /\ work[m].pos[p] < log[p]
  /\ work' = [work EXCEPT ![m].pos[p] = @ + 1, ![m].seen[p] = @ + 1]
  /\ UNCHANGED <<log, group, rows, step, report, trouble>>

CommitAt(m, p) ==
  /\ Reads(m) /\ p \in work[m].assigned /\ work[m].pos[p] > group[GroupOf(m)].committed[p]
  /\ group' = [group EXCEPT ![GroupOf(m)].committed[p] = work[m].pos[p]]
  /\ UNCHANGED <<log, work, rows, step, report, trouble>>

Rebalances(g) ==
  /\ group[g].stable /\ trouble = 0 /\ trouble' = 1
  /\ group' = [group EXCEPT ![g].stable = FALSE, ![g].rejoined = {}]
  /\ UNCHANGED <<log, work, rows, step, report>>

-------------------------------------------------------------------------------
(* groups.ts *)

ReadBy(m) == MapThenSumSet(LAMBDA p : work[m].seen[p], Partitions)
ReadByAll(ms) == MapThenSumSet(ReadBy, ms)
Reset(ms) == [m \in Members |-> IF m \in ms THEN [work[m] EXCEPT !.seen = Each(0)] ELSE work[m]]
Fill(n) == log' = [p \in Partitions |-> log[p] + n]
Stored == MapThenSumSet(LAMBDA p : log[p], Partitions)

(* settled: the broker is asked first, what the members know is looked at  *)
(* when it has answered.                                                   *)
Describe(g, ms) ==
  /\ ~report.saw /\ group[g].stable /\ group[g].members = ms
  /\ report' = [report EXCEPT !.saw = TRUE]
  /\ UNCHANGED <<log, group, work, rows, step, trouble>>

Agreed(ms) ==
  /\ \A m \in ms : work[m].joins > report.since[m]
  /\ MapThenSumSet(LAMBDA m : Cardinality(work[m].assigned), ms) = Count
  /\ UNION {work[m].assigned : m \in ms} = Partitions

LooksAgain(ms) ==
  /\ report.saw /\ ~Agreed(ms)
  /\ report' = [report EXCEPT !.saw = FALSE]
  /\ UNCHANGED <<log, group, work, rows, step, trouble>>

Settled(ms) == report.saw /\ Agreed(ms)

(* readAll, with the pause after it. *)
ReadAll(ms, expected) ==
  /\ ReadByAll(ms) >= expected
  /\ \A m \in ms, p \in Partitions :
       p \in work[m].assigned /\ work[m].pos[p] # Unresolved =>
         work[m].pos[p] = log[p] /\ group[GroupOf(m)].committed[p] = log[p]

Awaited ==
  CASE step = "one" -> {"a"} [] step = "two" -> {"a", "b"} [] step = "audit" -> {"c"} [] step = "crowd" -> Crowd
    [] step \notin {"one", "two", "audit", "crowd"} -> {}

Await ==
  /\ Awaited # {}
  /\ Describe(GroupOf(CHOOSE m \in Awaited : TRUE), Awaited) \/ LooksAgain(Awaited)

Told(what) == [report EXCEPT !.saw = FALSE, !.told = Append(@, what)]

(* The first member. *)
First ==
  /\ step = "first" /\ Fill(1)
  /\ group' = [group EXCEPT !["work"] = Entered(@, {"a"})]
  /\ step' = "one"
  /\ UNCHANGED <<work, rows, report, trouble>>

ReadFirst ==
  /\ step = "one" /\ Settled({"a"}) /\ ReadAll({"a"}, Count)
  /\ report' = [Told(ReadBy("a")) EXCEPT !.since["a"] = work["a"].joins]
  /\ group' = [group EXCEPT !["work"] = Entered(@, {"b"})]
  /\ step' = "two"
  /\ UNCHANGED <<log, work, rows, trouble>>

(* Two share what is sent next. *)
Second ==
  /\ step = "two" /\ Settled({"a", "b"})
  /\ work' = Reset({"a", "b"}) /\ Fill(1)
  /\ step' = "second" /\ report' = [report EXCEPT !.saw = FALSE]
  /\ UNCHANGED <<group, rows, trouble>>

ReadSecond ==
  /\ step = "second" /\ ReadAll({"a", "b"}, Count)
  /\ report' = Told(ReadByAll({"a", "b"}))
  /\ work' = Reset({"a", "b"})
  /\ group' = [group EXCEPT !["audit"] = Entered(@, {"c"})]
  /\ step' = "audit"
  /\ UNCHANGED <<log, rows, trouble>>

(* Another group reads everything by itself. *)
ReadAudit ==
  /\ step = "audit" /\ Settled({"c"}) /\ ReadAll({"c"}, Stored)
  /\ report' = Told(<<ReadBy("c"), ReadByAll({"a", "b"})>>)
  /\ step' = "audited"
  /\ UNCHANGED <<log, group, work, rows, trouble>>

(* More members than partitions; what the other groups make of the last    *)
(* batch is not looked at, so this part begins on its own.                 *)
CrowdComes ==
  /\ step = "rest"
  /\ group' = [group EXCEPT !["crowd"] = Entered(@, Crowd)]
  /\ step' = "crowd"
  /\ UNCHANGED <<log, work, rows, report, trouble>>

Third ==
  /\ step = "crowd" /\ Settled(Crowd)
  /\ Fill(1)
  /\ step' = "third" /\ report' = [report EXCEPT !.saw = FALSE]
  /\ UNCHANGED <<group, work, rows, trouble>>

Idle == {m \in Crowd : work[m].assigned = {}}

Conclude ==
  /\ step = "third" /\ ReadAll(Crowd, Count)
  /\ report' = Told(<<ReadByAll(Crowd \ Idle), ReadByAll(Idle), Cardinality(Idle)>>)
  /\ step' = "concluded"
  /\ UNCHANGED <<log, group, work, rows, trouble>>

-------------------------------------------------------------------------------
(* rebalance.ts: the waits look at joins alone, then a pause lets the      *)
(* group settle.                                                           *)

Quiet(g) == group[g].stable /\ group[g].synced = group[g].members

Ride ==
  /\ step = "ride"
  /\ group' = [group EXCEPT !["ride"] = Entered(@, {"r1"})]
  /\ step' = "calm"
  /\ UNCHANGED <<log, work, rows, report, trouble>>

SecondComes ==
  /\ step = "calm" /\ work["r1"].joins > 0 /\ Quiet("ride")
  /\ report' = [report EXCEPT !.before = work["r1"].assigned, !.since["r1"] = work["r1"].joins]
  /\ group' = [group EXCEPT !["ride"] = Entered(@, {"r2"})]
  /\ step' = "move"
  /\ UNCHANGED <<log, work, rows, trouble>>

(* takenAway and ownerOf *)
TakenAway == report.before \ work["r1"].assigned
OwnersOf(p) == {m \in {"r1", "r2"} : p \in work[m].assigned}

SecondGoes ==
  /\ step = "move" /\ Quiet("ride")
  /\ work["r1"].joins > report.since["r1"] /\ work["r2"].joins > 0
  /\ report' = [Told(<<TakenAway, {p \in Partitions : OwnersOf(p) = {"r2"}}, {p \in Partitions : OwnersOf(p) = {}}>>)
                  EXCEPT !.since["r1"] = work["r1"].joins]
  /\ group' = [group EXCEPT !["ride"] = Left(@, "r2")]
  /\ step' = "back"
  /\ UNCHANGED <<log, work, rows, trouble>>

Back ==
  /\ step = "back" /\ work["r1"].joins > report.since["r1"] /\ Quiet("ride")
  /\ report' = Told(work["r1"].assigned)
  /\ step' = "ridden"
  /\ UNCHANGED <<log, group, work, rows, trouble>>

GroupsWork ==
  \/ \E m \in Members : Rejoin(m) \/ GroupJoin(m) \/ \E p \in Partitions : Resolve(m, p) \/ Read(m, p) \/ CommitAt(m, p)
  \/ \E g \in Groups : Complete(g)
  \/ First \/ ReadFirst \/ Second \/ ReadSecond \/ ReadAudit \/ CrowdComes \/ Third \/ Conclude
  \/ Ride \/ SecondComes \/ SecondGoes \/ Back
GroupsNext == GroupsWork \/ Await \/ \E g \in Groups : Rebalances(g)

-------------------------------------------------------------------------------
Devices == DOMAIN PartitionFor
TopicPartitions == {PartitionFor[d] : d \in Devices}

-------------------------------------------------------------------------------
(* order.ts *)

InTurn == SetToSeq(Devices)

Keyed ==
  [k \in 1..(Rounds * Len(InTurn)) |->
     [device |-> InTurn[((k - 1) % Len(InTurn)) + 1], order |-> k, nth |-> ((k - 1) \div Len(InTurn)) + 1]]

(* Without a key the partitions take turns. *)
Plain == [k \in 1..PlainCount |-> [device |-> InTurn[1], order |-> k, nth |-> k]]
TurnOf(k) == SetToSortSeq(TopicPartitions, LAMBDA a, b : a < b)[((k - 1) % Cardinality(TopicPartitions)) + 1]

OrderInit ==
  /\ step = "keyed"
  /\ log = [p \in TopicPartitions |-> SelectSeq(Keyed, LAMBDA m : PartitionFor[m.device] = p)]
  /\ group = [p \in TopicPartitions |-> 0]
  /\ work = [p \in TopicPartitions |-> 0]
  /\ rows = <<>>
  /\ report = [got |-> <<>>, plain |-> <<>>]
  /\ trouble = 0

Reading == step \in {"keyed", "plain"}

(* readAll: messages are taken down in the order they come. *)
Arrives(p) ==
  /\ Reading /\ work[p] < Len(log[p])
  /\ rows' = Append(rows, [partition |-> p, sent |-> log[p][work[p] + 1]])
  /\ work' = [work EXCEPT ![p] = @ + 1]
  /\ UNCHANGED <<log, group, step, report, trouble>>

OrderCommits(p) ==
  /\ Reading /\ trouble = 0 /\ group[p] < work[p]
  /\ group' = [group EXCEPT ![p] = work[p]]
  /\ UNCHANGED <<log, work, rows, step, report, trouble>>

ArrivesAgain(p) ==
  /\ Reading /\ trouble = 0 /\ group[p] < work[p]
  /\ trouble' = 1
  /\ work' = [work EXCEPT ![p] = group[p]]
  /\ UNCHANGED <<log, group, rows, step, report>>

ReadKeyed ==
  /\ step = "keyed" /\ Len(rows) >= Len(Keyed)
  /\ report' = [report EXCEPT !.got = rows]
  /\ rows' = <<>>
  /\ log' = [p \in TopicPartitions |-> SelectSeq(Plain, LAMBDA m : TurnOf(m.order) = p)]
  /\ group' = [p \in TopicPartitions |-> 0] /\ work' = [p \in TopicPartitions |-> 0]
  /\ step' = "plain"
  /\ UNCHANGED trouble

ReadPlain ==
  /\ step = "plain" /\ Len(rows) >= PlainCount
  /\ report' = [report EXCEPT !.plain = rows]
  /\ step' = "ordered"
  /\ UNCHANGED <<log, group, work, rows, trouble>>

IsOrdered(values) == \A j, k \in DOMAIN values : j < k => values[j] < values[k]
Stream(got, d) == [k \in DOMAIN SelectSeq(got, LAMBDA g : g.sent.device = d) |->
                     SelectSeq(got, LAMBDA g : g.sent.device = d)[k].sent.nth]
Spread(got, d) == {g.partition : g \in {x \in ToSet(got) : x.sent.device = d}}

-------------------------------------------------------------------------------
(* compaction.ts.  A record is its key, its version (0 is a tombstone), its *)
(* offset and how often it has been through a cleaning.                    *)

Boundary == "boundary"
Keys == DOMAIN Versions
Living == Keys \ {Doomed}
Kept == Cardinality(Keys) + 1

Record(key, version) == [key |-> key, version |-> version, offset |-> 0, cleaned |-> 0]
States(key, from, count) == [k \in 1..count |-> Record(key, from + k - 1)]
Written == FlattenSeq([k \in 1..Cardinality(Keys) |-> States(SetToSeq(Keys)[k], 1, Versions[SetToSeq(Keys)[k]])])

(* group: where the active segment begins, and how often the log was       *)
(* cleaned; work: where the reader stands and where he is to stop.         *)
CompactInit ==
  /\ step = "write"
  /\ log = <<>>
  /\ group = [end |-> 0, active |-> 0, cleanings |-> 0]
  /\ work = [at |-> 0, last |-> 0, since |-> 0]
  /\ rows = <<>>
  /\ report = [before |-> <<>>, after |-> <<>>, doomed |-> 1]
  /\ trouble = 0

Numbered(records) == [k \in DOMAIN records |-> [records[k] EXCEPT !.offset = group.end + k]]

(* Old segments are closed when something is appended after their time.    *)
Appends(records, rolls) ==
  /\ log' = log \o Numbered(records)
  /\ group' = [group EXCEPT !.end = @ + Len(records), !.active = IF rolls THEN group.end + 1 ELSE @]

Superseded(r, closed) == \E later \in closed : later.key = r.key /\ later.offset > r.offset

Closed == {r \in ToSet(log) : r.offset < group.active}
Cleaned(r) ==
  /\ r \in Closed
  /\ \/ Superseded(r, Closed)
     \/ r.version = 0 /\ r.cleaned > 0

(* The cleaner: of the closed part only the last record of a key is left,  *)
(* a tombstone until the cleaning after that.                              *)
Clean ==
  LET left == SelectSeq(log, LAMBDA r : ~Cleaned(r))
  IN  /\ step \in {"compact", "tombstone"} /\ group.cleanings < MaxCleanings
      /\ \E r \in Closed : Superseded(r, Closed) \/ r.version = 0
      /\ log' = [k \in DOMAIN left |-> IF left[k] \in Closed THEN [left[k] EXCEPT !.cleaned = 1] ELSE left[k]]
      /\ group' = [group EXCEPT !.cleanings = @ + 1]
      /\ UNCHANGED <<work, rows, step, report, trouble>>

(* The last send may come after the time of the segment. *)
WriteStates ==
  /\ step = "write"
  /\ Appends(Written, FALSE)
  /\ step' = "delete"
  /\ UNCHANGED <<work, rows, report, trouble>>

WriteTombstone ==
  /\ step = "delete"
  /\ Appends(<<Record(Doomed, 0)>>, FALSE)
  /\ work' = [at |-> 0, last |-> group.end + 1, since |-> group.cleanings] /\ rows' = <<>>
  /\ step' = "before"
  /\ UNCHANGED <<report, trouble>>

PassOf == step \in {"before", "compact", "tombstone"}

(* pass: back to the beginning, up to the last offset of now. *)
Pass ==
  /\ work' = [at |-> 0, last |-> group.end, since |-> group.cleanings]
  /\ rows' = <<>>

NextRecord == SelectSeq(log, LAMBDA r : r.offset > work.at)[1]

ReadRecord ==
  /\ PassOf /\ work.at < work.last
  /\ rows' = Append(rows, NextRecord)
  /\ work' = [work EXCEPT !.at = NextRecord.offset]
  /\ UNCHANGED <<log, group, step, report, trouble>>

PassDone == PassOf /\ work.at >= work.last

SeenBefore ==
  /\ step = "before" /\ PassDone
  /\ report' = [report EXCEPT !.before = rows]
  /\ Appends(<<Record(Boundary, 1)>>, TRUE)
  /\ step' = "closing"
  /\ UNCHANGED <<work, rows, trouble>>

BeginWatch ==
  /\ step = "closing" /\ Pass
  /\ step' = "compact"
  /\ UNCHANGED <<log, group, report, trouble>>

LookAgain ==
  /\ PassDone
  /\ \/ step = "compact" /\ Len(rows) > Kept
     \/ step = "tombstone" /\ \E k \in DOMAIN rows : rows[k].key = Doomed
  /\ Pass
  /\ UNCHANGED <<log, group, step, report, trouble>>

CountOf(key) == Cardinality({k \in DOMAIN rows : rows[k].key = key})
LastOnly(key) == CountOf(key) = 1 /\ \E k \in DOMAIN rows : rows[k].key = key /\ rows[k].version = Versions[key]

(* checkKept, then further versions and another closed segment.  A pass    *)
(* that two cleanings overtook may have seen a version that is gone.       *)
SeenCompacted ==
  /\ step = "compact" /\ PassDone /\ Len(rows) <= Kept
  /\ IF \A key \in Living : LastOnly(key)
     THEN /\ report' = [report EXCEPT !.after = rows, !.doomed = CountOf(Doomed)]
          /\ Appends(States(CHOOSE key \in Living : TRUE, Versions[CHOOSE key \in Living : TRUE] + 1, 1)
                       \o <<Record(Boundary, 2)>>, FALSE)
          /\ step' = "again"
     ELSE step' = "refused" /\ UNCHANGED <<log, group, report>>
  /\ UNCHANGED <<work, rows, trouble>>

CloseAgain ==
  /\ step = "again" /\ Pass
  /\ group' = [group EXCEPT !.active = group.end]
  /\ step' = "tombstone"
  /\ UNCHANGED <<log, report, trouble>>

TombstoneGone ==
  /\ step = "tombstone" /\ PassDone /\ CountOf(Doomed) = 0
  /\ step' = "compacted"
  /\ UNCHANGED <<log, group, work, rows, report, trouble>>

(* The wait for the second cleaning runs out: that is written down, too.   *)
TombstoneStays ==
  /\ step = "tombstone" /\ PassDone /\ CountOf(Doomed) > 0 /\ group.cleanings = MaxCleanings
  /\ step' = "compacted"
  /\ UNCHANGED <<log, group, work, rows, report, trouble>>

TopicsMoves ==
  \/ \E p \in TopicPartitions : step \in {"keyed", "plain"} /\ Arrives(p)
  \/ ReadKeyed \/ ReadPlain
  \/ WriteStates \/ WriteTombstone \/ ReadRecord \/ SeenBefore \/ BeginWatch
  \/ SeenCompacted \/ CloseAgain \/ TombstoneGone \/ TombstoneStays
TopicsNext ==
  \/ TopicsMoves \/ LookAgain \/ Clean
  \/ \E p \in TopicPartitions : step \in {"keyed", "plain"} /\ (OrderCommits(p) \/ ArrivesAgain(p))

-------------------------------------------------------------------------------
(* Properties. *)

(* What the experiments conclude is so: members of a group share the       *)
(* partitions and read every new message once between them, another group  *)
(* reads all of them and disturbs nobody, who has no partition reads       *)
(* nothing; and the difference of two assignments is what the newcomer has *)
(* got, no partition being without an owner.  A rebalance the experiment   *)
(* has not asked for may make a message count twice.                       *)
GroupsVerdict ==
  /\ step = "audited" =>
       /\ report.told[3][1] >= 2 * Count
       /\ trouble = 0 => report.told = <<Count, Count, <<2 * Count, 0>>>>
  /\ step = "concluded" /\ trouble = 0 => report.told = <<<<Count, 0, Cardinality(Crowd) - Count>>>>
  /\ step = "ridden" =>
       /\ report.told[1][1] = report.told[1][2] /\ report.told[1][3] = {}
       /\ report.told[2] = Partitions
  /\ step \in {"second", "third"} /\ trouble = 0 =>
       \A m, n \in IF step = "second" THEN {"a", "b"} ELSE Crowd :
         m # n => \A p \in Partitions : work[m].seen[p] = 0 \/ work[n].seen[p] = 0

(* Undisturbed, the experiments come to their conclusions, unless a member *)
(* without a position looked for the end of the topic after the message.   *)
GroupsDone == step \in {"audited", "concluded", "ridden"} \/ trouble = 1 \/ rows = 1

(* The conclusions: a key lies in one partition, the planned one, and its  *)
(* messages come in the order they were sent, however the partitions       *)
(* alternate; without a key the same stream lies in all of them.  Before   *)
(* the cleaning a reader sees every version, after it one record of each   *)
(* living key, its last, and what it takes for a loss is only a pass that  *)
(* two cleanings overtook.                                                 *)
TopicsVerdict ==
  /\ step = "ordered" =>
       /\ \A d \in Devices : Spread(report.got, d) \subseteq {PartitionFor[d]}
       /\ trouble = 0 =>
            /\ \A d \in Devices : Len(Stream(report.got, d)) = Rounds /\ IsOrdered(Stream(report.got, d))
            /\ Spread(report.plain, InTurn[1]) = TopicPartitions
  /\ step = "compacted" =>
       /\ Len(report.before) = Len(Written) + 1
       /\ \A key \in Keys : CountOf(key) <= IF key = Doomed THEN 1 ELSE 3
       /\ Len(report.after) = Kept \/ report.doomed = 0
  /\ step = "refused" => group.cleanings - work.since >= 2

(* Undisturbed, both come to their conclusions.  *)
TopicsDone == step \in {"ordered", "compacted", "refused"} \/ trouble = 1
================================================================================
