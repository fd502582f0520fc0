---------------------------- MODULE PipelineSampler ----------------------------
(***************************************************************************)
(* The gateway's look at the broker: every few seconds the ends of the     *)
(* logs, the groups with their members and their offsets are read one      *)
(* after the other while the groups go on, and the changes of the settled  *)
(* groups between two looks make a journal of rebalances.                  *)
(*                                                                         *)
(* One topic stands for all; its end is the sum of its partitions.  Time   *)
(* is kept as the age of the looks, in polls, as far as the window of      *)
(* rates goes.                                                             *)
(***************************************************************************)
EXTENDS Integers, Sequences, SequencesExt

CONSTANTS
  Groups,         \* groups of consumers, numbered in the order of their names
  GatewayGroups,  \* those with the prefix of a gateway
  Members, Partitions,
  Window,         \* RATE_WINDOW_MS in polls
  JournalLimit,   \* REBALANCE_LIMIT
  MaxHigh,        \* bound: messages in the topic
  MaxChanges,     \* bound: rebalances begun and groups expired
  MaxBreaks       \* bound: failed calls to the broker

VARIABLES
  group, high, committed, changes,   \* the broker
  look,        \* the look under way
  connected, stage, view, breaks,
  history,     \* the ends of the looks that succeeded, with their ages
  settled      \* the settled shapes as the last of them left them

sampler == <<group, high, committed, changes, look, connected, stage, history, settled, view, breaks>>
broker == <<group, high, committed, changes>>

NoCommit == -1
Nobody == <<>>

(* The members of a group with their partitions. *)
Shapes == {Nobody} \cup UNION {
  {shape \in [S -> SUBSET Partitions] :
     \A p \in Partitions : \E m \in S : /\ p \in shape[m]
                                        /\ \A other \in S \ {m} : p \notin shape[other]}
  : S \in SUBSET Members \ {{}}}

IsRebalancing(state) == state = "Rebalancing"
IsStaleGatewayGroup(g, state) == g \in GatewayGroups /\ state = "Empty"

Absent == [state |-> "absent", shape |-> Nobody]

(* A look: the readings so far, and what really lay before a group when    *)
(* its offsets were read.                                                  *)
Idle == [at |-> "idle", ends |-> 0, listed |-> {}, seen |-> <<>>, offsets |-> <<>>, real |-> <<>>]
NoView == [error |-> FALSE, rate |-> <<>>, groups |-> <<>>, journal |-> <<>>]

SamplerInit ==
  /\ group \in [Groups -> {Absent, [Absent EXCEPT !.state = "Rebalancing"]}]
  /\ high = 0 /\ committed = [g \in Groups |-> NoCommit] /\ changes = 0
  /\ look = Idle /\ connected = FALSE /\ stage = "on"
  /\ history = <<>> /\ settled = <<>> /\ view = NoView /\ breaks = 0

-------------------------------------------------------------------------------
(* The broker and its groups. *)

ours == <<look, connected, stage, history, settled, view, breaks>>

Produce == high < MaxHigh /\ high' = high + 1 /\ UNCHANGED <<group, committed, changes, ours>>

Consume(g) ==
  /\ group[g].state = "Stable" /\ committed[g] < high
  /\ \E offset \in (committed[g] + 1)..high : committed' = [committed EXCEPT ![g] = offset]
  /\ UNCHANGED <<group, high, changes, ours>>

(* The members are known again at once, their partitions only when the     *)
(* group has settled.                                                      *)
Rebalance(g) ==
  /\ changes < MaxChanges /\ changes' = changes + 1
  /\ ~IsRebalancing(group[g].state)
  /\ group' = [group EXCEPT ![g] = [state |-> "Rebalancing", shape |-> [m \in DOMAIN @.shape |-> {}]]]
  /\ UNCHANGED <<high, committed, ours>>

Settle(g) ==
  /\ IsRebalancing(group[g].state)
  /\ \E shape \in Shapes : group' = [group EXCEPT ![g] =
       [state |-> IF shape = Nobody THEN "Empty" ELSE "Stable", shape |-> shape]]
  /\ UNCHANGED <<high, committed, changes, ours>>

Expire(g) ==
  /\ changes < MaxChanges /\ changes' = changes + 1
  /\ group[g].state = "Empty"
  /\ group' = [group EXCEPT ![g].state = "absent"]
  /\ committed' = [committed EXCEPT ![g] = NoCommit]
  /\ UNCHANGED <<high, ours>>

-------------------------------------------------------------------------------
(* What a look makes of its readings. *)

(* The oldest look inside the window, or the last one. *)
RateBase(looks) ==
  LET inside == {n \in DOMAIN looks : looks[n].age <= Window}
  IN  IF inside = {} THEN looks[Len(looks)] ELSE looks[CHOOSE n \in inside : \A o \in inside : n <= o]

(* The rise of the topic and the polls it took; unknown on the first look. *)
RatePerSec(looks, ends) ==
  IF looks = <<>> THEN <<>>
  ELSE LET base == RateBase(looks)
           rise == ends - base.ends
       IN  <<IF rise > 0 THEN rise ELSE 0, base.age>>

(* A group has a row for the topic if it reads it or has committed in it;  *)
(* without a commit the lag is unknown.                                    *)
HasRow(g, offset) ==
  offset # NoCommit \/ \E m \in DOMAIN look.seen[g].shape : look.seen[g].shape[m] # {}
GroupLag(g, offset) ==
  IF ~HasRow(g, offset) \/ offset = NoCommit THEN <<>>
  ELSE <<IF look.ends > offset THEN look.ends - offset ELSE 0>>

(* Seconds to work off the lag: unknown without rows, without a rate and   *)
(* while nothing moves.                                                    *)
LagSeconds(g, offset, rate) ==
  IF ~HasRow(g, offset) \/ rate = <<>> THEN <<>>
  ELSE IF rate[1] = 0 THEN <<>>
  ELSE <<IF GroupLag(g, offset) = <<>> THEN 0 ELSE GroupLag(g, offset)[1], rate>>

(* The settled shapes known after a look that saw these groups: a group in *)
(* the middle of a rebalance keeps what was known of it, and on the very   *)
(* first look stays unknown.                                               *)
Known(shape) == [known |-> TRUE, shape |-> shape]
Unknown == [known |-> FALSE, shape |-> Nobody]

SettledNow(seen) == {g \in DOMAIN seen : ~IsRebalancing(seen[g].state)}
Settled(isFirst, before, seen) ==
  [g \in SettledNow(seen) \cup {x \in DOMAIN seen : isFirst \/ x \in DOMAIN before} |->
     IF g \in SettledNow(seen) THEN Known(seen[g].shape)
     ELSE IF isFirst THEN Unknown ELSE before[g]]

ShapeIn(shapes, g) == IF g \in DOMAIN shapes THEN shapes[g].shape ELSE Nobody
Size(shape) == Len(SetToSeq(DOMAIN shape))

ChangedGroups(before, after, seen) ==
  {g \in DOMAIN before \cup DOMAIN after :
     /\ g \in DOMAIN seen => ~IsRebalancing(seen[g].state)
     /\ g \in DOMAIN before => before[g].known
     /\ ShapeIn(before, g) # ShapeIn(after, g)}

Rebalances(isFirst, before, after, seen) ==
  LET changed == IF isFirst THEN {} ELSE ChangedGroups(before, after, seen)
      order == SetToSortSeq(changed, LAMBDA g, other : g < other)
  IN  [n \in DOMAIN order |-> [group  |-> order[n],
                               before |-> Size(ShapeIn(before, order[n])),
                               after  |-> Size(ShapeIn(after, order[n]))]]

AppendRebalances(journal, fresh) ==
  LET all == fresh \o journal
  IN  SubSeq(all, 1, IF Len(all) > JournalLimit THEN JournalLimit ELSE Len(all))

-------------------------------------------------------------------------------
(* The steps of a look.  A poll that finds one under way starts no other,  *)
(* so that more than one poll may pass between two looks.                  *)

Begin ==
  /\ stage = "on" /\ look.at = "idle"
  /\ \E polls \in 1..Window :
       history' = [n \in DOMAIN history |->
                     [history[n] EXCEPT !.age = IF @ + polls > Window THEN Window + 1 ELSE @ + polls]]
  /\ look' = [Idle EXCEPT !.at = IF connected THEN "ends" ELSE "connect"]
  /\ UNCHANGED <<broker, connected, stage, settled, view, breaks>>

Connect ==
  /\ look.at = "connect"
  /\ connected' = TRUE /\ look' = [look EXCEPT !.at = "ends"]
  /\ UNCHANGED <<broker, stage, history, settled, view, breaks>>

ReadEnds ==
  /\ look.at = "ends"
  /\ look' = [look EXCEPT !.at = "list", !.ends = high]
  /\ UNCHANGED <<broker, connected, stage, history, settled, view, breaks>>

ListGroups ==
  /\ look.at = "list"
  /\ look' = [look EXCEPT !.at = "describe", !.listed = {g \in Groups : group[g].state # "absent"}]
  /\ UNCHANGED <<broker, connected, stage, history, settled, view, breaks>>

(* A group that has gone since it was listed is described as dead. *)
DescribeGroups ==
  /\ look.at = "describe"
  /\ LET described == [g \in look.listed |->
           IF group[g].state = "absent" THEN [state |-> "Dead", shape |-> Nobody] ELSE group[g]]
         visible == {g \in look.listed : ~IsStaleGatewayGroup(g, described[g].state)}
     IN  look' = [look EXCEPT !.at = "offsets", !.seen = [g \in visible |-> described[g]]]
  /\ UNCHANGED <<broker, connected, stage, history, settled, view, breaks>>

ReadOffsets(g) ==
  /\ look.at = "offsets" /\ g \in DOMAIN look.seen \ DOMAIN look.offsets
  /\ look' = [look EXCEPT
                !.offsets = [x \in DOMAIN @ \cup {g} |-> IF x = g THEN committed[g] ELSE @[x]],
                !.real    = [x \in DOMAIN @ \cup {g} |-> IF x = g THEN high - committed[g] ELSE @[x]]]
  /\ UNCHANGED <<broker, connected, stage, history, settled, view, breaks>>

WithinWindow(next) == Append(SelectSeq(history, LAMBDA old : old.age <= Window), next)

Publish ==
  /\ look.at = "offsets" /\ DOMAIN look.seen = DOMAIN look.offsets
  /\ LET isFirst == history = <<>>
         rate == RatePerSec(history, look.ends)
     IN  /\ history' = WithinWindow([age |-> 0, ends |-> look.ends])
         /\ settled' = Settled(isFirst, settled, look.seen)
         /\ view' = [error |-> FALSE, rate |-> rate,
                     groups |-> [g \in DOMAIN look.seen |->
                       [state |-> look.seen[g].state, shape |-> look.seen[g].shape,
                        lag |-> GroupLag(g, look.offsets[g]),
                        lagSeconds |-> LagSeconds(g, look.offsets[g], rate)]],
                     journal |-> AppendRebalances(view.journal,
                                   Rebalances(isFirst, settled, settled', look.seen))]
  /\ look' = Idle
  /\ UNCHANGED <<broker, connected, stage, breaks>>

(* A look that fails leaves all of the last one but the error, and the     *)
(* next one connects anew.                                                 *)
Fail ==
  /\ look.at # "idle" /\ breaks < MaxBreaks /\ breaks' = breaks + 1
  /\ look' = Idle /\ connected' = FALSE
  /\ view' = [view EXCEPT !.error = TRUE]
  /\ UNCHANGED <<broker, stage, history, settled>>

Stop ==
  /\ stage = "on" /\ stage' = "stopping"
  /\ UNCHANGED <<broker, look, connected, history, settled, view, breaks>>

(* With the process its memory goes. *)
Disconnect ==
  /\ stage = "stopping" /\ look.at = "idle"
  /\ stage' = "stopped" /\ connected' = FALSE
  /\ history' = <<>> /\ settled' = <<>> /\ view' = NoView
  /\ UNCHANGED <<broker, look, breaks>>

LookStep ==
  \/ Connect \/ ReadEnds \/ ListGroups \/ DescribeGroups \/ Publish
  \/ \E g \in Groups : ReadOffsets(g)

SamplerNext ==
  \/ Produce \/ Begin \/ LookStep \/ Fail \/ Stop \/ Disconnect
  \/ \E g \in Groups : Consume(g) \/ Rebalance(g) \/ Settle(g) \/ Expire(g)

-------------------------------------------------------------------------------
(* Properties. *)

EntriesOf(g) == SelectSeq(view.journal, LAMBDA entry : entry.group = g)

(* The journal of a group is a chain: each rebalance begins with as many   *)
(* members as the one before it has left, and the last one has left those  *)
(* that are known now, through failed looks and rebalances under way       *)
(* (trackRebalances, appendRebalances).                                    *)
JournalIsAChain ==
  \A g \in Groups :
    LET entries == EntriesOf(g)
    IN  /\ \A n \in 2..Len(entries) : entries[n - 1].before = entries[n].after
        /\ entries # <<>> =>
             entries[1].after = Size(ShapeIn(settled, g))

(* The lag of a group is never more than what lay before it when its       *)
(* offsets were read, though the ends are read earlier (collect).          *)
LagIsNotOverstated ==
  \A g \in DOMAIN look.offsets :
    LET lag == GroupLag(g, look.offsets[g])
    IN  lag # <<>> => lag[1] <= look.real[g]

(* A stopped sampler leaves no connection open. *)
LeavesNoConnection == stage = "stopped" => ~connected /\ look.at = "idle"

LooksAreSound == JournalIsAChain /\ LagIsNotOverstated /\ LeavesNoConnection

(* The view catches up with the broker: no error is left and every group   *)
(* that can be seen is shown with its members.                             *)
Visible == {g \in Groups : group[g].state # "absent" /\ ~IsStaleGatewayGroup(g, group[g].state)}
ViewIsTrue ==
  /\ ~view.error /\ DOMAIN view.groups = Visible
  /\ \A g \in Visible : view.groups[g].state = group[g].state /\ view.groups[g].shape = group[g].shape
CaughtUp == stage # "on" \/ ViewIsTrue
===============================================================================
