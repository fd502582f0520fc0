-------------------------- MODULE DeviceHealthProofs --------------------------
(***************************************************************************)
(* Proofs about the health of a device and its handover, for every number  *)
(* of instances, disturbances of the group and failed calls: whoever has   *)
(* read the row of a device is the last to write it.                       *)
(*                                                                         *)
(* The argument: of the assignments an instance has not applied, the last  *)
(* one is the truth of the coordinator or the instance has left, and who   *)
(* owns the device with nothing to apply is its owner in the group.  So    *)
(* only the owner enters a transaction with a state, and whoever reads the *)
(* row reads it when no transaction is open.                               *)
(***************************************************************************)
EXTENDS DeviceHealth, SequenceTheorems, TLAPS

USE HealthAssumption DEF HealthAssumption

Assignment == [mine: BOOLEAN, same: BOOLEAN]
Places == {"idle", "locking", "upserting", "inserting", "sending"}
Turn == [at: Places, offer: Row, events: BOOLEAN]
Restoring == [at: {"no", "reading", "read"}, row: Row]

GroupTypes ==
  /\ members \subseteq Instances /\ announced \subseteq members
  /\ owner \in Instances \cup {None}
  /\ rebalances \in 0..MaxRebalances /\ faults \in 0..MaxFaults
QueueTypes == queue \in [Instances -> Seq(Assignment)]
MovingTypes ==
  /\ reading \in [Instances -> Restoring]
  /\ owned \subseteq Instances /\ blind \in BOOLEAN /\ leftover \subseteq Instances
TrackTypes == track \in [Instances -> Track]
EventTypes ==
  /\ pending \in [Instances -> Seq(Event)]
  /\ lastEvent \in {"none", "went_offline", "came_online"}
TickTypes == tick \in [Instances -> Turn] /\ row \in Row

(* A row without a reason is no row. *)
Known(r) == r.reason = "none" => r = NoRow
RowsKnown ==
  /\ Known(row)
  /\ \A i \in Instances : Known(reading[i].row) /\ Known(tick[i].offer)

HealthTypes ==
  /\ GroupTypes /\ QueueTypes /\ MovingTypes /\ TrackTypes /\ EventTypes /\ TickTypes
  /\ RowsKnown

(* What an instance has not applied yet: the last assignment is that of    *)
(* the group unless it has left, and after a time out of the group nothing *)
(* is kept; who restores has got the device, who owns it with nothing to   *)
(* apply is its owner.                                                     *)
Last(j) == queue[j][Len(queue[j])]
QueueInv(j) ==
  /\ queue[j] # <<>> /\ Last(j).mine => j = owner /\ j \in members
  /\ queue[j] # <<>> /\ j \in members /\ j = owner => Last(j).mine
  /\ \A k \in 2..Len(queue[j]) : queue[j][k].mine /\ ~queue[j][k].same => ~queue[j][k - 1].mine
  /\ reading[j].at # "no" => queue[j] # <<>> /\ queue[j][1].mine
  /\ j \in owned /\ queue[j] = <<>> => j = owner /\ j \in members
  /\ j \in owned /\ queue[j] # <<>> /\ queue[j][1].mine => queue[j][1].same

(* Nothing has come between an instance and the assignment it works by,    *)
(* but perhaps its own leaving; n assignments are applied already.         *)
Continues(j, n) ==
  \A k \in DOMAIN queue[j] : k > n =>
    \/ queue[j][k].mine /\ queue[j][k].same
    \/ k = Len(queue[j]) /\ j \notin members

Has(j) == j = owner /\ j \in owned /\ Continues(j, 0)
HasRead(j) == j = owner /\ reading[j].at = "read" /\ Continues(j, 1)
Safe(j) == Has(j) \/ HasRead(j)

WritesState(i) == Writing(i) /\ tick[i].offer # NoRow

(* Whose transaction writes a state or events, or may yet write events.    *)
Writer(i) == Writing(i) /\ (tick[i].offer # NoRow \/ i \in owned \/ tick[i].events)

(* Nobody but the one who has read the row, or kept the device, writes, and *)
(* never two at once.                                                      *)
Alone == ~blind => \A i, j \in Instances : i # j /\ Writer(i) => ~Safe(j) /\ ~Writer(j)

(* Who has read writes nothing yet, and only a blind start is quiet.       *)
ReadingQuiet == \A i \in Instances : reading[i].at = "read" => ~Writing(i)
Quiet == ~blind => \A i \in Instances : ~track[i].quiet

(* The state that a tick offers is the one the events led to, and what it  *)
(* commits are all of them.                                                *)
Ahead(i) == tick[i].at \in {"locking", "upserting", "inserting"}
Offered(i) ==
  ~blind /\ i \in owned /\ i \notin leftover /\ Ahead(i) =>
    /\ track[i].snapshot # "none"
    /\ tick[i].offer # NoRow => StatusOf(tick[i].offer.reason) = track[i].snapshot
    /\ tick[i].at = "inserting" => tick[i].events

(* The story of the device: what the table has of it, the events that wait *)
(* and the status they are compared with follow each other.                *)
Prefix(i) ==
  \A k, m \in DOMAIN pending[i] : k < m /\ pending[i][m].stored => pending[i][k].stored
Unstored(i) == {k \in DOMAIN pending[i] : ~pending[i][k].stored}
Fit(x, last) == (x = "online" => last = "came_online") /\ (x = "offline" => last = "went_offline")
FitsTable(x) == Fit(x, lastEvent) \/ row = NoRow \/ StatusOf(row.reason) = x
Chained(i) ==
  \A k \in Unstored(i) : IF k - 1 \in Unstored(i)
                         THEN Fit(pending[i][k].from, pending[i][k - 1].kind)
                         ELSE FitsTable(pending[i][k].from)
Ended(i) ==
  /\ track[i].snapshot = "none" => row = NoRow /\ pending[i] = <<>>
  /\ IF Unstored(i) = {} THEN FitsTable(track[i].snapshot)
     ELSE Fit(track[i].snapshot, pending[i][Len(pending[i])].kind)
Judged(i) == i \notin leftover /\ (Has(i) \/ Writer(i))
Story(i) == ~blind /\ Judged(i) => Chained(i) /\ (i \in owned => Ended(i))

(* A guess is made only of a device that has not answered.                 *)
Honest(r) == r.reason = "startup_grace" => ~r.everOk
Loud(i) ==
  \/ track[i].ok = "never" /\ track[i].grace /\ ~track[i].quiet
  \/ Ahead(i) /\ tick[i].offer.reason = "startup_grace"
ReadTrue(i) == HasRead(i) => reading[i].row = row /\ \A j \in Instances : ~WritesState(j)
Guess(i) ==
  Has(i) /\ i \notin leftover =>
    /\ tick[i].offer.everOk => track[i].ok # "never"
    /\ Loud(i) => ~row.everOk /\ \A j \in Instances : j # i => ~WritesState(j)

HandoverInv ==
  /\ HealthTypes /\ \A j \in Instances : QueueInv(j)
  /\ Alone /\ ReadingQuiet /\ Quiet
  /\ Honest(row) /\ \A i \in Instances : Honest(tick[i].offer)
HealthInv ==
  /\ HandoverInv
  /\ \A i \in Instances : Offered(i) /\ Prefix(i) /\ Story(i) /\ ReadTrue(i) /\ Guess(i)

-------------------------------------------------------------------------------
(* Types. *)

LEMMA TypesMeanTypeOK == HealthTypes => TypeOK
BY DEF HealthTypes, GroupTypes, QueueTypes, MovingTypes, TrackTypes, EventTypes, TickTypes,
       TypeOK, Assignment, Places, Turn, Restoring

LEMMA NoRowIsRow == NoRow \in Row /\ Known(NoRow)
BY DEF NoRow, Row, Known

LEMMA FreshIsTrack == freshTrack \in Track /\ blindTrack \in Track
<1>1. freshTrack \in Track
  BY DEF freshTrack, Track
<1>2. [freshTrack EXCEPT !.quiet = TRUE] \in Track
  BY <1>1 DEF Track
<1> QED BY <1>1, <1>2 DEF blindTrack

LEMMA StatusType == ASSUME NEW r \in Reasons PROVE StatusOf(r) \in {"unknown", "online", "degraded", "offline"}
BY DEF Reasons, StatusOf

LEMMA VerdictType == ASSUME NEW t \in Track PROVE deviceVerdict(t) \in Reasons
BY DEF deviceVerdict, Reasons

LEMMA OfferType == ASSUME NEW t \in Track PROVE Offer(t) \in Row /\ Known(Offer(t))
<1>1. Offer(t).reason \in Reasons
  BY VerdictType DEF Offer
<1>2. t.errors \in 0..OfflineAfter /\ (t.ok # "never") \in BOOLEAN
  BY DEF Track
<1> QED BY <1>1, <1>2 DEF Offer, Row, Known, Reasons

LEMMA RestoredType ==
  ASSUME NEW r \in Row, Known(r), r # NoRow, NEW t \in restoredTracks(r)
  PROVE  t \in Track
<1>1. r.reason \in Reasons /\ r.errors \in 0..OfflineAfter
  BY DEF Row, Known
<1>2. StatusOf(r.reason) \in {"unknown", "online", "degraded", "offline"}
  BY <1>1, StatusType
<1>3. PICK ok \in {"recent", "never", "old"}, g \in BOOLEAN :
        t = [ok |-> ok, errors |-> r.errors, grace |-> g /\ ok = "never", quiet |-> FALSE,
             snapshot |-> StatusOf(r.reason), published |-> r.reason]
  BY <1>1 DEF restoredTracks, Row
<1> QED BY <1>1, <1>2, <1>3 DEF Track

LEMMA ObservedType ==
  ASSUME NEW t \in Track, NEW u \in Observed(t)
  PROVE  u \in Track
<1>1. [t EXCEPT !.ok = "recent", !.errors = 0, !.grace = FALSE] \in Track
  <2>1. [t EXCEPT !.ok = "recent"] \in Track
    BY DEF Track
  <2>2. [[t EXCEPT !.ok = "recent"] EXCEPT !.errors = 0] \in Track
    BY <2>1, 0 \in 0..OfflineAfter DEF Track
  <2>3. [[[t EXCEPT !.ok = "recent"] EXCEPT !.errors = 0] EXCEPT !.grace = FALSE] \in Track
    BY <2>2 DEF Track
  <2> QED BY <2>3
<1>2. t.errors < OfflineAfter => [t EXCEPT !.errors = @ + 1] \in Track
  BY DEF Track
<1> QED BY <1>1, <1>2 DEF Observed

LEMMA DetectType ==
  ASSUME NEW from \in {"none", "unknown", "online", "degraded", "offline"}, NEW to
  PROVE  detectDeviceEvents(from, to) \in Seq(Event)
<1> DEFINE event(kind) == [kind |-> kind, from |-> from, stored |-> FALSE]
<1>1. from # "none" => event("went_offline") \in Event /\ event("came_online") \in Event
  BY DEF Event
<1>2. from # "none" => <<event("went_offline")>> \in Seq(Event) /\ <<event("came_online")>> \in Seq(Event)
  BY <1>1
<1>3. <<>> \in Seq(Event)
  OBVIOUS
<1> QED BY <1>2, <1>3 DEF detectDeviceEvents

(* Who is in the group, what is known of it, and the two bounds.           *)
LEMMA GroupStep == ASSUME HealthTypes, Next PROVE GroupTypes'
<1> USE DEF HealthTypes, GroupTypes
<1>1. CASE Rebalance
  BY <1>1 DEF Rebalance
<1>2. ASSUME NEW i \in Instances, Handover(i) \/ Tick(i) \/ BeginRebalance(i) \/ Observe(i) \/ Frame(i) \/ TimePasses(i)
      PROVE  GroupTypes'
  <2>1. CASE Announce(i) \/ BeginRebalance(i)
    BY <2>1 DEF Announce, BeginRebalance, Disturbance
  <2>2. CASE Apply(i) \/ Read(i) \/ Adopt(i)
    BY <2>2 DEF Apply, Read, Adopt, Adopted, group
  <2>3. CASE Tick(i)
    BY <2>3 DEF Tick, Evaluate, Enter, Upserted, Commit, Send, group
  <2>4. CASE Observe(i) \/ Frame(i) \/ TimePasses(i)
    BY <2>4 DEF Observe, Frame, TimePasses, group
  <2> QED BY <1>2, <2>1, <2>2, <2>3, <2>4 DEF Handover
<1>3. ASSUME NEW i \in Instances, Leave(i) \/ Crash(i) PROVE GroupTypes'
  BY <1>3 DEF Leave, Crash, Disturbance
<1>4. ASSUME NEW i \in Instances, AdoptBlind(i) \/ WriteFails(i) \/ CommitUnknown(i) \/ SendFails(i)
      PROVE  GroupTypes'
  BY <1>4 DEF AdoptBlind, Adopted, WriteFails, CommitUnknown, SendFails, Fault, group
<1> QED BY <1>1, <1>2, <1>3, <1>4 DEF Next

(* Only of a queue that is not empty the head is taken. *)
LEMMA QueueStep == ASSUME HealthTypes, \A j \in Instances : QueueInv(j), Next PROVE QueueTypes'
<1>1. QueueTypes
  BY DEF HealthTypes
<1> USE <1>1 DEF QueueTypes
<1>2. CASE Rebalance
  <2>1. PICK joined \in SUBSET Instances :
          queue' = [i \in Instances |->
                      IF i \in joined
                      THEN Append(queue[i], [mine |-> owner' = i, same |-> i \in members])
                      ELSE queue[i]]
    BY <1>2 DEF Rebalance
  <2>2. \A i \in Instances : [mine |-> owner' = i, same |-> i \in members] \in Assignment
    <3> TAKE i \in Instances
    <3>1. (owner' = i) \in BOOLEAN /\ (i \in members) \in BOOLEAN
      OBVIOUS
    <3> QED BY ONLY <3>1, Zenon DEF Assignment
  <2>3. \A i \in Instances : Append(queue[i], [mine |-> owner' = i, same |-> i \in members]) \in Seq(Assignment)
    <3> TAKE i \in Instances
    <3> DEFINE entry == [mine |-> owner' = i, same |-> i \in members]
    <3>1. entry \in Assignment
      BY <2>2
    <3> HIDE DEF entry
    <3>2. Append(queue[i], entry) \in Seq(Assignment)
      BY <3>1
    <3> QED BY <3>2 DEF entry
  <2> QED BY <2>1, <2>3
<1>3. ASSUME NEW i \in Instances, Leave(i) PROVE QueueTypes'
  <2>1. [mine |-> FALSE, same |-> FALSE] \in Assignment
    BY DEF Assignment
  <2> QED BY <1>3, <2>1 DEF Leave
<1>4. ASSUME NEW i \in Instances, queue[i] # <<>>, queue' = [queue EXCEPT ![i] = Tail(queue[i])]
      PROVE  QueueTypes'
  <2>1. Tail(queue[i]) \in Seq(Assignment)
    BY <1>4, HeadTailProperties
  <2> QED BY <1>4, <2>1
<1>5. ASSUME NEW i \in Instances, Apply(i) PROVE QueueTypes'
  BY <1>4, <1>5 DEF Apply
<1>6. ASSUME NEW i \in Instances, Crash(i) PROVE QueueTypes'
  BY <1>6 DEF Crash
<1>7. ASSUME NEW i \in Instances, Adopt(i) \/ AdoptBlind(i) PROVE QueueTypes'
  <2>1. queue[i] # <<>>
    BY <1>7 DEF QueueInv, Adopt, AdoptBlind
  <2>2. queue' = [queue EXCEPT ![i] = Tail(queue[i])]
    BY <1>7 DEF Adopt, AdoptBlind, Adopted
  <2> QED BY <1>4, <2>1, <2>2
<1>8. ASSUME NEW i \in Instances,
             Announce(i) \/ Read(i) \/ Tick(i) \/ BeginRebalance(i) \/ Observe(i) \/ Frame(i)
               \/ TimePasses(i) \/ WriteFails(i) \/ CommitUnknown(i) \/ SendFails(i)
      PROVE  QueueTypes'
  BY <1>8 DEF Announce, Read, Tick, Evaluate, Enter, Upserted, Commit, Send, BeginRebalance, Observe,
              Frame, TimePasses, WriteFails, CommitUnknown, SendFails, moving
<1> QED BY <1>2, <1>3, <1>5, <1>6, <1>7, <1>8 DEF Next, Handover

(* The actions that move neither the device nor what is read of it.        *)
Keeping(i) ==
  \/ Announce(i) \/ Tick(i) \/ BeginRebalance(i) \/ Observe(i) \/ Frame(i) \/ TimePasses(i)
  \/ Leave(i) \/ WriteFails(i) \/ CommitUnknown(i) \/ SendFails(i)
LEMMA Kept == ASSUME NEW i \in Instances, Keeping(i) PROVE UNCHANGED <<reading, owned, blind, leftover>>
BY DEF Keeping, Announce, Tick, Evaluate, Enter, Upserted, Commit, Send, BeginRebalance, Observe,
       Frame, TimePasses, Leave, WriteFails, CommitUnknown, SendFails, moving

LEMMA NextCases ==
  ASSUME Next
  PROVE  Rebalance \/ \E i \in Instances :
           Apply(i) \/ Read(i) \/ Adopt(i) \/ AdoptBlind(i) \/ Crash(i) \/ Keeping(i)
BY DEF Next, Handover, Keeping

(* What is being read of a row is the row, or nothing.                     *)
LEMMA MovingStep ==
  ASSUME HealthTypes, Next
  PROVE  MovingTypes' /\ \A i \in Instances : Known(reading'[i].row)
<1>1. MovingTypes /\ row \in Row /\ Known(row) /\ \A i \in Instances : Known(reading[i].row)
  BY DEF HealthTypes, TickTypes, RowsKnown
<1> USE DEF MovingTypes
<1>2. NotReading \in Restoring /\ Known(NotReading.row)
  BY NoRowIsRow DEF NotReading, Restoring
<1>3. CASE Rebalance
  BY <1>1, <1>3 DEF Rebalance
<1>4. ASSUME NEW i \in Instances, Keeping(i)
      PROVE  MovingTypes' /\ \A j \in Instances : Known(reading'[j].row)
  BY <1>1, <1>4, Kept
<1>5. ASSUME NEW i \in Instances, Apply(i)
      PROVE  MovingTypes' /\ \A j \in Instances : Known(reading'[j].row)
  <2>1. [reading[i] EXCEPT !.at = "reading"] \in Restoring /\ [reading[i] EXCEPT !.at = "reading"].row = reading[i].row
    BY <1>1 DEF Restoring
  <2>2. reading' \in {reading, [reading EXCEPT ![i] = [reading[i] EXCEPT !.at = "reading"]]}
    BY <1>5 DEF Apply
  <2>3. owned' \subseteq Instances /\ blind' = blind /\ leftover' = leftover
    BY <1>1, <1>5 DEF Apply, Released
  <2> QED BY <1>1, <2>1, <2>2, <2>3
<1>6. ASSUME NEW i \in Instances, Read(i)
      PROVE  MovingTypes' /\ \A j \in Instances : Known(reading'[j].row)
  <2>1. [at |-> "read", row |-> row] \in Restoring
    BY <1>1 DEF Restoring
  <2> QED BY <1>1, <1>6, <2>1 DEF Read
<1>7. ASSUME NEW i \in Instances, Adopt(i) \/ AdoptBlind(i) \/ Crash(i)
      PROVE  MovingTypes' /\ \A j \in Instances : Known(reading'[j].row)
  <2>1. reading' = [reading EXCEPT ![i] = NotReading]
    BY <1>7 DEF Adopt, AdoptBlind, Crash, Adopted
  <2>2. owned' \subseteq Instances /\ leftover' \subseteq Instances
    BY <1>1, <1>7 DEF Adopt, AdoptBlind, Crash, Adopted
  <2>3. blind' \in BOOLEAN
    BY <1>1, <1>7 DEF Adopt, AdoptBlind, Crash
  <2> QED BY <1>1, <1>2, <2>1, <2>2, <2>3
<1> QED BY <1>3, <1>4, <1>5, <1>6, <1>7, NextCases

LEMMA TrackStep == ASSUME HealthTypes, Next PROVE TrackTypes'
<1>1. TrackTypes
  BY DEF HealthTypes
<1> USE <1>1 DEF TrackTypes
<1>2. ASSUME NEW i \in Instances, NEW t \in Track, track' = [track EXCEPT ![i] = t] PROVE TrackTypes'
  BY <1>2
<1>3. CASE Rebalance
  BY <1>3 DEF Rebalance
<1>4. ASSUME NEW i \in Instances, Apply(i) \/ Crash(i) PROVE TrackTypes'
  BY <1>4, FreshIsTrack DEF Apply, Released, Crash
<1>5. ASSUME NEW i \in Instances, Adopt(i) PROVE TrackTypes'
  <2>1. reading[i].row \in Row /\ Known(reading[i].row)
    BY DEF HealthTypes, MovingTypes, RowsKnown, Restoring
  <2>2. CASE reading[i].row = NoRow
    BY <1>2, <1>5, <2>2, FreshIsTrack DEF Adopt, Adopted
  <2>3. CASE reading[i].row # NoRow
    <3>1. PICK t \in restoredTracks(reading[i].row) : Adopted(i, t)
      BY <1>5, <2>3 DEF Adopt
    <3>2. t \in Track
      BY <2>1, <2>3, RestoredType
    <3> QED BY <1>2, <3>1, <3>2 DEF Adopted
  <2> QED BY <2>2, <2>3
<1>6. ASSUME NEW i \in Instances, AdoptBlind(i) PROVE TrackTypes'
  BY <1>2, <1>6, FreshIsTrack DEF AdoptBlind, Adopted
<1>7. ASSUME NEW i \in Instances, Observe(i) PROVE TrackTypes'
  BY <1>2, <1>7, ObservedType DEF Observe
<1>8. ASSUME NEW i \in Instances, Frame(i) PROVE TrackTypes'
  <2>1. [track[i] EXCEPT !.snapshot = "unknown"] \in Track
    BY DEF Track
  <2> QED BY <1>2, <1>8, <2>1 DEF Frame
<1>9. ASSUME NEW i \in Instances, TimePasses(i) PROVE TrackTypes'
  <2>1. [track[i] EXCEPT !.ok = "old"] \in Track /\ [track[i] EXCEPT !.grace = FALSE] \in Track
    BY DEF Track
  <2> QED BY <1>2, <1>9, <2>1 DEF TimePasses
<1>10. ASSUME NEW i \in Instances, Evaluate(i) PROVE TrackTypes'
  <2> DEFINE t == track[i]
             s == StatusOf(deviceVerdict(t))
  <2>1. s \in {"unknown", "online", "degraded", "offline"}
    BY StatusType, VerdictType
  <2>2. [t EXCEPT !.snapshot = s] \in Track
    BY <2>1 DEF Track
  <2>3. [[t EXCEPT !.snapshot = s] EXCEPT !.quiet = FALSE] \in Track
    BY <2>2 DEF Track
  <2>4. track' = track \/ track' = [track EXCEPT ![i].snapshot = s, ![i].quiet = FALSE]
    BY <1>10 DEF Evaluate
  <2> HIDE DEF s
  <2> QED BY <1>2, <2>3, <2>4
<1>11. ASSUME NEW i \in Instances, Send(i) PROVE TrackTypes'
  <2>1. tick[i].offer \in Row
    BY DEF HealthTypes, TickTypes, Turn
  <2>2. [track[i] EXCEPT !.published = tick[i].offer.reason] \in Track
    BY <2>1 DEF Track, Row
  <2> QED BY <1>2, <1>11, <2>2 DEF Send
<1>12. ASSUME NEW i \in Instances,
              Announce(i) \/ Read(i) \/ Enter(i) \/ Upserted(i) \/ Commit(i) \/ BeginRebalance(i)
                \/ Leave(i) \/ WriteFails(i) \/ CommitUnknown(i) \/ SendFails(i)
       PROVE  TrackTypes'
  BY <1>12 DEF Announce, Read, Enter, Upserted, Commit, BeginRebalance, Leave, WriteFails, CommitUnknown, SendFails
<1> QED BY <1>3, <1>4, <1>5, <1>6, <1>7, <1>8, <1>9, <1>10, <1>11, <1>12, NextCases DEF Keeping, Tick

LEMMA EvaluateEvents ==
  ASSUME HealthTypes, NEW i \in Instances, Evaluate(i)
  PROVE  \E new \in Seq(Event) : pending' = [pending EXCEPT ![i] = pending[i] \o new]
<1> DEFINE t == track[i]
           r == deviceVerdict(t)
           silent == i \notin owned \/ (t.quiet /\ r = "startup_grace")
           from == IF t.quiet /\ t.snapshot # "none" THEN StatusOf(r) ELSE t.snapshot
           events == IF silent THEN <<>> ELSE detectDeviceEvents(from, StatusOf(r))
<1>1. t \in Track /\ r \in Reasons
  BY VerdictType DEF HealthTypes, TrackTypes
<1>2. StatusOf(r) \in {"unknown", "online", "degraded", "offline"}
  BY <1>1, StatusType
<1>3. from \in {"none", "unknown", "online", "degraded", "offline"}
  BY <1>1, <1>2 DEF Track
<1>4. <<>> \in Seq(Event)
  OBVIOUS
<1>5. detectDeviceEvents(from, StatusOf(r)) \in Seq(Event)
  <2> HIDE DEF from, r
  <2> QED BY <1>3, DetectType
<1>6. events \in Seq(Event)
  BY <1>4, <1>5
<1>7. pending' = [pending EXCEPT ![i] = pending[i] \o events]
  BY DEF Evaluate
<1> HIDE DEF events
<1> QED BY <1>6, <1>7

LEMMA EventStep == ASSUME HealthTypes, Next PROVE EventTypes'
<1>1. EventTypes
  BY DEF HealthTypes
<1> USE <1>1 DEF EventTypes
<1>2. ASSUME NEW i \in Instances, Evaluate(i) PROVE EventTypes'
  <2>1. PICK new \in Seq(Event) : pending' = [pending EXCEPT ![i] = pending[i] \o new]
    BY <1>2, EvaluateEvents
  <2>2. pending[i] \o new \in Seq(Event)
    BY ConcatProperties
  <2>3. lastEvent' = lastEvent
    BY <1>2 DEF Evaluate, stored
  <2> QED BY <2>1, <2>2, <2>3
<1>3. ASSUME NEW i \in Instances, Stored(i) PROVE lastEvent' \in {"none", "went_offline", "came_online"}
  <2>1. CASE NewEvents(i) = {}
    BY <1>3, <2>1 DEF Stored
  <2>2. CASE NewEvents(i) # {}
    <3>1. pending[i] # <<>>
      BY <2>2 DEF NewEvents
    <3>2. pending[i][Len(pending[i])] \in Event
      BY <3>1, LenProperties, ElementOfSeq
    <3> QED BY <1>3, <2>2, <3>2 DEF Stored, Event
  <2> QED BY <2>1, <2>2
<1>4. ASSUME NEW i \in Instances, Commit(i) \/ CommitUnknown(i) PROVE EventTypes'
  <2>1. Marked(pending[i]) \in Seq(Event)
    <3>1. \A k \in 1..Len(pending[i]) : [pending[i][k] EXCEPT !.stored = TRUE] \in Event
      <4> TAKE k \in 1..Len(pending[i])
      <4>1. pending[i][k] \in Event
        BY ElementOfSeq
      <4> QED BY <4>1 DEF Event
    <3>2. DOMAIN pending[i] = 1..Len(pending[i]) /\ Len(pending[i]) \in Nat
      BY LenProperties
    <3> QED BY <3>1, <3>2 DEF Marked
  <2>2. pending' \in {pending, [pending EXCEPT ![i] = <<>>], [pending EXCEPT ![i] = Marked(pending[i])]}
    BY <1>4 DEF Commit, CommitUnknown
  <2>3. <<>> \in Seq(Event)
    OBVIOUS
  <2>4. pending' \in [Instances -> Seq(Event)]
    BY <2>1, <2>2, <2>3
  <2> QED BY <1>3, <1>4, <2>4 DEF Commit, CommitUnknown
<1>5. ASSUME NEW i \in Instances, Crash(i) PROVE EventTypes'
  BY <1>5 DEF Crash, stored
<1>6. ASSUME NEW i \in Instances, Apply(i) \/ Read(i) \/ Adopt(i) \/ AdoptBlind(i) PROVE EventTypes'
  BY <1>6 DEF Apply, Read, Adopt, AdoptBlind, Adopted, stored
<1>7. ASSUME NEW i \in Instances,
             Announce(i) \/ Enter(i) \/ Upserted(i) \/ Send(i) \/ BeginRebalance(i) \/ Observe(i)
               \/ Frame(i) \/ TimePasses(i) \/ Leave(i) \/ WriteFails(i) \/ SendFails(i)
      PROVE  EventTypes'
  BY <1>7 DEF Announce, Enter, Upserted, Send, BeginRebalance, Observe, Frame, TimePasses, Leave,
              WriteFails, SendFails, stored
<1>8. CASE Rebalance
  BY <1>8 DEF Rebalance, stored
<1> QED BY <1>2, <1>4, <1>5, <1>6, <1>7, <1>8, NextCases DEF Keeping, Tick

(* What a tick offers is a state or nothing, and so is what it has written.*)
OfferInv == TickTypes /\ Known(row) /\ \A i \in Instances : Known(tick[i].offer)

LEMMA TickStep ==
  ASSUME HealthTypes, Next
  PROVE  OfferInv'
<1>1. TickTypes /\ Known(row) /\ \A i \in Instances : Known(tick[i].offer)
  BY DEF HealthTypes, RowsKnown
<1> USE DEF TickTypes, OfferInv
<1>2. ASSUME NEW i \in Instances, NEW turn \in Turn, Known(turn.offer),
             tick' = [tick EXCEPT ![i] = turn], row' \in {row, tick[i].offer}
      PROVE  OfferInv'
  <2>1. tick[i].offer \in Row /\ Known(tick[i].offer)
    BY <1>1 DEF Turn
  <2>2. row' \in Row /\ Known(row')
    BY <1>1, <1>2, <2>1
  <2>3. tick' \in [Instances -> Turn] /\ \A j \in Instances : Known(tick'[j].offer)
    BY <1>1, <1>2
  <2> QED BY <2>2, <2>3 DEF Known
<1>3. IdleTick \in Turn /\ Known(IdleTick.offer)
  BY NoRowIsRow DEF IdleTick, Turn, Places
<1>5. CASE UNCHANGED <<tick, row>>
  BY <1>1, <1>5 DEF Known
<1>6. ASSUME NEW i \in Instances, Evaluate(i) PROVE OfferInv'
  <2>1. PICK o \in {Offer(track[i]), NoRow} :
          tick' = tick \/ tick' = [tick EXCEPT ![i].at = "locking", ![i].offer = o]
    BY <1>6 DEF Evaluate
  <2>2. o \in Row /\ Known(o)
    BY NoRowIsRow, OfferType DEF HealthTypes, TrackTypes
  <2>3. [[tick[i] EXCEPT !.at = "locking"] EXCEPT !.offer = o] \in Turn
    BY <1>1, <2>2 DEF Turn, Places
  <2>4. [[tick[i] EXCEPT !.at = "locking"] EXCEPT !.offer = o].offer = o
    BY <1>1 DEF Turn
  <2>5. row' = row
    BY <1>6 DEF Evaluate, stored
  <2>6. CASE tick' = tick
    BY <1>5, <2>5, <2>6
  <2>7. CASE tick' = [tick EXCEPT ![i].at = "locking", ![i].offer = o]
    <3>1. tick' = [tick EXCEPT ![i] = [[tick[i] EXCEPT !.at = "locking"] EXCEPT !.offer = o]]
      BY <2>7
    <3> QED BY <1>2, <2>2, <2>3, <2>4, <2>5, <3>1
  <2> QED BY <2>1, <2>6, <2>7
<1>7. ASSUME NEW i \in Instances, Enter(i) PROVE OfferInv'
  <2>1. row' = row
    BY <1>7 DEF Enter, stored
  <2>2. PICK turn \in {IdleTick, [at |-> "upserting", events |-> FALSE, offer |-> tick[i].offer],
                       [at |-> "upserting", events |-> FALSE, offer |-> NoRow]} :
          tick' = [tick EXCEPT ![i] = turn]
    BY <1>7 DEF Enter
  <2>3. tick[i].offer \in Row /\ Known(tick[i].offer)
    BY <1>1 DEF Turn
  <2>4. turn \in Turn /\ Known(turn.offer)
    <3>1. \A o \in Row : [at |-> "upserting", events |-> FALSE, offer |-> o] \in Turn
      BY DEF Turn, Places
    <3> QED BY <1>3, <2>2, <2>3, <3>1, NoRowIsRow
  <2> QED BY <1>2, <2>1, <2>2, <2>4
<1>8. ASSUME NEW i \in Instances, Upserted(i) PROVE OfferInv'
  <2> DEFINE mine == i \in owned
  <2>1. mine \in BOOLEAN
    OBVIOUS
  <2>2. tick' = [tick EXCEPT ![i].at = "inserting", ![i].events = mine] /\ row' = row
    BY <1>8 DEF Upserted, stored
  <2> HIDE DEF mine
  <2>3. [[tick[i] EXCEPT !.at = "inserting"] EXCEPT !.events = mine] \in Turn
    BY <1>1, <2>1 DEF Turn, Places
  <2>4. [[tick[i] EXCEPT !.at = "inserting"] EXCEPT !.events = mine].offer = tick[i].offer
    BY <1>1 DEF Turn
  <2> QED BY <1>1, <1>2, <2>2, <2>3, <2>4
<1>9. ASSUME NEW i \in Instances, Commit(i) PROVE OfferInv'
  <2>1. [tick[i] EXCEPT !.at = "sending"] \in Turn /\ [tick[i] EXCEPT !.at = "sending"].offer = tick[i].offer
    BY <1>1 DEF Turn, Places
  <2>2. row' \in {row, tick[i].offer} /\ tick' = [tick EXCEPT ![i] = [tick[i] EXCEPT !.at = "sending"]]
    BY <1>9 DEF Commit, Stored
  <2> QED BY <1>1, <1>2, <2>1, <2>2
<1>10. ASSUME NEW i \in Instances, Send(i) \/ WriteFails(i) \/ CommitUnknown(i) \/ SendFails(i) \/ Crash(i)
       PROVE OfferInv'
  <2>1. tick' = [tick EXCEPT ![i] = IdleTick]
    BY <1>10 DEF Send, WriteFails, CommitUnknown, SendFails, Crash
  <2>2. row' \in {row, tick[i].offer}
    BY <1>10 DEF Send, WriteFails, CommitUnknown, SendFails, Crash, Stored, stored
  <2> QED BY <1>2, <1>3, <2>1, <2>2
<1>11. ASSUME NEW i \in Instances,
              Apply(i) \/ Read(i) \/ Adopt(i) \/ AdoptBlind(i) \/ Announce(i) \/ BeginRebalance(i)
                \/ Observe(i) \/ Frame(i) \/ TimePasses(i) \/ Leave(i)
       PROVE  UNCHANGED <<tick, row>>
  BY <1>11 DEF Apply, Read, Adopt, AdoptBlind, Adopted, Announce, BeginRebalance, Observe, Frame,
               TimePasses, Leave, stored
<1>12. CASE Rebalance
  BY <1>5, <1>12 DEF Rebalance, stored
<1> QED BY <1>5, <1>6, <1>7, <1>8, <1>9, <1>10, <1>11, <1>12, NextCases DEF Keeping, Tick

LEMMA TypesStep ==
  ASSUME HealthTypes, \A j \in Instances : QueueInv(j), Next
  PROVE  HealthTypes'
<1>1. GroupTypes' /\ QueueTypes' /\ TrackTypes' /\ EventTypes'
  BY GroupStep, QueueStep, TrackStep, EventStep
<1>2. MovingTypes' /\ TickTypes' /\ Known(row)'
  BY MovingStep, TickStep DEF OfferInv
<1>3. \A i \in Instances : Known(reading'[i].row) /\ Known(tick'[i].offer)
  BY MovingStep, TickStep DEF OfferInv
<1> QED BY <1>1, <1>2, <1>3 DEF HealthTypes, RowsKnown

-------------------------------------------------------------------------------
(* The queue of handovers tells an instance the truth of the group.        *)

LEMMA QueueOf ==
  ASSUME HealthTypes, NEW j \in Instances
  PROVE  /\ queue[j] \in Seq(Assignment) /\ Len(queue[j]) \in Nat /\ DOMAIN queue[j] = 1..Len(queue[j])
         /\ queue[j] # <<>> <=> Len(queue[j]) > 0
         /\ \A k \in 1..Len(queue[j]) : queue[j][k].mine \in BOOLEAN /\ queue[j][k].same \in BOOLEAN
<1>1. queue[j] \in Seq(Assignment)
  BY DEF HealthTypes, QueueTypes
<1>2. \A k \in 1..Len(queue[j]) : queue[j][k] \in Assignment
  BY <1>1, ElementOfSeq
<1> QED BY <1>1, <1>2, LenProperties, EmptySeq DEF Assignment

LEMMA TailOf ==
  ASSUME HealthTypes, NEW j \in Instances, queue[j] # <<>>, queue'[j] = Tail(queue[j])
  PROVE  /\ Len(queue'[j]) = Len(queue[j]) - 1 /\ DOMAIN queue'[j] = 1..Len(queue'[j])
         /\ queue'[j] # <<>> <=> Len(queue'[j]) > 0
         /\ \A k \in 1..Len(queue'[j]) : queue'[j][k] = queue[j][k + 1]
<1>1. queue[j] \in Seq(Assignment)
  BY DEF HealthTypes, QueueTypes
<1>2. /\ Tail(queue[j]) \in Seq(Assignment) /\ Len(Tail(queue[j])) = Len(queue[j]) - 1
      /\ \A k \in 1..Len(Tail(queue[j])) : Tail(queue[j])[k] = queue[j][k + 1]
  BY <1>1, HeadTailProperties
<1>3. \A q \in Seq(Assignment) : DOMAIN q = 1..Len(q) /\ Len(q) \in Nat /\ (q # <<>> <=> Len(q) > 0)
  BY LenProperties, EmptySeq
<1> QED BY <1>2, <1>3

LEMMA AppendOf ==
  ASSUME HealthTypes, NEW j \in Instances, NEW entry \in Assignment, queue'[j] = Append(queue[j], entry)
  PROVE  /\ Len(queue'[j]) = Len(queue[j]) + 1 /\ DOMAIN queue'[j] = 1..Len(queue'[j])
         /\ queue'[j] # <<>> /\ Last(j)' = entry
         /\ \A k \in 1..Len(queue[j]) : queue'[j][k] = queue[j][k]
<1>1. queue[j] \in Seq(Assignment)
  BY DEF HealthTypes, QueueTypes
<1>2. Append(queue[j], entry) \in Seq(Assignment)
  BY <1>1
<1>3. /\ Len(queue'[j]) = Len(queue[j]) + 1
      /\ queue'[j][Len(queue[j]) + 1] = entry
      /\ \A k \in 1..Len(queue[j]) : queue'[j][k] = queue[j][k]
  BY <1>1, AppendProperties
<1> QED BY <1>1, <1>2, <1>3, LenProperties, EmptySeq DEF Last

(* What one instance does with its queue is of no concern to another.      *)
LEMMA OthersQueue ==
  ASSUME NEW j \in Instances, QueueInv(j), queue'[j] = queue[j], reading'[j] = reading[j],
         j \in owned' <=> j \in owned, owner' = owner, j \in members' <=> j \in members
  PROVE  QueueInv(j)'
BY DEF QueueInv, Last

LEMMA RebalanceQueue ==
  ASSUME HealthTypes, Rebalance, NEW j \in Instances, QueueInv(j)
  PROVE  QueueInv(j)'
<1>1. PICK joined \in SUBSET Instances :
        /\ members \subseteq joined /\ members' = joined /\ owner' \in joined
        /\ queue' = [i \in Instances |->
                       IF i \in joined
                       THEN Append(queue[i], [mine |-> owner' = i, same |-> i \in members])
                       ELSE queue[i]]
  BY DEF Rebalance
<1>2. UNCHANGED <<reading, owned>>
  BY DEF Rebalance
<1>3. CASE j \notin joined
  BY <1>1, <1>2, <1>3, QueueOf DEF QueueInv, Last
<1>4. CASE j \in joined
  <2> DEFINE mine == owner' = j
             same == j \in members
             entry == [mine |-> mine, same |-> same]
  <2>1. mine \in BOOLEAN /\ same \in BOOLEAN
    OBVIOUS
  <2>2. queue'[j] = Append(queue[j], entry)
    BY <1>1, <1>4
  <2>3. entry \in Assignment /\ entry.mine = mine /\ entry.same = same
    BY <2>1 DEF Assignment
  <2> HIDE DEF entry
  <2>4. /\ Len(queue'[j]) = Len(queue[j]) + 1 /\ queue'[j] # <<>> /\ Last(j)' = entry
        /\ \A k \in 1..Len(queue[j]) : queue'[j][k] = queue[j][k]
        /\ queue'[j][Len(queue[j]) + 1] = entry
    BY <2>2, <2>3, AppendOf DEF Last
  <2>5. j \in members' /\ (Last(j)'.mine <=> j = owner')
    BY <1>1, <1>4, <2>3, <2>4
  <2>6. \A k \in 2..Len(queue'[j]) : queue'[j][k].mine /\ ~queue'[j][k].same => ~queue'[j][k - 1].mine
    <3> SUFFICES ASSUME NEW k \in 2..Len(queue'[j]), queue'[j][k].mine, ~queue'[j][k].same
                 PROVE  ~queue'[j][k - 1].mine
      OBVIOUS
    <3>1. CASE k <= Len(queue[j])
      <4>1. Len(queue[j]) \in Nat /\ k \in 2..Len(queue[j]) /\ k \in 1..Len(queue[j]) /\ k - 1 \in 1..Len(queue[j])
        BY <3>1, QueueOf
      <4>2. queue'[j][k] = queue[j][k] /\ queue'[j][k - 1] = queue[j][k - 1]
        BY <2>4, <4>1
      <4>3. queue[j][k].mine /\ ~queue[j][k].same => ~queue[j][k - 1].mine
        BY <4>1 DEF QueueInv
      <4> QED BY <4>2, <4>3
    <3>2. CASE k = Len(queue[j]) + 1
      <4>1. j \notin members
        BY <2>3, <2>4, <3>2
      <4>2. Len(queue[j]) \in Nat /\ Len(queue[j]) > 0 /\ queue[j] # <<>>
        BY <2>4, <3>2, QueueOf
      <4>3. ~Last(j).mine
        BY <4>1, <4>2 DEF QueueInv
      <4>4. k - 1 = Len(queue[j]) /\ k - 1 \in 1..Len(queue[j])
        BY <3>2, <4>2
      <4>5. queue'[j][k - 1] = queue[j][k - 1] /\ queue[j][k - 1] = Last(j)
        BY <2>4, <4>4 DEF Last
      <4> QED BY <4>3, <4>5
    <3> QED BY <2>4, <3>1, <3>2, QueueOf
  <2>7. queue[j] # <<>> => queue'[j][1] = queue[j][1]
    BY <2>4, QueueOf
  <2>8. reading'[j].at # "no" => queue'[j] # <<>> /\ queue'[j][1].mine
    BY <1>2, <2>4, <2>7 DEF QueueInv
  <2>9. j \in owned' /\ queue'[j][1].mine => queue'[j][1].same
    <3>1. CASE queue[j] # <<>>
      BY <1>2, <2>7, <3>1 DEF QueueInv
    <3>2. CASE queue[j] = <<>>
      <4>1. Len(queue[j]) = 0
        BY <3>2
      <4>2. queue'[j][1] = entry
        BY <2>4, <4>1
      <4>3. j \in owned' => same
        BY <1>2, <3>2 DEF QueueInv
      <4> QED BY <2>3, <4>2, <4>3
    <3> QED BY <3>1, <3>2
  <2> QED BY <2>4, <2>5, <2>6, <2>8, <2>9 DEF QueueInv
<1> QED BY <1>3, <1>4

(* An assignment is applied: the device is then owned only if it was given *)
(* with it.                                                                *)
LEMMA AppliedQueue ==
  ASSUME HealthTypes, NEW j \in Instances, QueueInv(j), queue[j] # <<>>, queue'[j] = Tail(queue[j]),
         reading'[j].at = "no", UNCHANGED <<owner, members>>, j \in owned' => queue[j][1].mine
  PROVE  QueueInv(j)'
<1> DEFINE n == Len(queue[j])
<1>1. n \in Nat \ {0}
  BY QueueOf
<1>2. /\ Len(queue'[j]) = n - 1
      /\ queue'[j] # <<>> <=> n > 1
      /\ \A k \in 1..(n - 1) : queue'[j][k] = queue[j][k + 1]
  BY <1>1, TailOf
<1>3. n > 1 => Last(j)' = Last(j)
  BY <1>1, <1>2 DEF Last
<1>4. \A k \in 2..(n - 1) : queue'[j][k].mine /\ ~queue'[j][k].same => ~queue'[j][k - 1].mine
  <2> TAKE k \in 2..(n - 1)
  <2>1. k \in 1..(n - 1) /\ k - 1 \in 1..(n - 1) /\ k + 1 \in 2..n /\ (k - 1) + 1 = k /\ (k + 1) - 1 = k
    BY <1>1
  <2>2. queue'[j][k] = queue[j][k + 1] /\ queue'[j][k - 1] = queue[j][k]
    BY <1>2, <2>1
  <2>3. queue[j][k + 1].mine /\ ~queue[j][k + 1].same => ~queue[j][k].mine
    BY <2>1 DEF QueueInv
  <2> QED BY <2>2, <2>3
<1>5. j \in owned' /\ queue'[j] = <<>> => j = owner /\ j \in members
  <2> SUFFICES ASSUME j \in owned', queue'[j] = <<>> PROVE j = owner /\ j \in members
    OBVIOUS
  <2>1. n = 1
    <3>1. ~(n > 1)
      BY <1>2
    <3> HIDE DEF n
    <3> QED BY <1>1, <3>1
  <2>2. Last(j) = queue[j][1]
    BY <2>1 DEF Last
  <2>3. Last(j).mine
    BY <2>2
  <2> QED BY <2>3 DEF QueueInv
<1>6. j \in owned' /\ queue'[j] # <<>> /\ queue'[j][1].mine => queue'[j][1].same
  <2>1. n > 1 => 2 \in 2..n /\ queue'[j][1] = queue[j][2]
    BY <1>1, <1>2
  <2>2. n > 1 => (queue[j][2].mine /\ ~queue[j][2].same => ~queue[j][2 - 1].mine)
    BY <2>1 DEF QueueInv
  <2>3. 2 - 1 = 1
    OBVIOUS
  <2> QED BY <1>2, <2>1, <2>2, <2>3
<1>7. queue'[j] # <<>> => queue[j] # <<>> /\ Last(j)' = Last(j)
  BY <1>2, <1>3
<1> QED BY <1>2, <1>4, <1>5, <1>6, <1>7 DEF QueueInv

LEMMA ApplyQueue ==
  ASSUME HealthTypes, NEW j \in Instances, QueueInv(j), Apply(j)
  PROVE  QueueInv(j)'
<1> DEFINE h == Head(queue[j])
           kept == j \in owned /\ h.same
<1>1. queue[j] # <<>> /\ h = queue[j][1] /\ reading[j].at = "no" /\ UNCHANGED <<owner, members>>
  BY DEF Apply, NotReading, group
<1>2. CASE h.mine /\ ~kept
  <2>1. queue' = queue /\ reading'[j].at = "reading" /\ j \notin owned'
    BY <1>2 DEF Apply, Released, HealthTypes, MovingTypes, Restoring
  <2> QED BY <1>1, <1>2, <2>1 DEF QueueInv, Last
<1>3. CASE ~(h.mine /\ ~kept)
  <2>1. queue'[j] = Tail(queue[j]) /\ reading' = reading
    BY <1>3 DEF Apply, HealthTypes, QueueTypes
  <2>2. j \in owned' => h.mine
    BY <1>3 DEF Apply, Released
  <2> QED BY <1>1, <2>1, <2>2, AppliedQueue
<1> QED BY <1>2, <1>3

LEMMA LeaveQueue ==
  ASSUME HealthTypes, NEW j \in Instances, QueueInv(j), Leave(j)
  PROVE  QueueInv(j)'
<1> DEFINE entry == [mine |-> FALSE, same |-> FALSE]
           n == Len(queue[j])
<1>1. queue'[j] = Append(queue[j], entry)
  BY DEF Leave, HealthTypes, QueueTypes
<1>2. entry \in Assignment /\ ~entry.mine
  BY DEF Assignment
<1> HIDE DEF entry
<1>3. /\ n \in Nat /\ Len(queue'[j]) = n + 1 /\ queue'[j] # <<>> /\ Last(j)' = entry
      /\ \A k \in 1..n : queue'[j][k] = queue[j][k]
      /\ queue'[j][n + 1] = entry
  BY <1>1, <1>2, AppendOf, QueueOf DEF Last
<1>4. UNCHANGED <<owner, reading, owned>> /\ j \notin members'
  BY DEF Leave
<1>5. \A k \in 2..(n + 1) : queue'[j][k].mine /\ ~queue'[j][k].same => ~queue'[j][k - 1].mine
  <2> TAKE k \in 2..(n + 1)
  <2>1. CASE k = n + 1
    BY <1>2, <1>3, <2>1
  <2>2. CASE k # n + 1
    <3>1. k \in 1..n /\ k - 1 \in 1..n /\ k \in 2..n
      BY <1>3, <2>2
    <3> QED BY <1>3, <3>1 DEF QueueInv
  <2> QED BY <2>1, <2>2
<1>6. queue[j] # <<>> => queue'[j][1] = queue[j][1]
  BY <1>3, QueueOf
<1>7. queue[j] = <<>> => queue'[j][1] = entry
  BY <1>3
<1> QED BY <1>2, <1>3, <1>4, <1>5, <1>6, <1>7 DEF QueueInv

LEMMA QueueInvStep ==
  ASSUME HealthTypes, \A j \in Instances : QueueInv(j), Next
  PROVE  \A j \in Instances : QueueInv(j)'
<1>1. CASE Rebalance
  BY <1>1, RebalanceQueue
<1>2. ASSUME NEW i \in Instances, Apply(i) PROVE \A j \in Instances : QueueInv(j)'
  <2>1. ASSUME NEW j \in Instances, i # j PROVE QueueInv(j)'
    <3>1. queue'[j] = queue[j] /\ reading'[j] = reading[j] /\ (j \in owned' <=> j \in owned)
      BY <1>2, <2>1 DEF Apply, Released, HealthTypes, QueueTypes, MovingTypes
    <3>2. UNCHANGED <<owner, members>>
      BY <1>2 DEF Apply, group
    <3> QED BY <3>1, <3>2, OthersQueue
  <2> QED BY <1>2, <2>1, ApplyQueue
<1>3. ASSUME NEW i \in Instances, Read(i) PROVE \A j \in Instances : QueueInv(j)'
  <2> TAKE j \in Instances
  <2>1. UNCHANGED <<queue, owned, owner, members>>
    BY <1>3 DEF Read, group
  <2>2. reading'[j].at # "no" => reading[j].at # "no"
    BY <1>3 DEF Read, HealthTypes, MovingTypes
  <2> QED BY <2>1, <2>2 DEF QueueInv, Last
<1>4. ASSUME NEW i \in Instances, Adopt(i) \/ AdoptBlind(i) PROVE \A j \in Instances : QueueInv(j)'
  <2>1. reading[i].at # "no" /\ queue[i] # <<>> /\ queue[i][1].mine
    BY <1>4 DEF Adopt, AdoptBlind, QueueInv
  <2>2. /\ queue' = [queue EXCEPT ![i] = Tail(@)] /\ reading' = [reading EXCEPT ![i] = NotReading]
        /\ owned' = owned \cup {i} /\ UNCHANGED <<owner, members>>
    BY <1>4 DEF Adopt, AdoptBlind, Adopted, group
  <2>3. ASSUME NEW j \in Instances, i # j PROVE QueueInv(j)'
    <3>1. queue'[j] = queue[j] /\ reading'[j] = reading[j] /\ (j \in owned' <=> j \in owned)
      BY <2>2, <2>3 DEF HealthTypes, QueueTypes, MovingTypes
    <3> QED BY <2>2, <3>1, OthersQueue
  <2>4. queue'[i] = Tail(queue[i]) /\ reading'[i].at = "no"
    BY <2>2 DEF HealthTypes, QueueTypes, MovingTypes, NotReading
  <2> QED BY <2>1, <2>2, <2>3, <2>4, AppliedQueue
<1>5. ASSUME NEW i \in Instances, Crash(i) PROVE \A j \in Instances : QueueInv(j)'
  <2>1. ASSUME NEW j \in Instances, i # j PROVE QueueInv(j)'
    <3>1. queue'[j] = queue[j] /\ reading'[j] = reading[j] /\ (j \in owned' <=> j \in owned)
      BY <1>5, <2>1 DEF Crash, HealthTypes, QueueTypes, MovingTypes
    <3>2. owner' = owner /\ (j \in members' <=> j \in members)
      BY <1>5, <2>1 DEF Crash
    <3> QED BY <3>1, <3>2, OthersQueue
  <2>2. queue'[i] = <<>> /\ reading'[i].at = "no" /\ i \notin owned'
    BY <1>5 DEF Crash, HealthTypes, QueueTypes, MovingTypes, NotReading
  <2>3. QueueInv(i)'
    BY <2>2 DEF QueueInv
  <2> QED BY <2>1, <2>3
<1>6. ASSUME NEW i \in Instances, Leave(i) PROVE \A j \in Instances : QueueInv(j)'
  <2>1. ASSUME NEW j \in Instances, i # j PROVE QueueInv(j)'
    <3>1. queue'[j] = queue[j]
      BY <1>6, <2>1 DEF Leave, HealthTypes, QueueTypes
    <3>2. UNCHANGED <<owner, reading, owned>> /\ (j \in members' <=> j \in members)
      BY <1>6, <2>1 DEF Leave
    <3> QED BY <3>1, <3>2, OthersQueue
  <2>2. QueueInv(i)'
    BY <1>6, LeaveQueue
  <2> QED BY <2>1, <2>2
<1>7. ASSUME NEW i \in Instances, Keeping(i), ~Leave(i) PROVE \A j \in Instances : QueueInv(j)'
  <2>1. UNCHANGED <<queue, reading, owned, owner, members>>
    BY <1>7 DEF Keeping, Announce, Tick, Evaluate, Enter, Upserted, Commit, Send, BeginRebalance, Observe,
                Frame, TimePasses, WriteFails, CommitUnknown, SendFails, moving, group
  <2> QED BY <2>1 DEF QueueInv, Last
<1> QED BY <1>1, <1>2, <1>3, <1>4, <1>5, <1>6, <1>7, NextCases

-------------------------------------------------------------------------------
(* Who has read the row, or kept the device, is the only one to write it.  *)

LEMMA RebalanceSafe ==
  ASSUME HealthTypes, NEW j \in Instances, QueueInv(j), Rebalance, Safe(j)'
  PROVE  (Has(j)' => Has(j)) /\ (HasRead(j)' => HasRead(j))
<1> DEFINE n == Len(queue[j])
           same == j \in members
           entry == [mine |-> TRUE, same |-> same]
<1>1. queue'[j] = Append(queue[j], entry) /\ j \in members' /\ owner' = j
  BY DEF Rebalance, Safe, Has, HasRead
<1>2. UNCHANGED <<reading, owned>>
  BY DEF Rebalance
<1>3. entry \in Assignment /\ entry.same = same
  <2>1. same \in BOOLEAN
    OBVIOUS
  <2> QED BY <2>1 DEF Assignment
<1> HIDE DEF entry
<1>4. /\ n \in Nat /\ Len(queue'[j]) = n + 1 /\ DOMAIN queue'[j] = 1..(n + 1)
      /\ DOMAIN queue[j] = 1..n /\ (queue[j] # <<>> <=> n > 0)
      /\ \A k \in 1..n : queue'[j][k] = queue[j][k]
  BY <1>1, <1>3, AppendOf, QueueOf
<1>5. ASSUME NEW m \in {0, 1}, Continues(j, m)', m <= n
      PROVE  Continues(j, m) /\ \A k \in 1..n : k > m => queue[j][k].mine /\ queue[j][k].same
  <2>1. ASSUME NEW k \in 1..n, k > m PROVE queue[j][k].mine /\ queue[j][k].same
    <3>1. k \in DOMAIN queue'[j] /\ k # Len(queue'[j]) /\ queue'[j][k] = queue[j][k]
      BY <1>4, <2>1
    <3> QED BY <1>5, <2>1, <3>1 DEF Continues
  <2> QED BY <1>4, <2>1 DEF Continues
<1>6. n > 0 /\ (\A k \in 1..n : k > 1 => queue[j][k].mine) /\ queue[j][1].mine => j = owner
  <2>1. n > 0 => n \in 1..n /\ (n > 1 \/ n = 1)
    <3>1. n \in Nat
      BY <1>4
    <3> HIDE DEF n
    <3> QED BY ONLY <3>1
  <2> QED BY <1>4, <2>1 DEF QueueInv, Last
<1>7. ASSUME Has(j)' PROVE Has(j)
  <2> USE <1>7 DEF Has
  <2>1. Continues(j, 0) /\ \A k \in 1..n : k > 0 => queue[j][k].mine /\ queue[j][k].same
    BY <1>4, <1>5, <1>7
  <2>2. n > 0 => 1 \in 1..n
    BY <1>4
  <2>3. j = owner
    BY <1>2, <1>4, <1>6, <1>7, <2>1, <2>2 DEF QueueInv
  <2> QED BY <1>2, <1>7, <2>1, <2>3
<1>8. ASSUME HasRead(j)' PROVE HasRead(j)
  <2> USE <1>8 DEF HasRead
  <2>1. n > 0 /\ queue[j][1].mine
    BY <1>2, <1>4, <1>8 DEF QueueInv
  <2>2. Continues(j, 1) /\ \A k \in 1..n : k > 1 => queue[j][k].mine /\ queue[j][k].same
    BY <1>4, <1>5, <1>8, <2>1
  <2> QED BY <1>2, <1>6, <1>8, <2>1, <2>2
<1> QED BY <1>7, <1>8

(* What is applied was the first of what continues.                        *)
LEMMA AppliedContinues ==
  ASSUME HealthTypes, NEW j \in Instances, queue[j] # <<>>, queue'[j] = Tail(queue[j]),
         members' = members, Continues(j, 0)'
  PROVE  Continues(j, 1)
<1> SUFFICES ASSUME NEW k \in DOMAIN queue[j], k > 1
             PROVE  (queue[j][k].mine /\ queue[j][k].same) \/ (k = Len(queue[j]) /\ j \notin members)
  BY DEF Continues
<1>1. k \in 1..Len(queue[j]) /\ Len(queue[j]) \in Nat
  BY QueueOf
<1>2. k - 1 \in 1..Len(queue'[j]) /\ Len(queue'[j]) = Len(queue[j]) - 1 /\ DOMAIN queue'[j] = 1..Len(queue'[j])
      /\ queue'[j][k - 1] = queue[j][(k - 1) + 1] /\ (k - 1) + 1 = k
  BY <1>1, TailOf
<1>3. (queue'[j][k - 1].mine /\ queue'[j][k - 1].same) \/ (k - 1 = Len(queue'[j]) /\ j \notin members)
  BY <1>2 DEF Continues
<1> QED BY <1>1, <1>2, <1>3

LEMMA LeaveSafe ==
  ASSUME HealthTypes, NEW j \in Instances, QueueInv(j), Leave(j)
  PROVE  (Has(j)' => Has(j)) /\ (HasRead(j)' => HasRead(j))
<1> DEFINE n == Len(queue[j])
           entry == [mine |-> FALSE, same |-> FALSE]
<1>1. queue'[j] = Append(queue[j], entry) /\ UNCHANGED <<owner, reading, owned>>
  BY DEF Leave, HealthTypes, QueueTypes
<1>2. entry \in Assignment
  BY DEF Assignment
<1> HIDE DEF entry
<1>3. /\ n \in Nat /\ Len(queue'[j]) = n + 1 /\ DOMAIN queue'[j] = 1..(n + 1) /\ DOMAIN queue[j] = 1..n
      /\ \A k \in 1..n : queue'[j][k] = queue[j][k]
  BY <1>1, <1>2, AppendOf, QueueOf
<1>4. ASSUME NEW m \in {0, 1}, Continues(j, m)' PROVE Continues(j, m)
  <2>1. \A k \in 1..n : k > m => queue[j][k].mine /\ queue[j][k].same
    <3> SUFFICES ASSUME NEW k \in 1..n, k > m PROVE queue[j][k].mine /\ queue[j][k].same
      OBVIOUS
    <3>1. k \in DOMAIN queue'[j] /\ k # Len(queue'[j]) /\ queue'[j][k] = queue[j][k]
      BY <1>3
    <3> QED BY <1>4, <3>1 DEF Continues
  <2> QED BY <1>3, <2>1 DEF Continues
<1> QED BY <1>1, <1>4 DEF Has, HasRead

(* Who adopts the device with nothing left to apply has read its row.       *)
LEMMA AdoptReads ==
  ASSUME HealthTypes, NEW j \in Instances, QueueInv(j), Adopt(j), Has(j)'
  PROVE  HasRead(j)
<1>1. /\ queue' = [queue EXCEPT ![j] = Tail(@)] /\ UNCHANGED <<owner, members>>
      /\ reading[j].at = "read"
  BY DEF Adopt, Adopted, group
<1>2. queue'[j] = Tail(queue[j]) /\ queue[j] # <<>>
  BY <1>1 DEF QueueInv, HealthTypes, QueueTypes
<1>3. Continues(j, 1)
  BY <1>1, <1>2, AppliedContinues DEF Has
<1> QED BY <1>1, <1>3 DEF Has, HasRead

(* Only by reading the row an instance comes to have read it, only then or  *)
(* blindly to have the device.                                             *)
LEMMA SafeBefore ==
  ASSUME HealthTypes, \A j \in Instances : QueueInv(j), Next, NEW j \in Instances
  PROVE  /\ HasRead(j)' => HasRead(j) \/ Read(j)
         /\ Has(j)' => Has(j) \/ (Adopt(j) /\ HasRead(j)) \/ AdoptBlind(j)
<1> DEFINE Goal == /\ HasRead(j)' => HasRead(j) \/ Read(j)
                   /\ Has(j)' => Has(j) \/ (Adopt(j) /\ HasRead(j)) \/ AdoptBlind(j)
<1>1. CASE queue'[j] = queue[j] /\ reading'[j] = reading[j] /\ (j \in owned' <=> j \in owned)
           /\ owner' = owner /\ (j \in members' <=> j \in members)
  BY <1>1 DEF Has, HasRead, Continues
<1>2. CASE Rebalance
  BY <1>2, RebalanceSafe DEF Safe
<1>3. ASSUME NEW i \in Instances, Apply(i) PROVE Goal
  <2>1. UNCHANGED <<owner, members>>
    BY <1>3 DEF Apply, group
  <2>2. CASE i # j
    <3>1. queue'[j] = queue[j] /\ reading'[j] = reading[j] /\ (j \in owned' <=> j \in owned)
      BY <1>3, <2>2 DEF Apply, Released, HealthTypes, QueueTypes, MovingTypes
    <3> QED BY <1>1, <2>1, <3>1
  <2>3. CASE i = j
    <3>1. reading'[j].at # "read"
      BY <1>3, <2>3 DEF Apply, NotReading, HealthTypes, MovingTypes, Restoring
    <3>2. SUFFICES ASSUME Has(j)' PROVE Has(j)
      BY <3>1 DEF HasRead
    <3>3. j \in owned /\ Head(queue[j]).mine /\ Head(queue[j]).same /\ queue[j] # <<>>
      BY <1>3, <2>3, <3>2 DEF Apply, Released, Has
    <3>4. queue'[j] = Tail(queue[j])
      BY <1>3, <2>3, <3>3 DEF Apply, HealthTypes, QueueTypes
    <3>5. Continues(j, 1)
      BY <2>1, <3>2, <3>3, <3>4, AppliedContinues DEF Has
    <3>6. Continues(j, 0)
      <4>1. \A k \in DOMAIN queue[j] : k > 1 \/ k = 1
        BY QueueOf
      <4> QED BY <3>3, <3>5, <4>1 DEF Continues
    <3> QED BY <2>1, <3>2, <3>3, <3>6 DEF Has
  <2> QED BY <2>2, <2>3
<1>4. ASSUME NEW i \in Instances, Read(i) PROVE Goal
  <2>1. CASE i # j
    BY <1>1, <1>4, <2>1 DEF Read, group
  <2>2. CASE i = j
    BY <1>4, <2>2 DEF Read, group, Has, Continues
  <2> QED BY <2>1, <2>2
<1>5. ASSUME NEW i \in Instances, Adopt(i) \/ AdoptBlind(i) PROVE Goal
  <2>1. /\ queue' = [queue EXCEPT ![i] = Tail(@)] /\ reading' = [reading EXCEPT ![i] = NotReading]
        /\ owned' = owned \cup {i} /\ UNCHANGED <<owner, members>> /\ reading[i].at # "no"
    BY <1>5 DEF Adopt, AdoptBlind, Adopted, group
  <2>2. CASE i # j
    <3>1. queue'[j] = queue[j] /\ reading'[j] = reading[j] /\ (j \in owned' <=> j \in owned)
      BY <2>1, <2>2 DEF HealthTypes, QueueTypes, MovingTypes
    <3> QED BY <1>1, <2>1, <3>1
  <2>3. CASE i = j
    <3>1. reading'[j].at # "read"
      BY <2>1, <2>3 DEF HealthTypes, MovingTypes, NotReading
    <3> QED BY <1>5, <2>3, <3>1, AdoptReads DEF HasRead
  <2> QED BY <2>2, <2>3
<1>6. ASSUME NEW i \in Instances, Crash(i) PROVE Goal
  <2>1. CASE i = j
    <3>1. i \notin owned' /\ reading'[i].at = "no"
      BY <1>6 DEF Crash, HealthTypes, MovingTypes, NotReading
    <3> QED BY <2>1, <3>1 DEF Has, HasRead
  <2>2. CASE i # j
    BY <1>1, <1>6, <2>2 DEF Crash, HealthTypes, QueueTypes, MovingTypes
  <2> QED BY <2>1, <2>2
<1>7. ASSUME NEW i \in Instances, Leave(i) PROVE Goal
  <2>1. CASE i = j
    BY <1>7, <2>1, LeaveSafe
  <2>2. CASE i # j
    BY <1>1, <1>7, <2>2 DEF Leave, HealthTypes, QueueTypes
  <2> QED BY <2>1, <2>2
<1>8. ASSUME NEW i \in Instances, Keeping(i), ~Leave(i) PROVE Goal
  <2>1. UNCHANGED <<queue, reading, owned, owner, members>>
    BY <1>8 DEF Keeping, Announce, Tick, Evaluate, Enter, Upserted, Commit, Send, BeginRebalance, Observe,
                Frame, TimePasses, WriteFails, CommitUnknown, SendFails, moving, group
  <2> QED BY <1>1, <2>1
<1> QED BY <1>2, <1>3, <1>4, <1>5, <1>6, <1>7, <1>8, NextCases

(* What another instance does is no concern of a tracker and its tick.     *)
Aside(i) ==
  /\ tick'[i] = tick[i] /\ track'[i] = track[i] /\ pending'[i] = pending[i]
  /\ i \in owned' <=> i \in owned
  /\ i \in leftover' <=> i \in leftover
TickOver(i) == WriteFails(i) \/ CommitUnknown(i) \/ Send(i) \/ SendFails(i)
Heard(i) == Observe(i) \/ Frame(i) \/ TimePasses(i)

LEMMA OwnStep ==
  ASSUME HealthTypes, Next, NEW i \in Instances
  PROVE  \/ Aside(i)
         \/ Apply(i) \/ Adopt(i) \/ AdoptBlind(i) \/ Crash(i) \/ Heard(i)
         \/ Evaluate(i) \/ Enter(i) \/ Upserted(i) \/ Commit(i) \/ TickOver(i)
<1> USE DEF HealthTypes, MovingTypes, TrackTypes, TickTypes, EventTypes
<1>1. CASE Rebalance
  BY <1>1 DEF Rebalance, Aside
<1>2. ASSUME NEW k \in Instances, Announce(k) \/ BeginRebalance(k) \/ Leave(k) \/ Read(k) PROVE Aside(i)
  BY <1>2 DEF Announce, BeginRebalance, Leave, Read, moving, Aside
<1>3. ASSUME NEW k \in Instances, k # i, Apply(k) \/ Adopt(k) \/ AdoptBlind(k) \/ Crash(k) PROVE Aside(i)
  <2>1. CASE Apply(k)
    BY <1>3, <2>1 DEF Apply, Released, Aside
  <2>2. CASE Crash(k)
    BY <1>3, <2>2 DEF Crash, Aside
  <2>3. CASE Adopt(k) \/ AdoptBlind(k)
    <3>1. PICK u : Adopted(k, u)
      BY <2>3 DEF Adopt, AdoptBlind
    <3> QED BY <1>3, <3>1 DEF Adopted, Aside
  <2> QED BY <1>3, <2>1, <2>2, <2>3
<1>4. ASSUME NEW k \in Instances, k # i, Heard(k) PROVE Aside(i)
  BY <1>4 DEF Heard, Observe, Frame, TimePasses, moving, Aside
<1>5. ASSUME NEW k \in Instances, k # i, Evaluate(k) PROVE Aside(i)
  BY <1>5 DEF Evaluate, moving, Aside
<1>6. ASSUME NEW k \in Instances, k # i, Enter(k) \/ Upserted(k) \/ Commit(k) PROVE Aside(i)
  BY <1>6 DEF Enter, Upserted, Commit, moving, Aside
<1>7. ASSUME NEW k \in Instances, k # i, TickOver(k) PROVE Aside(i)
  BY <1>7 DEF TickOver, WriteFails, CommitUnknown, Send, SendFails, moving, Aside
<1> QED BY <1>1, <1>2, <1>3, <1>4, <1>5, <1>6, <1>7, NextCases DEF Keeping, Tick, Heard, TickOver

Own(i) ==
  \/ Apply(i) \/ Adopt(i) \/ AdoptBlind(i) \/ Crash(i) \/ Heard(i)
  \/ Evaluate(i) \/ Enter(i) \/ Upserted(i) \/ Commit(i) \/ TickOver(i)

(* Only a transaction that commits changes the tables.                     *)
LEMMA StoredBy ==
  ASSUME Next
  PROVE  UNCHANGED stored \/ \E k \in Instances : (Commit(k) \/ CommitUnknown(k)) /\ Stored(k)
<1>1. ASSUME NEW k \in Instances,
             Apply(k) \/ Read(k) \/ Adopt(k) \/ AdoptBlind(k) \/ Crash(k) \/ Announce(k)
               \/ Evaluate(k) \/ Enter(k) \/ Upserted(k) \/ Send(k) \/ BeginRebalance(k)
               \/ Observe(k) \/ Frame(k) \/ TimePasses(k) \/ Leave(k) \/ WriteFails(k) \/ SendFails(k)
      PROVE  UNCHANGED stored
  BY <1>1 DEF Apply, Read, Adopt, AdoptBlind, Adopted, Crash, Announce, Evaluate, Enter, Upserted,
              Send, BeginRebalance, Observe, Frame, TimePasses, Leave, WriteFails, SendFails, stored
<1>2. Rebalance => UNCHANGED stored
  BY DEF Rebalance
<1>3. ASSUME NEW k \in Instances, Commit(k) \/ CommitUnknown(k) PROVE Stored(k)
  BY <1>3 DEF Commit, CommitUnknown
<1> QED BY <1>1, <1>2, <1>3, NextCases DEF Keeping, Tick

LEMMA BlindStays == ASSUME Next, ~blind' PROVE ~blind /\ \A i \in Instances : ~AdoptBlind(i)
<1>1. ASSUME NEW k \in Instances, Apply(k) \/ Read(k) \/ Adopt(k) \/ Crash(k) PROVE blind' = blind
  BY <1>1 DEF Apply, Read, Adopt, Crash
<1>2. ASSUME NEW k \in Instances, AdoptBlind(k) PROVE FALSE
  BY <1>2 DEF AdoptBlind
<1>3. Rebalance => blind' = blind
  BY DEF Rebalance
<1> QED BY <1>1, <1>2, <1>3, Kept, NextCases

(* Who has the device with nothing to apply has it.                        *)
LEMMA Holds ==
  ASSUME HealthTypes, NEW i \in Instances, QueueInv(i), i \in owned, queue[i] = <<>>
  PROVE  Has(i)
BY QueueOf DEF QueueInv, Has, Continues

-------------------------------------------------------------------------------
(* What each action does to the tracker and the tick of its instance.      *)

Speaks(i) == i \in owned /\ ~(track[i].quiet /\ deviceVerdict(track[i]) = "startup_grace")
Compared(i) ==
  IF track[i].quiet /\ track[i].snapshot # "none" THEN StatusOf(deviceVerdict(track[i]))
  ELSE track[i].snapshot

LEMMA EvaluateDoes ==
  ASSUME HealthTypes, NEW i \in Instances, Evaluate(i)
  PROVE  /\ tick[i].at = "idle" /\ ~Held(i)
         /\ UNCHANGED <<group, moving, stored>>
         /\ tick'[i] = tick[i]
            \/ (/\ tick'[i].at = "locking"
                /\ tick'[i].offer = NoRow \/ (tick'[i].offer = Offer(track[i]) /\ Speaks(i)))
         /\ ~Speaks(i) => track'[i] = track[i] /\ pending'[i] = pending[i]
         /\ Speaks(i) => /\ track'[i].ok = track[i].ok /\ track'[i].grace = track[i].grace
                         /\ track'[i].snapshot = StatusOf(deviceVerdict(track[i])) /\ ~track'[i].quiet
                         /\ pending'[i] = pending[i]
                              \o detectDeviceEvents(Compared(i), StatusOf(deviceVerdict(track[i])))
<1> USE DEF HealthTypes, TrackTypes, TickTypes, EventTypes
<1> DEFINE r == deviceVerdict(track[i])
           s == StatusOf(r)
<1>1. /\ tick[i].at = "idle" /\ ~Held(i) /\ UNCHANGED <<group, moving, stored>>
  BY DEF Evaluate
<1>2. PICK o \in {Offer(track[i]), NoRow} :
        /\ tick' = tick \/ tick' = [tick EXCEPT ![i].at = "locking", ![i].offer = o]
        /\ o = NoRow \/ Speaks(i)
  BY DEF Evaluate, Speaks
<1>3. tick'[i] = tick[i] \/ (tick'[i].at = "locking" /\ tick'[i].offer = o)
  BY <1>2 DEF Turn
<1>4. ~Speaks(i) => track' = track
  BY DEF Evaluate, Speaks
<1>5. ~Speaks(i) => pending'[i] = pending[i]
  <2>1. ~Speaks(i) => pending' = [pending EXCEPT ![i] = pending[i] \o <<>>]
    BY DEF Evaluate, Speaks
  <2>2. pending[i] \o <<>> = pending[i]
    BY ConcatEmptySeq
  <2> QED BY <2>1, <2>2
<1>6. Speaks(i) => track' = [track EXCEPT ![i].snapshot = s, ![i].quiet = FALSE]
  BY DEF Evaluate, Speaks
<1>7. Speaks(i) => pending' = [pending EXCEPT ![i] = pending[i] \o detectDeviceEvents(Compared(i), s)]
  BY DEF Evaluate, Speaks, Compared
<1>8. Speaks(i) => /\ track'[i].ok = track[i].ok /\ track'[i].grace = track[i].grace
                   /\ track'[i].snapshot = s /\ ~track'[i].quiet
  <2> HIDE DEF s
  <2> QED BY <1>6 DEF Track
<1>9. Speaks(i) => pending'[i] = pending[i] \o detectDeviceEvents(Compared(i), s)
  <2> HIDE DEF s
  <2> QED BY <1>7
<1> QED BY <1>1, <1>2, <1>3, <1>4, <1>5, <1>8, <1>9

LEMMA EnterDoes ==
  ASSUME HealthTypes, NEW i \in Instances, Enter(i)
  PROVE  /\ tick[i].at = "locking"
         /\ UNCHANGED <<group, moving, track, pending, stored>>
         /\ tick'[i] = IdleTick
            \/ (/\ ~Held(i) /\ tick'[i].at = "upserting" /\ ~tick'[i].events
                /\ tick'[i].offer = NoRow \/ (i \in owned /\ tick'[i].offer = tick[i].offer)
                /\ i \in owned => tick'[i].offer = tick[i].offer)
BY DEF HealthTypes, TickTypes, Enter

LEMMA UpsertedDoes ==
  ASSUME HealthTypes, NEW i \in Instances, Upserted(i)
  PROVE  /\ tick[i].at = "upserting"
         /\ UNCHANGED <<group, moving, track, pending, stored>>
         /\ tick'[i].at = "inserting" /\ tick'[i].offer = tick[i].offer
         /\ tick'[i].events <=> i \in owned
<1> DEFINE mine == i \in owned
<1>1. /\ tick[i].at = "upserting"
      /\ UNCHANGED <<group, moving, track, pending, stored>>
      /\ tick' = [tick EXCEPT ![i].at = "inserting", ![i].events = mine]
  BY DEF Upserted
<1> HIDE DEF mine
<1>2. tick'[i].at = "inserting" /\ tick'[i].offer = tick[i].offer /\ tick'[i].events = mine
  BY <1>1 DEF HealthTypes, TickTypes, Turn
<1> QED BY <1>1, <1>2 DEF mine

LEMMA CommitDoes ==
  ASSUME HealthTypes, NEW i \in Instances, Commit(i)
  PROVE  /\ tick[i].at = "inserting" /\ Stored(i)
         /\ UNCHANGED <<group, moving, track>>
         /\ pending'[i] = <<>> /\ tick'[i].at = "sending" /\ tick'[i].offer = tick[i].offer
BY DEF HealthTypes, TickTypes, EventTypes, Turn, Commit

LEMMA OverDoes ==
  ASSUME HealthTypes, NEW i \in Instances, TickOver(i)
  PROVE  /\ tick'[i] = IdleTick /\ UNCHANGED <<group, moving>>
         /\ track'[i].ok = track[i].ok /\ track'[i].grace = track[i].grace
         /\ track'[i].quiet = track[i].quiet /\ track'[i].snapshot = track[i].snapshot
         /\ ~CommitUnknown(i) => pending'[i] = pending[i] /\ UNCHANGED stored
<1> USE DEF HealthTypes, TickTypes, TrackTypes
<1>1. tick'[i] = IdleTick /\ UNCHANGED <<group, moving>>
  BY DEF TickOver, WriteFails, CommitUnknown, Send, SendFails
<1>2. track' = track \/ track' = [track EXCEPT ![i].published = tick[i].offer.reason]
  BY DEF TickOver, WriteFails, CommitUnknown, Send, SendFails
<1>3. ~CommitUnknown(i) => pending' = pending /\ UNCHANGED stored
  BY DEF TickOver, WriteFails, Send, SendFails
<1> QED BY <1>1, <1>2, <1>3 DEF Track

LEMMA HeardDoes ==
  ASSUME HealthTypes, NEW i \in Instances, Heard(i)
  PROVE  /\ UNCHANGED <<group, moving, pending, tick, stored>>
         /\ i \in owned /\ queue[i] = <<>>
         /\ track'[i].quiet = track[i].quiet
         /\ track'[i].ok = "never" => track[i].ok = "never"
         /\ track'[i].grace => track[i].grace
         /\ track'[i].snapshot = track[i].snapshot
            \/ (track[i].snapshot = "none" /\ track'[i].snapshot = "unknown")
<1> USE DEF HealthTypes, TrackTypes
<1>1. UNCHANGED <<group, moving, pending, tick, stored>> /\ i \in owned /\ queue[i] = <<>>
  BY DEF Heard, Observe, Frame, TimePasses, Held
<1>2. CASE Observe(i)
  <2>1. PICK u \in Observed(track[i]) : track' = [track EXCEPT ![i] = u]
    BY <1>2 DEF Observe
  <2>2. CASE u = [track[i] EXCEPT !.ok = "recent", !.errors = 0, !.grace = FALSE]
    BY <1>1, <2>1, <2>2 DEF Track
  <2>3. CASE u = [track[i] EXCEPT !.errors = track[i].errors + 1]
    BY <1>1, <2>1, <2>3 DEF Track
  <2> QED BY <2>1, <2>2, <2>3 DEF Observed
<1>3. CASE Frame(i)
  BY <1>1, <1>3 DEF Frame, Track
<1>4. CASE TimePasses(i)
  BY <1>1, <1>4 DEF TimePasses, Track
<1> QED BY <1>2, <1>3, <1>4 DEF Heard

(* A device that is released is forgotten; one that is kept, untouched.    *)
LEMMA ApplyDoes ==
  ASSUME HealthTypes, NEW i \in Instances, Apply(i)
  PROVE  /\ UNCHANGED <<group, blind, leftover, pending, tick, stored>>
         /\ i \in owned' => i \in owned
         /\ track'[i] = track[i] \/ (track'[i] = freshTrack /\ i \notin owned')
BY DEF HealthTypes, TrackTypes, Apply, Released

LEMMA CrashDoes ==
  ASSUME HealthTypes, NEW i \in Instances, Crash(i)
  PROVE  /\ UNCHANGED stored /\ i \notin owned' /\ i \notin leftover'
         /\ tick'[i] = IdleTick /\ pending'[i] = <<>> /\ track'[i] = freshTrack
BY DEF HealthTypes, TrackTypes, TickTypes, EventTypes, Crash

(* A device is adopted as its row has it, or afresh, or blindly.           *)
LEMMA AdoptDoes ==
  ASSUME HealthTypes, NEW i \in Instances, Adopt(i) \/ AdoptBlind(i)
  PROVE  /\ UNCHANGED <<group, pending, tick, stored>> /\ i \in owned'
         /\ i \notin leftover' => tick[i] = IdleTick /\ pending[i] = <<>>
         /\ \/ track'[i] = freshTrack /\ reading[i].row = NoRow /\ reading[i].at = "read"
            \/ /\ reading[i].at = "read" /\ reading[i].row # NoRow
               /\ ~track'[i].quiet /\ track'[i].snapshot = StatusOf(reading[i].row.reason)
               /\ track'[i].ok = "never" => ~reading[i].row.everOk
            \/ track'[i] = blindTrack /\ AdoptBlind(i)
<1> USE DEF HealthTypes, TrackTypes
<1>1. PICK u : Adopted(i, u) /\ (\/ u = freshTrack /\ reading[i].row = NoRow /\ reading[i].at = "read"
                                 \/ u \in restoredTracks(reading[i].row) /\ reading[i].row # NoRow
                                      /\ reading[i].at = "read"
                                 \/ u = blindTrack /\ AdoptBlind(i))
  BY DEF Adopt, AdoptBlind
<1>2. UNCHANGED <<group, pending, tick, stored>> /\ i \in owned' /\ track'[i] = u
  BY <1>1 DEF Adopted
<1>3. i \notin leftover' => tick[i] = IdleTick /\ pending[i] = <<>>
  BY <1>1 DEF Adopted
<1>4. ASSUME u \in restoredTracks(reading[i].row), reading[i].row # NoRow
      PROVE  ~u.quiet /\ u.snapshot = StatusOf(reading[i].row.reason)
             /\ (u.ok = "never" => ~reading[i].row.everOk)
  <2> DEFINE r == reading[i].row
           oks == CASE r.reason = "ok" -> {"recent"}
                    [] r.reason # "ok" /\ ~r.everOk -> {"never"}
                    [] r.reason = "stale" -> {"old"}
                    [] r.reason # "ok" /\ r.reason # "stale" /\ r.everOk -> {"recent", "old"}
  <2>1. r \in Row /\ r.reason \in Reasons
    BY <1>4 DEF MovingTypes, RowsKnown, Restoring, Row, Known
  <2>2. r.everOk => "never" \notin oks
    BY <2>1 DEF Row
  <2>3. PICK ok \in oks, g \in BOOLEAN :
          u = [ok |-> ok, errors |-> r.errors, grace |-> g /\ ok = "never", quiet |-> FALSE,
               snapshot |-> StatusOf(r.reason), published |-> r.reason]
    BY <1>4 DEF restoredTracks
  <2> HIDE DEF oks
  <2> QED BY <2>1, <2>2, <2>3 DEF Row
<1> QED BY <1>1, <1>2, <1>3, <1>4

-------------------------------------------------------------------------------
(* The handover keeps its order.                                           *)

LEMMA IdleWritesNothing == IdleTick.at = "idle" /\ IdleTick.offer = NoRow /\ ~NoRow.everOk
                           /\ NoRow.reason = "none"
BY DEF IdleTick, NoRow

(* A transaction begins only with the device at hand, and then it writes   *)
(* only for who has it.                                                    *)
LEMMA WriterBefore ==
  ASSUME HandoverInv, Next, NEW i \in Instances, Writing(i)'
  PROVE  /\ Writing(i) \/ ~Held(i)
         /\ Writer(i)' => Writer(i) \/ Has(i) \/ AdoptBlind(i)
         /\ WritesState(i)' => WritesState(i) \/ (Has(i) /\ ~Held(i))
<1> USE DEF Writer, WritesState, Writing, HandoverInv
<1>1. CASE Aside(i)
  BY <1>1 DEF Aside
<1>2. CASE Apply(i)
  BY <1>2, ApplyDoes
<1>3. CASE Adopt(i) \/ AdoptBlind(i)
  <2>1. tick'[i] = tick[i]
    BY <1>3, AdoptDoes
  <2>2. Adopt(i) => reading[i].at = "read"
    BY DEF Adopt
  <2> QED BY <1>3, <2>1, <2>2 DEF ReadingQuiet
<1>4. CASE Crash(i) \/ TickOver(i)
  BY <1>4, CrashDoes, OverDoes, IdleWritesNothing
<1>5. CASE Heard(i)
  BY <1>5, HeardDoes DEF moving
<1>6. CASE Evaluate(i)
  BY <1>6, EvaluateDoes
<1>7. CASE Enter(i)
  <2>1. /\ UNCHANGED <<group, moving, track, pending, stored>>
        /\ tick'[i] = IdleTick
           \/ (/\ ~Held(i) /\ tick'[i].at = "upserting" /\ ~tick'[i].events
               /\ tick'[i].offer = NoRow \/ (i \in owned /\ tick'[i].offer = tick[i].offer)
               /\ i \in owned => tick'[i].offer = tick[i].offer)
    BY <1>7, EnterDoes
  <2>2. ~Held(i) => queue[i] = <<>>
    BY DEF Held
  <2>3. i \in owned /\ queue[i] = <<>> => Has(i)
    BY Holds
  <2> QED BY <2>1, <2>2, <2>3, IdleWritesNothing DEF moving
<1>8. CASE Upserted(i)
  BY <1>8, UpsertedDoes DEF moving
<1>9. CASE Commit(i)
  BY <1>9, CommitDoes
<1> QED BY <1>1, <1>2, <1>3, <1>4, <1>5, <1>6, <1>7, <1>8, <1>9, OwnStep

LEMMA AloneStep == ASSUME HandoverInv, Next PROVE Alone'
<1> SUFFICES ASSUME ~blind', NEW i \in Instances, NEW j \in Instances, i # j, Writer(i)'
             PROVE  ~Safe(j)' /\ ~Writer(j)'
  BY DEF Alone
<1>1. HealthTypes /\ (\A k \in Instances : QueueInv(k)) /\ Alone
  BY DEF HandoverInv
<1>2. ~blind /\ \A k \in Instances : ~AdoptBlind(k)
  BY BlindStays
<1>3. Writing(i)' /\ (Writer(i) \/ Has(i))
  BY <1>2, WriterBefore DEF Writer
<1>4. Writer(j)' => Writer(j) \/ Has(j)
  BY <1>2, WriterBefore DEF Writer
<1>5. Safe(j)' => Safe(j) \/ Read(j)
  BY <1>1, <1>2, SafeBefore DEF Safe
<1>6. ~Read(j)
  <2>1. Read(j) => tick' = tick /\ ~Writing(i)
    BY DEF Read
  <2> QED BY <1>3, <2>1 DEF Writing
<1>7. Writer(i) => ~Safe(j) /\ ~Writer(j)
  BY <1>1, <1>2 DEF Alone
<1>8. Writer(j) => ~Safe(i)
  BY <1>1, <1>2 DEF Alone
<1>9. ~(Safe(i) /\ Safe(j)) /\ (Has(i) => Safe(i)) /\ (Has(j) => Safe(j))
  BY DEF Safe, Has, HasRead
<1> QED BY <1>3, <1>4, <1>5, <1>6, <1>7, <1>8, <1>9

LEMMA ReadingQuietStep == ASSUME HandoverInv, Next PROVE ReadingQuiet'
<1> SUFFICES ASSUME NEW i \in Instances, reading'[i].at = "read", Writing(i)' PROVE FALSE
  BY DEF ReadingQuiet
<1> USE DEF HandoverInv, HealthTypes, MovingTypes
<1>1. Writing(i) \/ ~Held(i)
  BY WriterBefore
<1>2. ASSUME NEW k \in Instances, Read(k), k = i PROVE FALSE
  <2>1. tick' = tick /\ ~Writing(i)
    BY <1>2 DEF Read
  <2> QED BY <2>1 DEF Writing
<1>3. reading[i].at = "read"
  <2>1. ASSUME NEW k \in Instances, Apply(k) PROVE reading[i].at = "read"
    <3>1. reading' \in {reading, [reading EXCEPT ![k] = [reading[k] EXCEPT !.at = "reading"]]}
      BY <2>1 DEF Apply
    <3> QED BY <3>1 DEF Restoring
  <2>2. ASSUME NEW k \in Instances, Read(k), k # i PROVE reading[i].at = "read"
    BY <2>2 DEF Read
  <2>3. ASSUME NEW k \in Instances, Adopt(k) \/ AdoptBlind(k) \/ Crash(k) PROVE reading[i].at = "read"
    <3>1. reading' = [reading EXCEPT ![k] = NotReading]
      BY <2>3 DEF Adopt, AdoptBlind, Crash, Adopted
    <3> QED BY <3>1 DEF NotReading
  <2>4. Rebalance => reading' = reading
    BY DEF Rebalance
  <2> QED BY <1>2, <2>1, <2>2, <2>3, <2>4, Kept, NextCases
<1>4. ~Writing(i) /\ Held(i)
  BY <1>3 DEF ReadingQuiet, QueueInv, Held
<1> QED BY <1>1, <1>4

LEMMA FreshFields ==
  /\ freshTrack.ok = "never" /\ freshTrack.snapshot = "none" /\ ~freshTrack.quiet
  /\ blindTrack.quiet
BY DEF freshTrack, blindTrack

LEMMA QuietStep == ASSUME HandoverInv, Next PROVE Quiet'
<1> SUFFICES ASSUME ~blind', NEW i \in Instances PROVE ~track'[i].quiet
  BY DEF Quiet
<1>1. HealthTypes /\ ~track[i].quiet /\ ~AdoptBlind(i)
  BY BlindStays DEF HandoverInv, Quiet
<1>2. CASE Aside(i)
  BY <1>1, <1>2 DEF Aside
<1>3. CASE Apply(i) \/ Crash(i)
  BY <1>1, <1>3, ApplyDoes, CrashDoes, FreshFields
<1>4. CASE Adopt(i)
  BY <1>1, <1>4, AdoptDoes, FreshFields
<1>5. CASE Heard(i)
  BY <1>1, <1>5, HeardDoes
<1>6. CASE Evaluate(i)
  BY <1>1, <1>6, EvaluateDoes
<1>7. CASE Enter(i) \/ Upserted(i) \/ Commit(i)
  <2>1. track' = track
    BY <1>1, <1>7, EnterDoes, UpsertedDoes, CommitDoes
  <2> QED BY <1>1, <2>1
<1>8. CASE TickOver(i)
  BY <1>1, <1>8, OverDoes
<1> QED BY <1>1, <1>2, <1>3, <1>4, <1>5, <1>6, <1>7, <1>8, OwnStep

(* The verdict of a start is that of a device which has not answered.      *)
LEMMA OfferIsHonest ==
  ASSUME NEW u \in Track
  PROVE  /\ Honest(Offer(u))
         /\ Offer(u).everOk <=> u.ok # "never"
         /\ Offer(u).reason = deviceVerdict(u)
         /\ deviceVerdict(u) = "startup_grace" <=> u.ok = "never" /\ u.grace
BY DEF Honest, Offer, deviceVerdict, Track

LEMMA HonestStep ==
  ASSUME HandoverInv, Next
  PROVE  Honest(row)' /\ \A i \in Instances : Honest(tick'[i].offer)
<1> USE DEF HandoverInv
<1>1. Honest(NoRow)
  BY DEF Honest, NoRow
<1>2. Honest(row')
  <2>1. ASSUME NEW k \in Instances, Stored(k) PROVE Honest(row')
    BY <2>1 DEF Stored
  <2> QED BY <2>1, StoredBy DEF stored
<1>3. ASSUME NEW i \in Instances PROVE Honest(tick'[i].offer)
  <2>1. CASE Aside(i)
    BY <2>1 DEF Aside
  <2>2. CASE Apply(i) \/ Adopt(i) \/ AdoptBlind(i) \/ Heard(i)
    <3>1. tick' = tick
      BY <2>2, ApplyDoes, AdoptDoes, HeardDoes
    <3> QED BY <3>1
  <2>3. CASE Crash(i) \/ TickOver(i)
    BY <1>1, <2>3, CrashDoes, OverDoes, IdleWritesNothing
  <2>4. CASE Evaluate(i)
    <3>0. track[i] \in Track
      BY DEF HealthTypes, TrackTypes
    <3>1. Honest(Offer(track[i]))
      BY <3>0, OfferIsHonest
    <3> QED BY <1>1, <2>4, <3>1, EvaluateDoes
  <2>5. CASE Enter(i)
    BY <1>1, <2>5, EnterDoes, IdleWritesNothing
  <2>6. CASE Upserted(i) \/ Commit(i)
    BY <2>6, UpsertedDoes, CommitDoes
  <2> QED BY <2>1, <2>2, <2>3, <2>4, <2>5, <2>6, OwnStep
<1> QED BY <1>2, <1>3 DEF Honest

LEMMA HandoverStep == ASSUME HandoverInv, Next PROVE HandoverInv'
<1>1. HealthTypes' /\ \A j \in Instances : QueueInv(j)'
  BY TypesStep, QueueInvStep DEF HandoverInv
<1>2. Alone' /\ ReadingQuiet' /\ Quiet'
  BY AloneStep, ReadingQuietStep, QuietStep
<1>3. Honest(row)' /\ \A i \in Instances : Honest(tick[i].offer)'
  BY HonestStep
<1> QED BY <1>1, <1>2, <1>3 DEF HandoverInv

-------------------------------------------------------------------------------
(* The guess of a start is published only of a device that has not         *)
(* answered.                                                               *)

LEMMA HasBefore ==
  ASSUME HandoverInv, Next, NEW i \in Instances, Has(i)'
  PROVE  Has(i) \/ (Adopt(i) /\ HasRead(i)) \/ AdoptBlind(i)
BY SafeBefore DEF HandoverInv

LEMMA ReadTrueStep ==
  ASSUME HandoverInv, Next, NEW i \in Instances, ReadTrue(i)
  PROVE  ReadTrue(i)'
<1> SUFFICES ASSUME HasRead(i)'
             PROVE  reading'[i].row = row' /\ \A j \in Instances : ~WritesState(j)'
  BY DEF ReadTrue
<1> USE DEF HandoverInv, HealthTypes, MovingTypes
<1>1. CASE Read(i)
  <2>1. reading'[i].row = row /\ UNCHANGED <<tick, row>> /\ \A j \in Instances : ~Writing(j)
    BY <1>1 DEF Read, stored
  <2> QED BY <2>1 DEF WritesState, Writing
<1>2. CASE ~Read(i)
  <2>1. HasRead(i)
    BY <1>2, SafeBefore
  <2>2. reading[i].row = row /\ \A j \in Instances : ~WritesState(j)
    BY <2>1 DEF ReadTrue
  <2>3. i = owner /\ Held(i)
    BY <2>1 DEF HasRead, QueueInv, Held
  <2>4. \A j \in Instances : ~WritesState(j)'
    <3> SUFFICES ASSUME NEW j \in Instances, WritesState(j)' PROVE FALSE
      OBVIOUS
    <3>1. Has(j) /\ ~Held(j)
      BY <2>2, WriterBefore DEF WritesState, Writing
    <3> QED BY <2>3, <3>1 DEF Has
  <2>5. row' = row
    <3>1. ASSUME NEW k \in Instances, Commit(k) \/ CommitUnknown(k), Stored(k) PROVE row' = row
      BY <2>2, <3>1 DEF Commit, CommitUnknown, Stored, WritesState, Writing
    <3> QED BY <3>1, StoredBy DEF stored
  <2>6. reading'[i].row = reading[i].row
    <3>1. reading'[i].at = "read"
      BY DEF HasRead
    <3>2. ASSUME NEW k \in Instances, Apply(k) PROVE reading'[i].row = reading[i].row
      <4>1. reading' \in {reading, [reading EXCEPT ![k] = [reading[k] EXCEPT !.at = "reading"]]}
        BY <3>2 DEF Apply
      <4> QED BY <4>1 DEF Restoring
    <3>3. ASSUME NEW k \in Instances, Read(k) PROVE reading'[i].row = reading[i].row
      BY <1>2, <3>3 DEF Read
    <3>4. ASSUME NEW k \in Instances, Adopt(k) \/ AdoptBlind(k) \/ Crash(k)
          PROVE  reading'[i].row = reading[i].row
      <4>1. reading' = [reading EXCEPT ![k] = NotReading]
        BY <3>4 DEF Adopt, AdoptBlind, Crash, Adopted
      <4> QED BY <3>1, <4>1 DEF NotReading
    <3>5. Rebalance => reading' = reading
      BY DEF Rebalance
    <3> QED BY <3>2, <3>3, <3>4, <3>5, Kept, NextCases
  <2> QED BY <2>2, <2>4, <2>5, <2>6
<1> QED BY <1>1, <1>2

(* Another instance writes no state while the guess may be made, so the    *)
(* row stays that of a device that has not answered.                       *)
LEMMA GuessHolds ==
  ASSUME HandoverInv, Next, NEW i \in Instances, Has(i), Guess(i), i \notin leftover, Loud(i)
  PROVE  /\ ~row.everOk /\ \A j \in Instances : j # i => ~WritesState(j)'
         /\ row' = row \/ ((Commit(i) \/ CommitUnknown(i)) /\ row' = tick[i].offer)
<1>1. ~row.everOk /\ \A j \in Instances : j # i => ~WritesState(j)
  BY DEF Guess
<1>2. row' = row \/ ((Commit(i) \/ CommitUnknown(i)) /\ row' = tick[i].offer)
  <2>1. ASSUME NEW k \in Instances, Commit(k) \/ CommitUnknown(k), Stored(k), k # i PROVE row' = row
    BY <1>1, <2>1 DEF Commit, CommitUnknown, Stored, WritesState, Writing
  <2>2. Stored(i) => row' \in {row, tick[i].offer}
    BY DEF Stored
  <2> QED BY <2>1, <2>2, StoredBy DEF stored
<1>3. ASSUME NEW j \in Instances, j # i, WritesState(j)' PROVE FALSE
  <2>1. Has(j)
    BY <1>1, <1>3, WriterBefore DEF WritesState, Writing
  <2> QED BY <1>3, <2>1 DEF Has
<1> QED BY <1>1, <1>2, <1>3

LEMMA GuessStep ==
  ASSUME HandoverInv, Next, NEW i \in Instances, ReadTrue(i), Guess(i)
  PROVE  Guess(i)'
<1> DEFINE Known1 == tick'[i].offer.everOk => track'[i].ok # "never"
           Unheard == ~row'.everOk /\ \A j \in Instances : j # i => ~WritesState(j)'
<1> SUFFICES ASSUME Has(i)', i \notin leftover' PROVE Known1 /\ (Loud(i)' => Unheard)
  BY DEF Guess
<1>1. HealthTypes /\ Honest(row) /\ \A j \in Instances : Honest(tick[j].offer)
  BY DEF HandoverInv
<1>2. CASE Adopt(i) \/ AdoptBlind(i)
  <2>1. UNCHANGED <<tick, row>> /\ tick'[i] = IdleTick
    BY <1>1, <1>2, AdoptDoes DEF stored
  <2>2. reading[i].at = "read" => HasRead(i)
    BY <1>1, <1>2, AdoptReads DEF AdoptBlind, HandoverInv
  <2>3. reading[i].at = "read" => reading[i].row = row /\ \A j \in Instances : ~WritesState(j)'
    BY <2>1, <2>2 DEF ReadTrue, WritesState, Writing
  <2>4. Loud(i)' => track'[i].ok = "never" /\ ~track'[i].quiet
    BY <2>1, IdleWritesNothing DEF Loud, Ahead
  <2>5. Loud(i)' => reading[i].at = "read" /\ ~reading[i].row.everOk
    BY <1>1, <1>2, <2>4, AdoptDoes, FreshFields, IdleWritesNothing
  <2> QED BY <2>1, <2>3, <2>5, IdleWritesNothing
<1>3. CASE ~Adopt(i) /\ ~AdoptBlind(i)
  <2>1. Has(i)
    BY <1>3, HasBefore
  <2>2. i \in owned /\ i \in owned'
    BY <2>1 DEF Has
  <2>3. ASSUME i \notin leftover, Loud(i)' => Loud(i), Known1, ~Commit(i), ~CommitUnknown(i)
        PROVE  Known1 /\ (Loud(i)' => Unheard)
    BY <2>1, <2>3, GuessHolds
  <2>4. ASSUME i \notin leftover PROVE tick[i].offer.everOk => track[i].ok # "never"
    BY <2>1, <2>4 DEF Guess
  <2>5. CASE Commit(i) \/ CommitUnknown(i)
    <3>1. /\ i \notin leftover /\ tick'[i].at \in {"idle", "sending"}
          /\ tick'[i].offer \in {tick[i].offer, NoRow}
          /\ track'[i].ok = track[i].ok /\ track'[i].grace = track[i].grace
          /\ track'[i].quiet = track[i].quiet
      BY <1>1, <2>5, CommitDoes, OverDoes, IdleWritesNothing DEF moving, TickOver
    <3>2. Known1 /\ (Loud(i)' => Loud(i) /\ track[i].ok = "never")
      BY <2>4, <3>1, IdleWritesNothing DEF Loud, Ahead
    <3>3. Loud(i)' => /\ ~row.everOk /\ \A j \in Instances : j # i => ~WritesState(j)'
                      /\ row' = row \/ row' = tick[i].offer
      BY <2>1, <3>1, <3>2, GuessHolds
    <3> QED BY <2>4, <3>1, <3>2, <3>3
  <2>6. ASSUME ~Commit(i), ~CommitUnknown(i) PROVE Known1 /\ (Loud(i)' => Unheard)
    <3>1. CASE Aside(i)
      BY <2>3, <2>4, <2>6, <3>1 DEF Aside, Loud, Ahead
    <3>2. CASE Apply(i)
      <4>1. tick'[i] = tick[i] /\ track'[i] = track[i] /\ leftover' = leftover
        BY <1>1, <2>2, <3>2, ApplyDoes
      <4> QED BY <2>3, <2>4, <2>6, <4>1 DEF Loud, Ahead
    <3>3. CASE Crash(i)
      BY <1>1, <2>2, <3>3, CrashDoes
    <3>4. CASE Heard(i)
      <4>1. /\ tick'[i] = tick[i] /\ leftover' = leftover /\ track'[i].quiet = track[i].quiet
            /\ track'[i].ok = "never" => track[i].ok = "never"
            /\ track'[i].grace => track[i].grace
        BY <1>1, <3>4, HeardDoes DEF moving
      <4>2. Loud(i)' => Loud(i)
        BY <4>1 DEF Loud, Ahead
      <4> QED BY <2>3, <2>4, <2>6, <4>1, <4>2
    <3>5. CASE Evaluate(i)
      <4>0. track[i] \in Track
        BY <1>1 DEF HealthTypes, TrackTypes
      <4>1. /\ tick[i].at = "idle" /\ leftover' = leftover /\ track'[i].ok = track[i].ok
            /\ tick'[i] = tick[i]
               \/ (/\ tick'[i].at = "locking"
                   /\ tick'[i].offer = NoRow \/ (tick'[i].offer = Offer(track[i]) /\ Speaks(i)))
            /\ ~Speaks(i) => track'[i] = track[i]
            /\ Speaks(i) => track'[i].grace = track[i].grace
        BY <1>1, <3>5, EvaluateDoes DEF moving
      <4>2. Known1
        BY <2>4, <4>0, <4>1, OfferIsHonest, IdleWritesNothing
      <4>3. Speaks(i) /\ track[i].ok = "never" /\ track[i].grace => ~track[i].quiet
        BY <4>0, OfferIsHonest DEF Speaks
      <4>4. Ahead(i)' /\ tick'[i].offer.reason = "startup_grace"
              => Speaks(i) /\ track[i].ok = "never" /\ track[i].grace
        BY <4>0, <4>1, OfferIsHonest, IdleWritesNothing DEF Ahead
      <4>5. Loud(i)' => Loud(i)
        BY <4>1, <4>3, <4>4 DEF Loud
      <4> QED BY <2>3, <2>6, <4>1, <4>2, <4>5
    <3>6. CASE Enter(i)
      <4>1. /\ tick[i].at = "locking" /\ UNCHANGED <<leftover, track>>
            /\ tick'[i] = IdleTick \/ tick'[i].offer = tick[i].offer
        BY <1>1, <2>2, <3>6, EnterDoes DEF moving
      <4>2. Known1 /\ (Loud(i)' => Loud(i))
        BY <2>4, <4>1, IdleWritesNothing DEF Loud, Ahead
      <4> QED BY <2>3, <2>6, <4>1, <4>2
    <3>7. CASE Upserted(i)
      <4>1. /\ tick[i].at = "upserting" /\ UNCHANGED <<leftover, track>>
            /\ tick'[i].at = "inserting" /\ tick'[i].offer = tick[i].offer
        BY <1>1, <3>7, UpsertedDoes DEF moving
      <4>2. Known1 /\ (Loud(i)' => Loud(i))
        BY <2>4, <4>1 DEF Loud, Ahead
      <4> QED BY <2>3, <2>6, <4>1, <4>2
    <3>8. CASE TickOver(i)
      <4>1. /\ tick'[i] = IdleTick /\ leftover' = leftover
            /\ track'[i].ok = track[i].ok /\ track'[i].grace = track[i].grace
            /\ track'[i].quiet = track[i].quiet
        BY <1>1, <3>8, OverDoes DEF moving
      <4>2. Known1 /\ (Loud(i)' => Loud(i))
        BY <4>1, IdleWritesNothing DEF Loud, Ahead
      <4> QED BY <2>3, <2>6, <4>1, <4>2
    <3> QED BY <1>1, <1>3, <2>6, <3>1, <3>2, <3>3, <3>4, <3>5, <3>6, <3>7, <3>8, OwnStep
  <2> QED BY <2>5, <2>6
<1> QED BY <1>2, <1>3

(* The tick of who has the device makes the guess only where the row tells *)
(* of no answer.                                                           *)
LEMMA GuessIsKept ==
  ASSUME HandoverInv, Next, NEW i \in Instances, Guess(i), i \in owned, queue[i] = <<>>,
         i \notin leftover, Writing(i), tick'[i] # tick[i], row.everOk
  PROVE  row'.reason # "startup_grace"
<1>1. HealthTypes /\ Honest(row) /\ QueueInv(i)
  BY DEF HandoverInv
<1>2. Has(i)
  BY <1>1, Holds
<1>3. row.reason # "startup_grace"
  BY <1>1 DEF Honest
<1>4. ASSUME row' # row PROVE row'.reason # "startup_grace"
  <2>1. PICK k \in Instances : (Commit(k) \/ CommitUnknown(k)) /\ Stored(k)
    BY <1>4, StoredBy DEF stored
  <2>2. k = i
    BY <1>1, <2>1 DEF Commit, CommitUnknown, HealthTypes, TickTypes
  <2>3. row' = tick[i].offer /\ Ahead(i)
    BY <1>4, <2>1, <2>2 DEF Commit, CommitUnknown, Stored, Ahead
  <2>4. ~Loud(i)
    BY <1>2 DEF Guess
  <2> QED BY <2>3, <2>4 DEF Loud
<1> QED BY <1>3, <1>4

-------------------------------------------------------------------------------
(* The events tell the story of the device.                                *)

LEMMA EventsOf ==
  ASSUME HealthTypes, NEW i \in Instances
  PROVE  /\ pending[i] \in Seq(Event) /\ Len(pending[i]) \in Nat
         /\ DOMAIN pending[i] = 1..Len(pending[i])
         /\ pending[i] # <<>> <=> Len(pending[i]) > 0
         /\ \A k \in 1..Len(pending[i]) : pending[i][k] \in Event
<1>1. pending[i] \in Seq(Event)
  BY DEF HealthTypes, EventTypes
<1>2. \A k \in 1..Len(pending[i]) : pending[i][k] \in Event
  BY <1>1, ElementOfSeq
<1> QED BY <1>1, <1>2, LenProperties, EmptySeq

LEMMA DetectIs ==
  ASSUME NEW from \in {"none", "unknown", "online", "degraded", "offline"},
         NEW to \in {"unknown", "online", "degraded", "offline"}
  PROVE  \/ /\ detectDeviceEvents(from, to) = <<>>
            /\ from = "none" \/ to \in {"unknown", "degraded"} \/ to = from
         \/ \E e \in Event :
              /\ detectDeviceEvents(from, to) = <<e>>
              /\ e.from = from /\ ~e.stored /\ Fit(to, e.kind)
<1> DEFINE event(kind) == [kind |-> kind, from |-> from, stored |-> FALSE]
           off == event("went_offline")
           on == event("came_online")
<1>1. from # "none" => off \in Event /\ on \in Event
  BY DEF Event
<1>2. /\ off.from = from /\ ~off.stored /\ Fit("offline", off.kind)
      /\ on.from = from /\ ~on.stored /\ Fit("online", on.kind)
  BY DEF Fit
<1>3. CASE from \notin {"none", "offline"} /\ to = "offline"
  <2>1. detectDeviceEvents(from, to) = <<off>>
    BY <1>3 DEF detectDeviceEvents
  <2> HIDE DEF off
  <2> QED BY <1>1, <1>2, <1>3, <2>1
<1>4. CASE ~(from \notin {"none", "offline"} /\ to = "offline") /\ from \notin {"none", "online"} /\ to = "online"
  <2>1. detectDeviceEvents(from, to) = <<on>>
    BY <1>4 DEF detectDeviceEvents
  <2> HIDE DEF on
  <2> QED BY <1>1, <1>2, <1>4, <2>1
<1>5. CASE ~(from \notin {"none", "offline"} /\ to = "offline") /\ ~(from \notin {"none", "online"} /\ to = "online")
  BY <1>5 DEF detectDeviceEvents
<1> QED BY <1>3, <1>4, <1>5

(* An evaluation says nothing new, or one event more.                      *)
LEMMA EvaluateSays ==
  ASSUME HealthTypes, NEW i \in Instances, Evaluate(i), Speaks(i), ~track[i].quiet
  PROVE  LET s == track'[i].snapshot
         IN /\ s \in {"unknown", "online", "degraded", "offline"}
            /\ \/ /\ pending'[i] = pending[i]
                  /\ track[i].snapshot = "none" \/ s \in {"unknown", "degraded"} \/ s = track[i].snapshot
               \/ \E e \in Event :
                    /\ pending'[i] = pending[i] \o <<e>>
                    /\ e.from = track[i].snapshot /\ ~e.stored /\ Fit(s, e.kind)
<1> DEFINE s == StatusOf(deviceVerdict(track[i]))
           from == track[i].snapshot
<1>1. track[i] \in Track /\ pending[i] \in Seq(Event)
  BY EventsOf DEF HealthTypes, TrackTypes
<1>2. track'[i].snapshot = s /\ pending'[i] = pending[i] \o detectDeviceEvents(from, s)
  BY EvaluateDoes DEF Compared
<1>3. s \in {"unknown", "online", "degraded", "offline"}
  BY <1>1, VerdictType, StatusType
<1>4. from \in {"none", "unknown", "online", "degraded", "offline"}
  BY <1>1 DEF Track
<1> HIDE DEF s, from
<1>5. \/ detectDeviceEvents(from, s) = <<>> /\ (from = "none" \/ s \in {"unknown", "degraded"} \/ s = from)
      \/ \E e \in Event : detectDeviceEvents(from, s) = <<e>> /\ e.from = from /\ ~e.stored /\ Fit(s, e.kind)
  BY <1>3, <1>4, DetectIs
<1>6. pending[i] \o <<>> = pending[i]
  BY <1>1, ConcatEmptySeq
<1> QED BY <1>2, <1>3, <1>5, <1>6 DEF from

LEMMA OneMore ==
  ASSUME NEW p \in Seq(Event), NEW e \in Event, NEW q, q = p \o <<e>>
  PROVE  /\ Len(q) = Len(p) + 1 /\ DOMAIN q = 1..(Len(p) + 1) /\ q[Len(p) + 1] = e
         /\ \A k \in 1..Len(p) : q[k] = p[k]
<1>1. <<e>> \in Seq(Event) /\ Len(<<e>>) = 1 /\ <<e>>[1] = e
  OBVIOUS
<1>2. /\ q \in Seq(Event) /\ Len(q) = Len(p) + 1
      /\ \A k \in 1..Len(q) : q[k] = IF k <= Len(p) THEN p[k] ELSE <<e>>[k - Len(p)]
  BY <1>1, ConcatProperties
<1>3. Len(p) \in Nat /\ DOMAIN q = 1..Len(q)
  BY <1>2, LenProperties
<1> QED BY <1>1, <1>2, <1>3

LEMMA CommitUnknownDoes ==
  ASSUME HealthTypes, NEW i \in Instances, CommitUnknown(i)
  PROVE  /\ tick[i].at = "inserting" /\ Stored(i) /\ tick'[i] = IdleTick
         /\ UNCHANGED <<group, moving, track>>
         /\ pending'[i] = IF tick[i].events THEN Marked(pending[i]) ELSE pending[i]
BY DEF HealthTypes, TickTypes, EventTypes, CommitUnknown

LEMMA MarkedIs ==
  ASSUME NEW p \in Seq(Event)
  PROVE  DOMAIN Marked(p) = DOMAIN p /\ \A k \in DOMAIN p : Marked(p)[k].stored
<1>1. \A k \in DOMAIN p : p[k] \in Event
  BY ElementOfSeq, LenProperties
<1> QED BY <1>1 DEF Marked, Event

LEMMA PrefixStep ==
  ASSUME HealthTypes, Next, NEW i \in Instances, Prefix(i)
  PROVE  Prefix(i)'
<1>1. CASE pending'[i] = pending[i]
  BY <1>1 DEF Prefix
<1>2. CASE pending'[i] = <<>>
  BY <1>2 DEF Prefix
<1>3. CASE CommitUnknown(i)
  BY <1>1, <1>3, CommitUnknownDoes, MarkedIs, EventsOf DEF Prefix
<1>4. CASE Evaluate(i)
  <2>1. ~Speaks(i) => pending'[i] = pending[i]
    BY <1>4, EvaluateDoes
  <2>2. CASE Speaks(i)
    <3> DEFINE p == pending[i]
               q == pending'[i]
               to == StatusOf(deviceVerdict(track[i]))
    <3>1. track[i] \in Track /\ p \in Seq(Event) /\ Len(p) \in Nat /\ DOMAIN p = 1..Len(p)
      BY EventsOf DEF HealthTypes, TrackTypes
    <3>2. to \in {"unknown", "online", "degraded", "offline"}
      BY <3>1, VerdictType, StatusType
    <3>3. Compared(i) \in {"none", "unknown", "online", "degraded", "offline"}
      BY <3>1, <3>2 DEF Compared, Track
    <3>4. q = p \o detectDeviceEvents(Compared(i), to)
      BY <1>4, <2>2, EvaluateDoes
    <3> HIDE DEF to
    <3>5. CASE detectDeviceEvents(Compared(i), to) = <<>>
      BY <1>1, <3>1, <3>4, <3>5, ConcatEmptySeq
    <3>6. ASSUME NEW e \in Event, detectDeviceEvents(Compared(i), to) = <<e>>, ~e.stored
          PROVE  Prefix(i)'
      <4>1. /\ DOMAIN q = 1..(Len(p) + 1) /\ q[Len(p) + 1] = e
            /\ \A k \in 1..Len(p) : q[k] = p[k]
        BY <3>1, <3>4, <3>6, OneMore
      <4>2. ASSUME NEW k \in DOMAIN q, NEW m \in DOMAIN q, k < m, q[m].stored PROVE q[k].stored
        <5>1. m \in DOMAIN p /\ k \in DOMAIN p
          BY <3>1, <3>6, <4>1, <4>2
        <5> QED BY <3>1, <4>1, <4>2, <5>1 DEF Prefix
      <4> QED BY <4>2 DEF Prefix
    <3> QED BY <3>2, <3>3, <3>5, <3>6, DetectIs
  <2> QED BY <1>1, <2>1, <2>2
<1>5. CASE Aside(i)
  BY <1>1, <1>5 DEF Aside
<1>6. CASE Apply(i) \/ Adopt(i) \/ AdoptBlind(i) \/ Heard(i) \/ Enter(i) \/ Upserted(i)
  <2>1. pending' = pending
    BY <1>6, ApplyDoes, AdoptDoes, HeardDoes, EnterDoes, UpsertedDoes
  <2> QED BY <1>1, <2>1
<1>7. CASE TickOver(i)
  BY <1>1, <1>3, <1>7, OverDoes
<1>8. CASE Crash(i) \/ Commit(i)
  BY <1>2, <1>8, CrashDoes, CommitDoes
<1> QED BY <1>4, <1>5, <1>6, <1>7, <1>8, OwnStep

LEMMA OfferedStep ==
  ASSUME HandoverInv, Next, NEW i \in Instances, Offered(i)
  PROVE  Offered(i)'
<1> SUFFICES ASSUME ~blind', i \in owned', i \notin leftover', Ahead(i)'
             PROVE  /\ track'[i].snapshot # "none"
                    /\ tick'[i].offer # NoRow => StatusOf(tick'[i].offer.reason) = track'[i].snapshot
                    /\ tick'[i].at = "inserting" => tick'[i].events
  BY DEF Offered
<1>1. HealthTypes /\ ~blind /\ ~track[i].quiet /\ ~AdoptBlind(i)
  BY BlindStays DEF HandoverInv, Quiet
<1>2. CASE Aside(i)
  BY <1>1, <1>2 DEF Aside, Offered, Ahead
<1>3. CASE Apply(i)
  BY <1>1, <1>3, ApplyDoes DEF Offered, Ahead
<1>4. CASE Adopt(i)
  BY <1>1, <1>4, AdoptDoes, IdleWritesNothing DEF Ahead
<1>5. CASE Crash(i) \/ Commit(i) \/ TickOver(i)
  BY <1>1, <1>5, CrashDoes, CommitDoes, OverDoes, IdleWritesNothing DEF Ahead
<1>6. CASE Heard(i)
  BY <1>1, <1>6, HeardDoes DEF moving, Offered, Ahead
<1>7. CASE Evaluate(i)
  <2>0. track[i] \in Track
    BY <1>1 DEF HealthTypes, TrackTypes
  <2>1. i \in owned /\ Speaks(i)
    BY <1>1, <1>7, EvaluateDoes DEF Speaks, moving
  <2>2. StatusOf(deviceVerdict(track[i])) # "none"
    BY <2>0, VerdictType, StatusType
  <2>3. /\ tick[i].at = "idle" /\ track'[i].snapshot = StatusOf(deviceVerdict(track[i]))
        /\ tick'[i] = tick[i]
           \/ (tick'[i].at = "locking" /\ (tick'[i].offer = NoRow \/ tick'[i].offer = Offer(track[i])))
    BY <1>1, <1>7, <2>1, EvaluateDoes
  <2> QED BY <2>0, <2>2, <2>3, OfferIsHonest DEF Ahead
<1>8. CASE Enter(i)
  BY <1>1, <1>8, EnterDoes, IdleWritesNothing DEF moving, Offered, Ahead
<1>9. CASE Upserted(i)
  BY <1>1, <1>9, UpsertedDoes DEF moving, Offered, Ahead
<1> QED BY <1>1, <1>2, <1>3, <1>4, <1>5, <1>6, <1>7, <1>8, <1>9, OwnStep

(* The story goes on only at who has the device, or has it from its row.   *)
LEMMA JudgedBefore ==
  ASSUME HandoverInv, Next, ~blind', NEW i \in Instances, Judged(i)', ~Adopt(i)
  PROVE  Judged(i)
<1>1. HealthTypes /\ ~AdoptBlind(i)
  BY BlindStays DEF HandoverInv
<1>2. Has(i) \/ Writer(i)
  BY <1>1, HasBefore, WriterBefore DEF Judged, Writer
<1>3. ~Crash(i)
  BY <1>1, CrashDoes, IdleWritesNothing DEF Judged, Has, Writer, Writing
<1>4. i \notin leftover
  <2>1. Aside(i) => i \notin leftover
    BY DEF Aside, Judged
  <2>2. ASSUME Own(i) PROVE leftover' = leftover
    BY <1>1, <1>3, <2>2, ApplyDoes, HeardDoes, EvaluateDoes, EnterDoes, UpsertedDoes, CommitDoes, OverDoes
       DEF Own, moving
  <2> QED BY <1>1, <2>1, <2>2, OwnStep DEF Own, Judged
<1> QED BY <1>2, <1>4 DEF Judged

(* Nobody else writes the tables meanwhile.                                *)
LEMMA TablesAreOwn ==
  ASSUME HandoverInv, Next, ~blind', NEW i \in Instances, Judged(i), ~Commit(i), ~CommitUnknown(i)
  PROVE  row' = row /\ lastEvent' = lastEvent
<1>1. ~blind /\ Alone
  BY BlindStays DEF HandoverInv
<1>2. ASSUME NEW k \in Instances, Commit(k) \/ CommitUnknown(k), Stored(k), ~Writer(k)
      PROVE  row' = row /\ lastEvent' = lastEvent
  BY <1>2 DEF Commit, CommitUnknown, Stored, NewEvents, Writer, Writing
<1>3. ASSUME NEW k \in Instances, Commit(k) \/ CommitUnknown(k) PROVE ~Writer(k)
  <2>1. k # i
    BY <1>3
  <2> QED BY <1>1, <2>1 DEF Alone, Judged, Safe
<1> QED BY <1>2, <1>3, StoredBy DEF stored

LEMMA SameStory ==
  ASSUME NEW i \in Instances, Chained(i), i \in owned' => Ended(i), pending'[i] = pending[i],
         row' = row, lastEvent' = lastEvent, i \in owned' => track'[i].snapshot = track[i].snapshot
  PROVE  Chained(i)' /\ (i \in owned' => Ended(i)')
<1>1. Unstored(i)' = Unstored(i)
  BY DEF Unstored
<1> QED BY <1>1 DEF Chained, Ended, FitsTable

(* What a commit has written is the story so far.                          *)
LEMMA CommittedStory ==
  ASSUME HealthTypes, NEW i \in Instances, Judged(i), Offered(i), Story(i), ~blind,
         Commit(i) \/ CommitUnknown(i), i \in owned
  PROVE  Chained(i)' /\ Ended(i)'
<1>1. /\ tick[i].at = "inserting" /\ Stored(i) /\ track' = track
      /\ pending'[i] = <<>> \/ (tick[i].events => pending'[i] = Marked(pending[i]))
  BY CommitDoes, CommitUnknownDoes
<1>2. /\ track[i].snapshot # "none" /\ tick[i].events
      /\ tick[i].offer # NoRow => StatusOf(tick[i].offer.reason) = track[i].snapshot
  BY <1>1 DEF Offered, Ahead, Judged
<1>3. Unstored(i)' = {}
  <2>1. pending[i] \in Seq(Event)
    BY EventsOf
  <2> QED BY <1>1, <1>2, <2>1, MarkedIs DEF Unstored
<1>4. Ended(i)
  BY DEF Story
<1>5. NewEvents(i) = Unstored(i)
  BY <1>2 DEF NewEvents, Unstored
<1>6. FitsTable(track[i].snapshot)'
  <2>1. CASE Unstored(i) # {}
    <3>1. Fit(track[i].snapshot, pending[i][Len(pending[i])].kind)
      BY <1>4, <2>1 DEF Ended
    <3>2. lastEvent' = pending[i][Len(pending[i])].kind
      BY <1>1, <1>5, <2>1 DEF Stored
    <3> QED BY <1>1, <3>1, <3>2 DEF FitsTable, Fit
  <2>2. CASE Unstored(i) = {}
    <3>1. FitsTable(track[i].snapshot) /\ lastEvent' = lastEvent
      BY <1>1, <1>4, <1>5, <2>2 DEF Ended, Stored
    <3>2. row' = row \/ StatusOf(row'.reason) = track[i].snapshot
      BY <1>1, <1>2 DEF Stored
    <3> QED BY <1>1, <3>1, <3>2 DEF FitsTable, Fit
  <2> QED BY <2>1, <2>2
<1> QED BY <1>1, <1>2, <1>3, <1>6 DEF Chained, Ended

(* A new event goes on from the one before it, or from the table.          *)
LEMMA NextChapter ==
  ASSUME HealthTypes, NEW i \in Instances, Prefix(i), Chained(i), Ended(i), row' = row, lastEvent' = lastEvent,
         NEW e \in Event, pending'[i] = pending[i] \o <<e>>, e.from = track[i].snapshot, ~e.stored,
         Fit(track'[i].snapshot, e.kind), track'[i].snapshot # "none"
  PROVE  Chained(i)' /\ Ended(i)'
<1> DEFINE p == pending[i]
           n == Len(p)
           q == pending'[i]
<1>1. p \in Seq(Event) /\ n \in Nat /\ DOMAIN p = 1..n
  BY EventsOf
<1>2. Len(q) = n + 1 /\ DOMAIN q = 1..(n + 1) /\ q[n + 1] = e /\ \A k \in 1..n : q[k] = p[k]
  BY <1>1, OneMore
<1>3. \A k \in 1..n : k \in Unstored(i)' <=> k \in Unstored(i)
  BY <1>1, <1>2 DEF Unstored
<1>4. n + 1 \in Unstored(i)' /\ Unstored(i) \subseteq 1..n /\ Unstored(i)' \subseteq 1..(n + 1)
  BY <1>1, <1>2 DEF Unstored
<1>5. n \notin Unstored(i) => Unstored(i) = {}
  <2>1. ASSUME n \notin Unstored(i), NEW k \in Unstored(i) PROVE FALSE
    <3>1. k \in 1..n /\ n \in 1..n /\ k < n
      BY <1>1, <1>4, <2>1
    <3>2. p[n].stored /\ ~p[k].stored
      BY <1>1, <2>1, <3>1 DEF Unstored
    <3> QED BY <1>1, <3>1, <3>2 DEF Prefix
  <2> QED BY <2>1
<1>6. Chained(i)'
  <2>1. ASSUME NEW k \in Unstored(i)', k # n + 1
        PROVE  IF k - 1 \in Unstored(i)' THEN Fit(q[k].from, q[k - 1].kind)
               ELSE FitsTable(q[k].from)
    <3>1. k \in 1..n /\ k \in Unstored(i)
      BY <1>1, <1>3, <1>4, <2>1
    <3>2. k - 1 \in Unstored(i)' <=> k - 1 \in Unstored(i)
      <4>1. k - 1 \in 1..n \/ k - 1 = 0
        BY <1>1, <3>1
      <4>2. 0 \notin Unstored(i) /\ 0 \notin Unstored(i)'
        BY <1>1, <1>4
      <4> QED BY <1>3, <4>1, <4>2
    <3>3. q[k] = p[k] /\ (k - 1 \in Unstored(i) => q[k - 1] = p[k - 1])
      BY <1>2, <1>4, <3>1
    <3> QED BY <3>1, <3>2, <3>3 DEF Chained, FitsTable
  <2>2. IF (n + 1) - 1 \in Unstored(i)' THEN Fit(q[n + 1].from, q[(n + 1) - 1].kind)
        ELSE FitsTable(q[n + 1].from)
    <3>1. (n + 1) - 1 = n /\ q[n + 1].from = track[i].snapshot
      BY <1>1, <1>2
    <3>2. n \in Unstored(i)' <=> n \in Unstored(i)
      <4>1. n \in 1..n \/ n = 0
        BY <1>1
      <4>2. 0 \notin Unstored(i) /\ 0 \notin Unstored(i)'
        BY <1>1, <1>4
      <4> QED BY <1>3, <4>1, <4>2
    <3>3. CASE n \in Unstored(i)
      <4>1. q[n] = p[n]
        BY <1>2, <1>4, <3>3
      <4> QED BY <3>1, <3>2, <3>3, <4>1 DEF Ended
    <3>4. CASE n \notin Unstored(i)
      BY <1>5, <3>1, <3>2, <3>4 DEF Ended, FitsTable
    <3> QED BY <3>3, <3>4
  <2> QED BY <2>1, <2>2 DEF Chained, FitsTable
<1>7. Ended(i)'
  <2>1. q[Len(q)] = e
    BY <1>2
  <2> QED BY <1>4, <2>1 DEF Ended
<1> QED BY <1>6, <1>7

LEMMA EvaluatedStory ==
  ASSUME HandoverInv, NEW i \in Instances, Evaluate(i), Prefix(i), Chained(i), i \in owned => Ended(i),
         ~track[i].quiet
  PROVE  Chained(i)' /\ (i \in owned' => Ended(i)')
<1>1. HealthTypes
  BY DEF HandoverInv
<1>2. owned' = owned /\ row' = row /\ lastEvent' = lastEvent
  BY <1>1, EvaluateDoes DEF moving, stored
<1>3. CASE ~Speaks(i)
  BY <1>1, <1>2, <1>3, EvaluateDoes, SameStory
<1>4. CASE Speaks(i)
  <2> DEFINE s == track'[i].snapshot
  <2>1. i \in owned /\ Ended(i)
    BY <1>4 DEF Speaks
  <2>2. s \in {"unknown", "online", "degraded", "offline"}
    BY <1>1, <1>4, EvaluateSays
  <2>3. CASE /\ pending'[i] = pending[i]
             /\ track[i].snapshot = "none" \/ s \in {"unknown", "degraded"} \/ s = track[i].snapshot
    <3>1. Unstored(i)' = Unstored(i)
      BY <2>3 DEF Unstored
    <3>2. Chained(i)'
      BY <1>2, <2>3, <3>1 DEF Chained, FitsTable
    <3>3. track[i].snapshot = "none" => row' = NoRow /\ Unstored(i) = {}
      BY <1>2, <2>1 DEF Ended, Unstored
    <3>4. Ended(i)'
      BY <1>2, <2>1, <2>2, <2>3, <3>1, <3>3 DEF Ended, FitsTable, Fit
    <3> QED BY <3>2, <3>4
  <2>4. CASE \E e \in Event : /\ pending'[i] = pending[i] \o <<e>>
                              /\ e.from = track[i].snapshot /\ ~e.stored /\ Fit(s, e.kind)
    BY <1>1, <1>2, <2>1, <2>2, <2>4, NextChapter
  <2> QED BY <1>1, <1>4, <2>3, <2>4, EvaluateSays
<1> QED BY <1>3, <1>4

LEMMA StoryStep ==
  ASSUME HandoverInv, Next, NEW i \in Instances, Offered(i), Prefix(i), Story(i), ReadTrue(i)
  PROVE  Story(i)'
<1> SUFFICES ASSUME ~blind', Judged(i)' PROVE Chained(i)' /\ (i \in owned' => Ended(i)')
  BY DEF Story
<1>1. HealthTypes /\ ~blind /\ ~track[i].quiet /\ ~AdoptBlind(i)
  BY BlindStays DEF HandoverInv, Quiet
<1>2. CASE Adopt(i)
  <2>1. /\ UNCHANGED <<pending, tick, stored>> /\ tick[i] = IdleTick /\ pending[i] = <<>>
    BY <1>1, <1>2, AdoptDoes DEF Judged
  <2>2. HasRead(i)
    BY <1>1, <1>2, <2>1, AdoptReads, IdleWritesNothing DEF Judged, Writer, Writing, HandoverInv
  <2>3. reading[i].row = row
    BY <2>2 DEF ReadTrue
  <2>4. Unstored(i)' = {}
    BY <2>1 DEF Unstored
  <2>5. row # NoRow => StatusOf(row.reason) # "none"
    <3>1. row # NoRow => row.reason \in Reasons
      BY <1>1 DEF HealthTypes, TickTypes, RowsKnown, Known, Row
    <3> QED BY <3>1, StatusType
  <2>6. row' = row /\ (row = NoRow \/ track'[i].snapshot = StatusOf(row.reason))
    BY <1>1, <1>2, <2>1, <2>3, AdoptDoes DEF stored
  <2> QED BY <2>1, <2>4, <2>5, <2>6 DEF Chained, Ended, FitsTable
<1>3. CASE ~Adopt(i)
  <2>1. Judged(i)
    BY <1>3, JudgedBefore
  <2>2. Chained(i) /\ (i \in owned => Ended(i))
    BY <1>1, <2>1 DEF Story
  <2>3. ~Commit(i) /\ ~CommitUnknown(i) => row' = row /\ lastEvent' = lastEvent
    BY <2>1, TablesAreOwn
  <2>4. CASE Commit(i) \/ CommitUnknown(i)
    <3>1. tick'[i].at \in {"idle", "sending"} /\ owned' = owned
      BY <1>1, <2>4, CommitDoes, CommitUnknownDoes, IdleWritesNothing DEF moving
    <3>2. i \in owned
      BY <3>1 DEF Judged, Has, Writer, Writing
    <3> QED BY <1>1, <2>1, <2>4, <3>2, CommittedStory
  <2>5. ASSUME ~Commit(i), ~CommitUnknown(i) PROVE Chained(i)' /\ (i \in owned' => Ended(i)')
    <3>1. row' = row /\ lastEvent' = lastEvent
      BY <2>3, <2>5
    <3>2. CASE Aside(i)
      BY <2>2, <3>1, <3>2, SameStory DEF Aside
    <3>3. CASE Apply(i)
      <4>1. pending'[i] = pending[i] /\ (i \in owned' => i \in owned /\ track'[i] = track[i])
        BY <1>1, <3>3, ApplyDoes
      <4> QED BY <2>2, <3>1, <4>1, SameStory
    <3>4. CASE Enter(i) \/ Upserted(i)
      <4>1. pending' = pending /\ track' = track /\ owned' = owned
        BY <1>1, <3>4, EnterDoes, UpsertedDoes DEF moving
      <4> QED BY <2>2, <3>1, <4>1, SameStory
    <3>5. CASE TickOver(i)
      <4>1. pending'[i] = pending[i] /\ track'[i].snapshot = track[i].snapshot /\ owned' = owned
        BY <1>1, <2>5, <3>5, OverDoes DEF moving
      <4> QED BY <2>2, <3>1, <4>1, SameStory
    <3>6. CASE Heard(i)
      <4>1. /\ pending' = pending /\ owned' = owned /\ i \in owned
            /\ track'[i].snapshot = track[i].snapshot
               \/ (track[i].snapshot = "none" /\ track'[i].snapshot = "unknown")
        BY <1>1, <3>6, HeardDoes DEF moving
      <4>2. CASE track'[i].snapshot = track[i].snapshot
        BY <2>2, <3>1, <4>1, <4>2, SameStory
      <4>3. CASE track[i].snapshot = "none" /\ track'[i].snapshot = "unknown"
        <5>1. row = NoRow /\ pending[i] = <<>>
          BY <2>2, <4>1, <4>3 DEF Ended
        <5>2. Unstored(i)' = {}
          BY <4>1, <5>1 DEF Unstored
        <5> QED BY <3>1, <4>1, <4>3, <5>1, <5>2 DEF Chained, Ended, FitsTable
      <4> QED BY <4>1, <4>2, <4>3
    <3>7. CASE Evaluate(i)
      BY <1>1, <2>2, <3>7, EvaluatedStory
    <3>8. CASE Crash(i)
      BY <1>1, <3>8, CrashDoes, IdleWritesNothing DEF Judged, Has, Writer, Writing
    <3> QED BY <1>1, <1>3, <2>5, <3>2, <3>3, <3>4, <3>5, <3>6, <3>7, <3>8, OwnStep
  <2> QED BY <2>4, <2>5
<1> QED BY <1>2, <1>3

(* What a transaction of who is judged commits goes on with the story.     *)
LEMMA StoryIsTold ==
  ASSUME HealthTypes, ~blind, NEW i \in Instances, i \notin leftover, Story(i),
         Commit(i) \/ CommitUnknown(i), NEW k \in NewEvents(i)
  PROVE  LET e == pending[i][k]
         IN IF k - 1 \in NewEvents(i) THEN Follows(e, pending[i][k - 1].kind)
            ELSE Follows(e, lastEvent) \/ row = NoRow \/ StatusOf(row.reason) = e.from
<1>1. tick[i].at = "inserting"
  BY DEF Commit, CommitUnknown
<1>2. tick[i].events /\ NewEvents(i) = Unstored(i)
  BY DEF NewEvents, Unstored
<1>3. Chained(i)
  BY <1>1, <1>2 DEF Story, Judged, Writer, Writing
<1> QED BY <1>2, <1>3 DEF Chained, FitsTable, Fit, Follows

-------------------------------------------------------------------------------
(* The theorems. *)

LEMMA HealthStep == ASSUME HealthInv, [Next]_vars PROVE HealthInv'
<1>1. CASE Next
  <2>1. HandoverInv /\ HandoverInv' /\ HealthTypes
    BY <1>1, HandoverStep DEF HealthInv, HandoverInv
  <2>2. ASSUME NEW i \in Instances
        PROVE  Offered(i)' /\ Prefix(i)' /\ Story(i)' /\ ReadTrue(i)' /\ Guess(i)'
    <3>1. Offered(i) /\ Prefix(i) /\ Story(i) /\ ReadTrue(i) /\ Guess(i)
      BY DEF HealthInv
    <3> QED BY <1>1, <2>1, <3>1, OfferedStep, PrefixStep, StoryStep, ReadTrueStep, GuessStep
  <2> QED BY <2>1, <2>2 DEF HealthInv
<1>2. CASE UNCHANGED vars
  <2> USE <1>2 DEF vars, group, moving, stored
  <2>1. HealthTypes' <=> HealthTypes
    BY DEF HealthTypes, GroupTypes, QueueTypes, MovingTypes, TrackTypes, EventTypes, TickTypes,
           RowsKnown, Known
  <2>2. ASSUME NEW j \in Instances
        PROVE  /\ QueueInv(j)' <=> QueueInv(j)
               /\ Has(j)' <=> Has(j)
               /\ HasRead(j)' <=> HasRead(j)
               /\ Writing(j)' <=> Writing(j)
    BY DEF QueueInv, Last, Has, HasRead, Continues, Writing
  <2>3. HandoverInv'
    BY <2>1, <2>2 DEF HealthInv, HandoverInv, Alone, Safe, Writer, ReadingQuiet, Quiet, Honest
  <2>4. ASSUME NEW i \in Instances
        PROVE  Offered(i)' /\ Prefix(i)' /\ Story(i)' /\ ReadTrue(i)' /\ Guess(i)'
    <3>1. Offered(i) /\ Prefix(i) /\ Story(i) /\ ReadTrue(i) /\ Guess(i)
      BY DEF HealthInv
    <3>2. Offered(i)' /\ Prefix(i)'
      BY <3>1 DEF Offered, Ahead, Prefix
    <3>3. ReadTrue(i)' /\ Guess(i)'
      BY <2>2, <3>1 DEF ReadTrue, Guess, Loud, Ahead, WritesState
    <3>4. Chained(i)' <=> Chained(i)
      BY DEF Chained, Unstored, FitsTable
    <3>5. Ended(i)' <=> Ended(i)
      BY DEF Ended, Unstored, FitsTable
    <3> QED BY <2>2, <3>1, <3>2, <3>3, <3>4, <3>5 DEF Story, Judged, Writer
  <2> QED BY <2>3, <2>4 DEF HealthInv
<1> QED BY <1>1, <1>2

LEMMA HealthInit == Init => HealthInv
<1> SUFFICES ASSUME Init PROVE HealthInv
  OBVIOUS
<1>1. <<>> \in Seq(Assignment) /\ <<>> \in Seq(Event)
  OBVIOUS
<1>2. NotReading \in Restoring /\ IdleTick \in Turn /\ Known(NotReading.row) /\ Known(IdleTick.offer)
  BY NoRowIsRow DEF NotReading, IdleTick, Restoring, Turn, Places
<1>3. HealthTypes
  <2>1. GroupTypes
    BY HealthAssumption DEF Init, GroupTypes
  <2>2. QueueTypes
    BY <1>1 DEF Init, QueueTypes
  <2>3. MovingTypes
    BY <1>2 DEF Init, MovingTypes
  <2>4. TrackTypes
    BY FreshIsTrack DEF Init, TrackTypes
  <2>5. EventTypes
    BY <1>1 DEF Init, EventTypes
  <2>6. TickTypes
    BY <1>2, NoRowIsRow DEF Init, TickTypes
  <2>7. RowsKnown
    BY <1>2, NoRowIsRow DEF Init, RowsKnown
  <2> QED BY <2>1, <2>2, <2>3, <2>4, <2>5, <2>6, <2>7 DEF HealthTypes
<1>4. \A j \in Instances : queue[j] = <<>> /\ j \notin owned /\ reading[j].at = "no"
  BY DEF Init, NotReading
<1>5. \A j \in Instances : QueueInv(j) /\ ~Has(j) /\ ~HasRead(j)
  BY <1>4 DEF QueueInv, Has, HasRead
<1>6. \A j \in Instances : tick[j] = IdleTick /\ pending[j] = <<>> /\ ~Writing(j) /\ ~Ahead(j)
  BY IdleWritesNothing DEF Init, Writing, Ahead
<1>7. Honest(row) /\ \A j \in Instances : Honest(tick[j].offer) /\ ~track[j].quiet
  BY <1>6, IdleWritesNothing, FreshFields DEF Init, Honest
<1>8. HandoverInv
  BY <1>3, <1>5, <1>6, <1>7 DEF HandoverInv, Alone, Writer, ReadingQuiet, Quiet
<1>9. \A j \in Instances : Offered(j) /\ Prefix(j) /\ Story(j) /\ ReadTrue(j) /\ Guess(j)
  BY <1>5, <1>6 DEF Offered, Prefix, Story, Judged, Writer, ReadTrue, Guess
<1> QED BY <1>8, <1>9 DEF HealthInv

(* A row written in the sight of an owner who has read it would have been  *)
(* in a transaction beside a safe instance.                                *)
LEMMA ReaderIsLast ==
  ASSUME HealthInv, [Next]_vars, ~blind, NEW i \in Instances, NEW j \in Instances, i # j, Writing(i),
         row' # row, tick'[i] # tick[i], j = owner, Len(queue[j]) <= 1
  PROVE  j \notin owned /\ reading[j].at # "read"
<1>1. HealthTypes /\ QueueInv(j) /\ Alone /\ Next
  BY DEF HealthInv, HandoverInv, vars, stored
<1>2. WritesState(i)
  <2>1. PICK k \in Instances : (Commit(k) \/ CommitUnknown(k)) /\ Stored(k)
    BY <1>1, StoredBy DEF stored
  <2>2. k = i
    BY <1>1, <2>1 DEF Commit, CommitUnknown, HealthTypes, TickTypes
  <2>3. tick[i].offer # NoRow
    BY <2>1, <2>2 DEF Commit, CommitUnknown, Stored
  <2> QED BY <2>3 DEF WritesState
<1>3. ~Safe(j)
  BY <1>1, <1>2 DEF Alone, Writer, WritesState
<1>4. Len(queue[j]) \in Nat /\ DOMAIN queue[j] = 1..Len(queue[j]) /\ (queue[j] # <<>> <=> Len(queue[j]) > 0)
  BY <1>1, QueueOf
<1>5. reading[j].at # "read"
  <2>1. Continues(j, 1)
    BY <1>4 DEF Continues
  <2> QED BY <1>3, <2>1 DEF Safe, HasRead
<1>6. j \notin owned
  <2>1. SUFFICES ASSUME j \in owned PROVE Continues(j, 0)
    BY <1>3 DEF Safe, Has
  <2>2. SUFFICES ASSUME NEW k \in DOMAIN queue[j], j \in members
                 PROVE  queue[j][k].mine /\ queue[j][k].same
    BY <1>4 DEF Continues
  <2>3. k = 1 /\ Len(queue[j]) = 1 /\ queue[j] # <<>>
    <3>1. Len(queue[j]) \in Nat /\ Len(queue[j]) <= 1 /\ k \in 1..Len(queue[j])
      BY <1>4
    <3> DEFINE n == Len(queue[j])
    <3>2. n \in Nat /\ n <= 1 /\ k \in 1..n
      BY <3>1
    <3>3. k = 1 /\ n = 1
      <4> HIDE DEF n
      <4> QED BY ONLY <3>2
    <3> QED BY <1>4, <3>3
  <2>4. queue[j][1].mine
    BY <1>1, <2>2, <2>3 DEF QueueInv, Last
  <2> QED BY <1>1, <2>1, <2>3, <2>4 DEF QueueInv
<1> QED BY <1>5, <1>6

(* A handover is clean: the row the new owner has read, or that of a       *)
(* device it kept, is written by nobody else, whatever rebalances, leaves, *)
(* crashes and failed calls come in between (HealthService.tick and        *)
(* readRestored of assignment.ts with their advisory lock).                *)
THEOREM HandoversAreClean == Spec => HandoverIsClean
<1>1. HealthInv /\ [Next]_vars =>
        [\A i, j \in Instances :
           /\ ~blind
           /\ i # j /\ Writing(i) /\ row' # row /\ tick'[i] # tick[i]
           /\ j = owner /\ Len(queue[j]) <= 1
           => j \notin owned /\ reading[j].at # "read"]_vars
  BY ReaderIsLast
<1>2. HealthInv => TypeOK
  BY TypesMeanTypeOK DEF HealthInv, HandoverInv
<1> QED BY <1>1, <1>2, HealthInit, HealthStep, PTL DEF Spec, HandoverIsClean, ReaderIsLastWriter

(* Nobody who has the device covers the state of one that has answered with *)
(* the guess of a start, whatever it could not read and whatever rebalances *)
(* and failed calls come in between (HealthTracker.restore and evaluate,   *)
(* HealthService.tick).                                                    *)
THEOREM GuessesNeverCover == Spec => GuessNeverCovers
<1>1. HealthInv /\ [Next]_vars =>
        [\A i \in Instances :
           /\ i \in owned /\ queue[i] = <<>> /\ i \notin leftover
           /\ Writing(i) /\ tick'[i] # tick[i] /\ row.everOk
           => row'.reason # "startup_grace"]_vars
  <2> SUFFICES ASSUME HealthInv, Next, NEW i \in Instances, i \in owned, queue[i] = <<>>, i \notin leftover,
                      Writing(i), tick'[i] # tick[i], row.everOk
               PROVE  row'.reason # "startup_grace"
    BY DEF vars
  <2>1. HandoverInv /\ Guess(i)
    BY DEF HealthInv
  <2> QED BY <2>1, GuessIsKept
<1> QED BY <1>1, HealthInit, HealthStep, PTL DEF Spec, GuessNeverCovers

(* The events of a device in the table tell one story, each from where the *)
(* one before it or the row has left the device, over any number of        *)
(* handovers, crashes and commits whose answer was lost                    *)
(* (detectDeviceEvents, insertDeviceEvents and HealthService.tick).        *)
THEOREM EventsTellOneStory == Spec => NoFalseEvent
<1>1. HealthInv /\ [Next]_vars =>
        [\A i \in Instances :
           ~blind /\ i \notin leftover /\ (Commit(i) \/ CommitUnknown(i)) =>
             \A k \in NewEvents(i) :
               LET e == pending[i][k]
               IN IF k - 1 \in NewEvents(i) THEN Follows(e, pending[i][k - 1].kind)
                  ELSE Follows(e, lastEvent) \/ row = NoRow \/ StatusOf(row.reason) = e.from]_vars
  <2> SUFFICES ASSUME HealthInv, NEW i \in Instances, ~blind, i \notin leftover,
                      Commit(i) \/ CommitUnknown(i), NEW k \in NewEvents(i)
               PROVE  LET e == pending[i][k]
                      IN IF k - 1 \in NewEvents(i) THEN Follows(e, pending[i][k - 1].kind)
                         ELSE Follows(e, lastEvent) \/ row = NoRow \/ StatusOf(row.reason) = e.from
    OBVIOUS
  <2>1. HealthTypes /\ Story(i)
    BY DEF HealthInv, HandoverInv
  <2> QED BY <2>1, StoryIsTold
<1> QED BY <1>1, HealthInit, HealthStep, PTL DEF Spec, NoFalseEvent
===============================================================================
