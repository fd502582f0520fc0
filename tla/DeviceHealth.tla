----------------------------- MODULE DeviceHealth -----------------------------
(***************************************************************************)
(* The health of one device in stream-processor and its handover between   *)
(* instances: the tracker judges the device from its poll cycles, a timer  *)
(* writes a changed state to core.device_state under a shared advisory     *)
(* lock and then publishes it in device.state.v1, and the instance that    *)
(* gets the partition reads the row under the exclusive lock.              *)
(*                                                                         *)
(* Time is abstract: a success grows stale and a window of startup_grace   *)
(* ends between any two ticks, which are all that see it.  The mode of the *)
(* device, the doors in its frames and the order of states in the topic    *)
(* are left out.  A rebalance stops every member before it assigns the     *)
(* partition anew; members that miss it are those of module Ingest.        *)
(*                                                                         *)
(* Sources: health/tracker.ts, health/health.service.ts,                   *)
(* ingest/assignment.ts, ingest/ingest-consumer.service.ts,                *)
(* packages/domain health.ts and events.ts, packages/db state.ts.          *)
(***************************************************************************)
EXTENDS Integers, Sequences, FiniteSets

CONSTANTS
  Instances,      \* processes of stream-processor
  None,           \* no instance
  OfflineAfter,   \* offlineAfterErrors
  Disturbances,   \* what may happen to the group in this instance of the model
  MaxRebalances,  \* bound: disturbances of the group after its first assignment
  Faults,         \* kinds of failed calls in this instance of the model
  MaxFaults       \* bound: failed calls in a behaviour

FaultKinds == {"write", "unknown", "send", "restore"}
DisturbanceKinds == {"rebalance", "leave", "crash"}

ASSUME HealthAssumption ==
  /\ None \notin Instances
  /\ OfflineAfter \in Nat \ {0}
  /\ MaxRebalances \in Nat /\ MaxFaults \in Nat
  /\ Faults \subseteq FaultKinds /\ Disturbances \subseteq DisturbanceKinds

VARIABLES
  members,     \* instances in the group
  owner,       \* the member the partition is assigned to
  announced,   \* instances that know of the rebalance in progress
  queue,       \* assignments each instance has not applied to the end
  reading,     \* the restoring of the device: where it is and the row it read
  owned,       \* instances whose tracker owns the device
  track,       \* the tracks
  pending,     \* pendingEvents of each instance
  tick,        \* where the tick of each instance is and the state it offers
  row,         \* core.device_state
  lastEvent,   \* the last event of core.device_events about the status
  blind,       \* history: somebody has adopted the device without its row
  leftover,    \* history: whose tick or pendingEvents were older than the adoption
  rebalances,  \* disturbances so far, only bounds the model
  faults       \* failed calls so far, only bounds the model

group == <<members, owner, announced, rebalances>>
moving == <<queue, reading, owned, blind, leftover>>
stored == <<row, lastEvent>>
vars == <<group, moving, track, pending, tick, stored, faults>>

-------------------------------------------------------------------------------
(* The verdict on a device.  The reason of a state determines its status,  *)
(* so it stands for the signature of the state as well.                    *)

Reasons == {"startup_grace", "no_data", "awaiting_success", "consecutive_errors",
            "stale", "ok"}

StatusOf(reason) ==
  CASE reason = "ok" -> "online"
    [] reason = "stale" -> "degraded"
    [] reason = "consecutive_errors" -> "offline"
    [] reason \in {"startup_grace", "no_data", "awaiting_success"} -> "unknown"

(* ok is the last success, "never", "recent" or "old"; grace, the window of *)
(* startup_grace of a device that has not answered, runs; snapshot is the   *)
(* status that events are compared with; published the last signature.     *)
Track == [ok: {"never", "recent", "old"}, errors: 0..OfflineAfter, grace: BOOLEAN,
          quiet: BOOLEAN,
          snapshot: {"none", "unknown", "online", "degraded", "offline"},
          published: Reasons \cup {"none"}]

freshTrack == [ok |-> "never", errors |-> 0, grace |-> TRUE, quiet |-> FALSE,
               snapshot |-> "none", published |-> "none"]

(* Mutant: the guess of a blind start is published. *)
blindTrackLoud == freshTrack

(* The row could not be read: silence until the device is known. *)
blindTrack == [freshTrack EXCEPT !.quiet = TRUE]

(* The track of a row.  A row is written when the reason changes, so its    *)
(* last success is old for a device that is online, which counts as         *)
(* confirmed now; one that is offline may have succeeded a while ago.       *)
restoredTracks(r) ==
  LET oks == CASE r.reason = "ok" -> {"recent"}
               [] r.reason # "ok" /\ ~r.everOk -> {"never"}
               [] r.reason = "stale" -> {"old"}
               [] r.reason # "ok" /\ r.reason # "stale" /\ r.everOk -> {"recent", "old"}
  IN {[ok |-> ok, errors |-> r.errors, grace |-> g /\ ok = "never", quiet |-> FALSE,
       snapshot |-> StatusOf(r.reason), published |-> r.reason] :
         ok \in oks, g \in BOOLEAN}

deviceVerdict(t) ==
  IF t.ok = "never"
  THEN IF t.grace THEN "startup_grace"
       ELSE IF t.errors = OfflineAfter THEN "consecutive_errors"
       ELSE IF t.errors > 0 THEN "awaiting_success" ELSE "no_data"
  ELSE IF t.errors = OfflineAfter THEN "consecutive_errors"
       ELSE IF t.ok = "old" THEN "stale" ELSE "ok"

(* detectDeviceEvents for the status. *)
detectDeviceEvents(from, to) ==
  IF from \notin {"none", "offline"} /\ to = "offline"
  THEN <<[kind |-> "went_offline", from |-> from, stored |-> FALSE]>>
  ELSE IF from \notin {"none", "online"} /\ to = "online"
       THEN <<[kind |-> "came_online", from |-> from, stored |-> FALSE]>>
       ELSE <<>>

-------------------------------------------------------------------------------
NoRow == [reason |-> "none", everOk |-> FALSE, errors |-> 0]
IdleTick == [at |-> "idle", offer |-> NoRow, events |-> FALSE]
NotReading == [at |-> "no", row |-> NoRow]

Init ==
  /\ members = {} /\ owner = None
  /\ announced = {}
  /\ queue = [i \in Instances |-> <<>>]
  /\ reading = [i \in Instances |-> NotReading]
  /\ owned = {}
  /\ track = [i \in Instances |-> freshTrack]
  /\ pending = [i \in Instances |-> <<>>]
  /\ tick = [i \in Instances |-> IdleTick]
  /\ row = NoRow /\ lastEvent = "none"
  /\ blind = FALSE /\ leftover = {}
  /\ rebalances = 0 /\ faults = 0

Fault(kind) ==
  /\ kind \in Faults
  /\ faults < MaxFaults
  /\ faults' = faults + 1

Disturbance(kind) ==
  /\ kind \in Disturbances
  /\ rebalances < MaxRebalances
  /\ rebalances' = rebalances + 1

-------------------------------------------------------------------------------
(* The group and the queue of handovers. *)

Abandoned == owner \notin members

(* Somebody joins, or the session of a dead member runs out: a first member *)
(* learns of the rebalance from its heartbeat.                             *)
BeginRebalance(i) ==
  /\ i \in members /\ announced = {} /\ ~Abandoned
  /\ Disturbance("rebalance")
  /\ announced' = {i}
  /\ UNCHANGED <<members, owner, moving, track, pending, tick, stored, faults>>

Announce(i) ==
  /\ i \in members \ announced
  /\ announced # {} \/ Abandoned
  /\ announced' = announced \cup {i}
  /\ UNCHANGED <<members, owner, rebalances, moving, track, pending, tick, stored, faults>>

(* Every member has stopped: the coordinator assigns the partition, and    *)
(* each one queues what it got.  A process that was out of the group comes *)
(* back under another member id.                                           *)
Rebalance ==
  /\ members \subseteq announced
  /\ announced # {} \/ Abandoned
  /\ \E joined \in SUBSET Instances :
       /\ joined # {} /\ members \subseteq joined
       /\ members' = joined
       /\ owner' \in joined
       /\ queue' = [i \in Instances |->
                      IF i \in joined
                      THEN Append(queue[i], [mine |-> owner' = i, same |-> i \in members])
                      ELSE queue[i]]
  /\ announced' = {}
  /\ UNCHANGED <<rebalances, reading, owned, blind, leftover, track, pending, tick, stored, faults>>

(* settling() of the queue of handovers, held() of the health service. *)
Held(i) == i \in announced \/ queue[i] # <<>>

(* release: what was known of the device is forgotten. *)
Released(i) ==
  /\ owned' = owned \ {i}
  /\ track' = [track EXCEPT ![i] = freshTrack]

(* apply: the device is released if it is not kept; if it is a new one the *)
(* queue waits for its state.                                              *)
Apply(i) ==
  LET h == Head(queue[i])
      kept == i \in owned /\ h.same
  IN /\ queue[i] # <<>> /\ reading[i] = NotReading
     /\ IF kept /\ h.mine THEN UNCHANGED <<owned, track>> ELSE Released(i)
     /\ IF h.mine /\ ~kept
        THEN reading' = [reading EXCEPT ![i].at = "reading"] /\ UNCHANGED queue
        ELSE queue' = [queue EXCEPT ![i] = Tail(@)] /\ UNCHANGED reading
     /\ UNCHANGED <<group, blind, leftover, pending, tick, stored, faults>>

(* The tick is between its shared lock and the end of its transaction. *)
Writing(i) == tick[i].at \in {"upserting", "inserting"}

(* Mutant: the row is read without the lock. *)
ReadUnlocked(i) ==
  /\ reading[i].at = "reading"
  /\ reading' = [reading EXCEPT ![i] = [at |-> "read", row |-> row]]
  /\ UNCHANGED <<group, queue, owned, blind, leftover, track, pending, tick, stored, faults>>

(* readRestored: the exclusive lock waits for the writers that hold the     *)
(* shared one.                                                             *)
Read(i) ==
  /\ reading[i].at = "reading"
  /\ \A j \in Instances : ~Writing(j)
  /\ reading' = [reading EXCEPT ![i] = [at |-> "read", row |-> row]]
  /\ UNCHANGED <<group, queue, owned, blind, leftover, track, pending, tick, stored, faults>>

(* A tick that waits for its lock and the events that wait for a tick      *)
(* survive a release, and a device that comes back is taken for their own. *)
Adopted(i, t) ==
  /\ leftover' = IF tick[i] = IdleTick /\ pending[i] = <<>> THEN leftover \ {i} ELSE leftover \cup {i}
  /\ track' = [track EXCEPT ![i] = t]
  /\ owned' = owned \cup {i}
  /\ reading' = [reading EXCEPT ![i] = NotReading]
  /\ queue' = [queue EXCEPT ![i] = Tail(@)]
  /\ UNCHANGED <<group, pending, tick, stored>>

Adopt(i) ==
  /\ reading[i].at = "read"
  /\ IF reading[i].row = NoRow THEN Adopted(i, freshTrack)
     ELSE \E t \in restoredTracks(reading[i].row) : Adopted(i, t)
  /\ UNCHANGED <<blind, faults>>

(* Every attempt to read has failed. *)
AdoptBlind(i) ==
  /\ reading[i].at = "reading"
  /\ Fault("restore")
  /\ Adopted(i, blindTrack)
  /\ blind' = TRUE

-------------------------------------------------------------------------------
(* What happens to the device. *)

(* observeCycle: a poll that succeeded, or one more that did not. *)
Observed(t) ==
  {[t EXCEPT !.ok = "recent", !.errors = 0, !.grace = FALSE]}
    \cup (IF t.errors < OfflineAfter THEN {[t EXCEPT !.errors = @ + 1]} ELSE {})

(* A batch of cycles; it waits for the queue of handovers.  Its rows are    *)
(* written first, and the cycles of a batch that comes again are counted   *)
(* again; one that is not written yet only comes later.                    *)
Observe(i) ==
  /\ i \in owned /\ queue[i] = <<>>
  /\ \E t \in Observed(track[i]) : track' = [track EXCEPT ![i] = t]
  /\ UNCHANGED <<group, moving, pending, tick, stored, faults>>

(* The first frame of a device whose track has no snapshot yet. *)
Frame(i) ==
  /\ i \in owned /\ queue[i] = <<>>
  /\ track[i].snapshot = "none"
  /\ track' = [track EXCEPT ![i].snapshot = "unknown"]
  /\ UNCHANGED <<group, moving, pending, tick, stored, faults>>

(* staleAfterMs or startupGraceMs has passed. *)
TimePasses(i) ==
  /\ i \in owned /\ ~Held(i) /\ tick[i] = IdleTick
  /\ \/ track[i].ok = "recent" /\ track' = [track EXCEPT ![i].ok = "old"]
     \/ track[i].grace /\ track' = [track EXCEPT ![i].grace = FALSE]
  /\ UNCHANGED <<group, moving, pending, tick, stored, faults>>

-------------------------------------------------------------------------------
(* The tick of the health service. *)

Offer(t) ==
  [reason |-> deviceVerdict(t), everOk |-> t.ok # "never", errors |-> t.errors]

(* Mutant: a state counts as published when it is offered. *)
EvaluateConfirms(i) ==
  LET t == track[i]
      r == deviceVerdict(t)
      silent == i \notin owned \/ (t.quiet /\ r = "startup_grace")
      from == IF t.quiet /\ t.snapshot # "none" THEN StatusOf(r) ELSE t.snapshot
      events == IF silent THEN <<>> ELSE detectDeviceEvents(from, StatusOf(r))
      changed == ~silent /\ r # t.published
  IN /\ tick[i].at = "idle" /\ ~Held(i)
     /\ track' = IF silent THEN track
                 ELSE [track EXCEPT ![i].snapshot = StatusOf(r), ![i].quiet = FALSE,
                                  ![i].published = r]
     /\ pending' = [pending EXCEPT ![i] = @ \o events]
     /\ tick' = IF changed \/ pending'[i] # <<>>
                THEN [tick EXCEPT ![i].at = "locking",
                                  ![i].offer = IF changed THEN Offer(t) ELSE NoRow]
                ELSE tick
     /\ UNCHANGED <<group, moving, stored, faults>>

(* evaluate: a track that is quiet says nothing during its grace, and the   *)
(* status it finds afterwards is not a transition.                         *)
Evaluate(i) ==
  LET t == track[i]
      r == deviceVerdict(t)
      silent == i \notin owned \/ (t.quiet /\ r = "startup_grace")
      from == IF t.quiet /\ t.snapshot # "none" THEN StatusOf(r) ELSE t.snapshot
      events == IF silent THEN <<>> ELSE detectDeviceEvents(from, StatusOf(r))
      changed == ~silent /\ r # t.published
  IN /\ tick[i].at = "idle" /\ ~Held(i)
     /\ track' = IF silent THEN track
                 ELSE [track EXCEPT ![i].snapshot = StatusOf(r), ![i].quiet = FALSE]
     /\ pending' = [pending EXCEPT ![i] = @ \o events]
     /\ tick' = IF changed \/ pending'[i] # <<>>
                THEN [tick EXCEPT ![i].at = "locking",
                                  ![i].offer = IF changed THEN Offer(t) ELSE NoRow]
                ELSE tick
     /\ UNCHANGED <<group, moving, stored, faults>>

(* The shared lock is there; under it the tick looks whether a rebalance    *)
(* has begun and whether the device is still its own.                      *)
Enter(i) ==
  /\ tick[i].at = "locking"
  /\ tick' = [tick EXCEPT ![i] =
                IF Held(i) THEN IdleTick
                ELSE [at |-> "upserting", events |-> FALSE,
                      offer |-> IF i \in owned THEN @.offer ELSE NoRow]]
  /\ UNCHANGED <<group, moving, track, pending, stored, faults>>

(* The transaction holds the row of the device. *)
RowLocked(i) == tick[i].at = "inserting" /\ tick[i].offer # NoRow

(* upsertDeviceStates is done; the events of a device that is not its own   *)
(* any more are left out of insertDeviceEvents.                            *)
Upserted(i) ==
  /\ tick[i].at = "upserting"
  /\ tick[i].offer = NoRow \/ \A j \in Instances : ~RowLocked(j)
  /\ tick' = [tick EXCEPT ![i].at = "inserting", ![i].events = i \in owned]
  /\ UNCHANGED <<group, moving, track, pending, stored, faults>>

(* The places in pendingEvents of those the table does not have yet; what  *)
(* it has comes before them.                                               *)
NewEvents(i) ==
  IF tick[i].events THEN {k \in DOMAIN pending[i] : ~pending[i][k].stored} ELSE {}

Stored(i) ==
  /\ row' = IF tick[i].offer = NoRow THEN row ELSE tick[i].offer
  /\ lastEvent' = IF NewEvents(i) = {} THEN lastEvent ELSE pending[i][Len(pending[i])].kind

(* Mutant: the written events stay in pendingEvents. *)
CommitKeepsEvents(i) ==
  /\ tick[i].at = "inserting"
  /\ Stored(i)
  /\ tick' = [tick EXCEPT ![i].at = "sending"]
  /\ UNCHANGED <<group, moving, track, pending, faults>>

Commit(i) ==
  /\ tick[i].at = "inserting"
  /\ Stored(i)
  /\ pending' = [pending EXCEPT ![i] = <<>>]
  /\ tick' = [tick EXCEPT ![i].at = "sending"]
  /\ UNCHANGED <<group, moving, track, faults>>

(* The transaction fails; the events stay for the next tick. *)
WriteFails(i) ==
  /\ Writing(i)
  /\ Fault("write")
  /\ tick' = [tick EXCEPT ![i] = IdleTick]
  /\ UNCHANGED <<group, moving, track, pending, stored>>

Marked(events) == [k \in DOMAIN events |-> [events[k] EXCEPT !.stored = TRUE]]

(* COMMIT succeeded, but its answer was lost. *)
CommitUnknown(i) ==
  /\ tick[i].at = "inserting"
  /\ Fault("unknown")
  /\ Stored(i)
  /\ pending' = IF tick[i].events THEN [pending EXCEPT ![i] = Marked(pending[i])]
                ELSE pending
  /\ tick' = [tick EXCEPT ![i] = IdleTick]
  /\ UNCHANGED <<group, moving, track>>

(* The publication and confirmPublished. *)
Send(i) ==
  /\ tick[i].at = "sending"
  /\ track' = IF tick[i].offer # NoRow /\ i \in owned
              THEN [track EXCEPT ![i].published = tick[i].offer.reason]
              ELSE track
  /\ tick' = [tick EXCEPT ![i] = IdleTick]
  /\ UNCHANGED <<group, moving, pending, stored, faults>>

SendFails(i) ==
  /\ tick[i].at = "sending"
  /\ Fault("send")
  /\ tick' = [tick EXCEPT ![i] = IdleTick]
  /\ UNCHANGED <<group, moving, track, pending, stored>>

(* The process dies: its transaction is rolled back, its memory is gone. *)
Crash(i) ==
  /\ i \in members
  /\ Disturbance("crash")
  /\ members' = members \ {i}
  /\ announced' = announced \ {i}
  /\ owned' = owned \ {i}
  /\ queue' = [queue EXCEPT ![i] = <<>>]
  /\ reading' = [reading EXCEPT ![i] = NotReading]
  /\ track' = [track EXCEPT ![i] = freshTrack]
  /\ pending' = [pending EXCEPT ![i] = <<>>]
  /\ tick' = [tick EXCEPT ![i] = IdleTick]
  /\ leftover' = leftover \ {i}
  /\ UNCHANGED <<owner, blind, stored, faults>>

(* The consumer of an instance crashes or stops: it is out of the group,    *)
(* queues the revocation of all it has, and its process lives on.          *)
Leave(i) ==
  /\ i \in members
  /\ Disturbance("leave")
  /\ members' = members \ {i}
  /\ announced' = announced \ {i}
  /\ queue' = [queue EXCEPT ![i] = Append(@, [mine |-> FALSE, same |-> FALSE])]
  /\ UNCHANGED <<owner, reading, owned, blind, leftover, track, pending, tick, stored, faults>>

-------------------------------------------------------------------------------
Handover(i) == Announce(i) \/ Apply(i) \/ Read(i) \/ Adopt(i)
Tick(i) == Evaluate(i) \/ Enter(i) \/ Upserted(i) \/ Commit(i) \/ Send(i)

Next ==
  \/ Rebalance
  \/ \E i \in Instances :
       \/ Handover(i) \/ Tick(i) \/ Observe(i) \/ Frame(i) \/ TimePasses(i)
       \/ BeginRebalance(i) \/ Leave(i) \/ Crash(i)
       \/ AdoptBlind(i) \/ WriteFails(i) \/ CommitUnknown(i) \/ SendFails(i)

Spec == Init /\ [][Next]_vars

(* A rebalance that has begun ends, and what a process has queued it does,  *)
(* however its calls fail.                                                 *)
Fairness ==
  /\ WF_vars(Rebalance)
  /\ \A i \in Instances : WF_vars(Handover(i)) /\ WF_vars(Tick(i))
FairSpec == Spec /\ Fairness

-------------------------------------------------------------------------------
(* Properties. *)

Row == [reason: Reasons \cup {"none"}, everOk: BOOLEAN, errors: 0..OfflineAfter]
Event == [kind: {"went_offline", "came_online"},
          from: {"unknown", "online", "degraded", "offline"}, stored: BOOLEAN]

TypeOK ==
  /\ members \subseteq Instances /\ announced \subseteq members
  /\ owner \in Instances \cup {None}
  /\ queue \in [Instances -> Seq([mine: BOOLEAN, same: BOOLEAN])]
  /\ reading \in [Instances -> [at: {"no", "reading", "read"}, row: Row]]
  /\ owned \subseteq Instances
  /\ track \in [Instances -> Track]
  /\ pending \in [Instances -> Seq(Event)]
  /\ tick \in [Instances -> [at: {"idle", "locking", "upserting", "inserting", "sending"},
                          offer: Row, events: BOOLEAN]]
  /\ row \in Row
  /\ lastEvent \in {"none", "went_offline", "came_online"}
  /\ blind \in BOOLEAN /\ leftover \subseteq Instances
  /\ rebalances \in 0..MaxRebalances /\ faults \in 0..MaxFaults

(* From the moment the new owner has read the row of the device nobody else *)
(* changes it: it "does not miss a write already in progress" (comment of  *)
(* HealthService).  A start that could not read the row had no lock.       *)
ReaderIsLastWriter ==
  [][\A i, j \in Instances :
       /\ ~blind
       /\ i # j /\ Writing(i) /\ row' # row /\ tick'[i] # tick[i]
       /\ j = owner /\ Len(queue[j]) <= 1
       => j \notin owned /\ reading[j].at # "read"]_vars

(* Who has the device and nothing to apply never covers the state of one   *)
(* that has answered before with the guess of a start, not even if it could *)
(* not read the row (ARCHITECTURE.md on a handover without the database),  *)
(* unless its tick is older than its adoption.                             *)
GuessNeverCovers ==
  [][\A i \in Instances :
       /\ i \in owned /\ queue[i] = <<>> /\ i \notin leftover
       /\ Writing(i) /\ tick'[i] # tick[i] /\ row.everOk
       => row'.reason # "startup_grace"]_vars

(* An event from online or offline comes after the one that went there.    *)
Follows(e, last) ==
  /\ e.from = "online" => last = "came_online"
  /\ e.from = "offline" => last = "went_offline"

(* No event of a transition that was not one and none twice: a device goes  *)
(* offline from online and comes back from offline only if the story so    *)
(* far has it there ("a restored device gives no false events",            *)
(* ARCHITECTURE.md).  Events older than the adoption are none of its story. *)
NoFalseEvent ==
  [][\A i \in Instances :
       ~blind /\ i \notin leftover /\ (Commit(i) \/ CommitUnknown(i)) =>
         \A k \in NewEvents(i) :
           LET e == pending[i][k]
           IN IF k - 1 \in NewEvents(i) THEN Follows(e, pending[i][k - 1].kind)
              ELSE Follows(e, lastEvent) \/ row = NoRow \/ StatusOf(row.reason) = e.from]_vars

Working(i) == i \in owned /\ ~Held(i) /\ ~track[i].quiet

(* What the owner knows of its device reaches the table, unless it changes  *)
(* for ever: "a failure loses neither the state nor the events, they go     *)
(* with the next check" (health.service.ts:24).  The code keeps it for a    *)
(* write that fails, and breaks it when the row is committed and its        *)
(* publication fails: if the device is back in the state published last at *)
(* the next check, nothing has changed for the tracker.                    *)
StateReachesTable ==
  \A i \in Instances :
    \/ []<>(Working(i) => row.reason = deviceVerdict(track[i]))
    \/ []<><<deviceVerdict(track'[i]) # deviceVerdict(track[i])>>_vars

(* A handover is clean: the row the new owner has read is not written by   *)
(* anybody else any more.                                                  *)
HandoverIsClean == []TypeOK /\ ReaderIsLastWriter
===============================================================================
