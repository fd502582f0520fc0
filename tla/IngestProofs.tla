----------------------------- MODULE IngestProofs -----------------------------
(***************************************************************************)
(* Proofs about Ingest for every set of instances, log bound, batch bound  *)
(* and choice of faults: types, durability of confirmed messages, and that *)
(* a published alarm event has its row; and, while processes crash and     *)
(* calls fail, that the episodes are sound, debounced and closed for a     *)
(* reason.                                                                 *)
(***************************************************************************)
EXTENDS Ingest, FiniteSetTheorems, TLAPS

USE SetpointAssumption, FrameAssumption

(* The alarm engine maps memories to memories: evaluateDeviceAlarms.       *)
LEMMA AlarmMemoryClosed ==
  ASSUME NEW m \in AlarmMemory, NEW ruled \in BOOLEAN,
         NEW v \in Int \cup {NoValue}, NEW at \in Nat
  PROVE  EvaluateAlarm(m, ruled, v, at) \in AlarmMemory
  <1>1. CASE ~ruled \/ v = NoValue
    BY <1>1 DEF EvaluateAlarm, Raises, IdleAlarm, AlarmMemory, Boundary
  <1>2. CASE ruled /\ v # NoValue
    <2>1. v \in Int
      BY <1>2
    <2>2. DetectViolation(v) \in Boundary
      BY <2>1, SetpointAssumption DEF DetectViolation, Boundary
    <2>3. CyclesAfter(m, v) \in Nat
      BY DEF CyclesAfter, AlarmMemory
    <2>4. /\ IdleAlarm \in AlarmMemory
          /\ RaisedAlarm(DetectViolation(v), at) \in AlarmMemory
          /\ PendingAlarm(DetectViolation(v), CyclesAfter(m, v)) \in AlarmMemory
      BY <2>2, <2>3 DEF IdleAlarm, RaisedAlarm, PendingAlarm, AlarmMemory, Boundary
    <2>5. QED
      BY <1>2, <2>4 DEF EvaluateAlarm
  <1>3. QED
    BY <1>1, <1>2

(* Transitions of a cycle name offsets: toOutcome.                         *)
LEMMA TransitionsTyped ==
  ASSUME NEW m \in AlarmMemory, NEW ruled, NEW v, NEW at \in Offsets
  PROVE  TransitionsOf(m, ruled, v, at) \subseteq Transition
  BY DEF TransitionsOf, Transition, AlarmMemory, Offsets

-------------------------------------------------------------------------------
(* Types.  The position of a batch inside the log is what makes the type   *)
(* invariant inductive.                                                    *)

BatchInRange ==
  \A i \in Instances :
    /\ pc[i] # "idle" => pos[i] < batch[i].last /\ batch[i].last <= Len(log)
    /\ pc[i] = "draft" => batch[i].next \in pos[i] + 1 .. batch[i].last

TypeInv == TypeOK /\ BatchInRange

LEMMA InitialData ==
  /\ IdleAlarm \in AlarmMemory
  /\ NoBatch \in Draft
  BY DEF IdleAlarm, AlarmMemory, Boundary, NoBatch, Draft

(* The type invariant holds at the start. *)
LEMMA InitType == Init => TypeInv
  <1> SUFFICES ASSUME Init PROVE TypeInv
    OBVIOUS
  <1>1. <<>> \in Seq(Frames) /\ Len(<<>>) = 0
    OBVIOUS
  <1>2. TypeOK
    BY <1>1, InitialData DEF Init, TypeOK
  <1>3. QED
    BY <1>2 DEF Init, TypeInv, BatchInRange

(* A fault is counted up to its bound. *)
LEMMA FaultType ==
  ASSUME TypeOK, NEW kind, Fault(kind)
  PROVE  faults' \in 0..MaxFaults
  BY DEF TypeOK, Fault

(* Joining the group keeps the types: apply of createHandovers.  Only idle *)
(* members join, so no batch in flight changes its position.               *)
LEMMA JoinType ==
  ASSUME TypeInv, faults' \in 0..MaxFaults,
         NEW o \in Instances, NEW joined \in SUBSET Instances,
         \A i \in joined : pc[i] = "idle", JoinGroup(o, joined)
  PROVE  TypeInv'
  <1> USE DEF TypeInv
  <1>1. /\ owner' \in Instances
        /\ member' \in [Instances -> {"current", "stale", "out"}]
        /\ owned' \in [Instances -> {"no", "adopting", "yes"}]
        /\ mem' \in [Instances -> AlarmMemory]
        /\ pos' \in [Instances -> 0..MaxLog]
    BY InitialData DEF TypeOK, JoinGroup
  <1>2. TypeOK'
    BY <1>1 DEF TypeOK, JoinGroup, database
  <1>3. \A i \in Instances : pc[i] # "idle" => pos'[i] = pos[i]
    BY DEF JoinGroup
  <1>4. QED
    BY <1>2, <1>3 DEF BatchInRange, JoinGroup

(* A batch given back, by a pause or by the end of the process. *)
LEMMA GiveBackType ==
  ASSUME TypeInv, faults' \in 0..MaxFaults, NEW i \in Instances,
         GiveBack(i) \/ Stop(i),
         topics' \in [readings: SUBSET Offsets, dlq: SUBSET Offsets,
                     alarms: SUBSET Transition],
         UNCHANGED <<log, group, rules, database, known>>
  PROVE  TypeInv'
  <1> USE DEF TypeInv
  <1>1. CASE Stop(i)
    <2>1. TypeOK'
      BY <1>1, InitialData DEF TypeOK, Stop, group, database
    <2>2. QED
      BY <1>1, <2>1 DEF TypeOK, BatchInRange, Stop
  <1>2. CASE ~Stop(i)
    <2>1. /\ attempts[i] + 1 <= MaxAttempts
          /\ attempts' = [attempts EXCEPT ![i] = @ + 1]
          /\ pc' = [pc EXCEPT ![i] = "idle"]
          /\ batch' = [batch EXCEPT ![i] = NoBatch]
          /\ UNCHANGED <<up, member, owned, mem, pos>>
      BY <1>2 DEF GiveBack, TypeOK
    <2>2. attempts' \in [Instances -> 0..MaxAttempts]
      BY <2>1 DEF TypeOK
    <2>3. TypeOK'
      BY <2>1, <2>2, InitialData DEF TypeOK, group, database
    <2>4. QED
      BY <2>1, <2>3 DEF TypeOK, BatchInRange
  <1>3. QED
    BY <1>1, <1>2

(* The sets a batch adds to the database and to the topics are offsets. *)
LEMMA BatchOffsets ==
  ASSUME TypeInv, NEW i \in Instances, pc[i] # "idle", NEW kinds
  PROVE  /\ BatchOf(i) \subseteq 1..Len(log)
         /\ OfKind(kinds, BatchOf(i)) \subseteq Offsets
         /\ Openings(batch[i].out) \subseteq Offsets
         /\ batch[i].out \subseteq Transition
  <1>1. /\ pos[i] \in 0..MaxLog /\ batch[i] \in Draft
        /\ Len(log) \in 0..MaxLog /\ batch[i].last <= Len(log)
    BY DEF TypeInv, TypeOK, BatchInRange
  <1>2. BatchOf(i) \subseteq 1..Len(log) /\ BatchOf(i) \subseteq Offsets
    BY <1>1 DEF BatchOf, Draft, Offsets
  <1>3. batch[i].out \subseteq Transition
    BY <1>1 DEF Draft
  <1>4. QED
    BY <1>2, <1>3 DEF OfKind, Openings, Transition

(* What a failed send may have delivered is a part of the batch. *)
LEMMA PublishFailedSends ==
  ASSUME TypeInv, NEW i \in Instances, PublishFailed(i)
  PROVE  /\ topics' \in [readings: SUBSET Offsets, dlq: SUBSET Offsets, alarms: SUBSET Transition]
         /\ topics.readings \subseteq topics'.readings /\ topics.dlq \subseteq topics'.dlq
         /\ topics.alarms \subseteq topics'.alarms
         /\ topics'.alarms \subseteq topics.alarms \cup batch[i].out
  <1>1. PICK dlq \in SUBSET OfKind({"poison"}, BatchOf(i)),
             live \in SUBSET OfKind({"live"}, BatchOf(i)), out \in SUBSET batch[i].out :
          topics' = [readings |-> topics.readings \cup live, dlq |-> topics.dlq \cup dlq,
                     alarms |-> topics.alarms \cup out]
    BY DEF PublishFailed
  <1>2. dlq \subseteq Offsets /\ live \subseteq Offsets /\ out \subseteq Transition
    BY <1>1, BatchOffsets DEF PublishFailed
  <1>3. topics \in [readings: SUBSET Offsets, dlq: SUBSET Offsets, alarms: SUBSET Transition]
    BY DEF TypeInv, TypeOK
  <1>4. QED
    BY <1>1, <1>2, <1>3

(* One turn of the loop over the messages keeps the draft typed. *)
LEMMA DraftedType ==
  ASSUME NEW d \in Draft, NEW f \in Frames, NEW ruled \in BOOLEAN, d.next \in Offsets
  PROVE  /\ Drafted(d, f, ruled) \in Draft
         /\ Drafted(d, f, ruled).next = d.next + 1
         /\ Drafted(d, f, ruled).last = d.last
  <1>1. /\ d.next \in Nat /\ d.next + 1 \in 0..MaxLog + 1
        /\ d.mem \in AlarmMemory /\ f.value \in Int \cup {NoValue}
    BY DEF Draft, Offsets
  <1>2. EvaluateAlarm(d.mem, ruled, f.value, d.next) \in AlarmMemory
    BY <1>1, AlarmMemoryClosed
  <1>3. TransitionsOf(d.mem, ruled, f.value, d.next) \subseteq Transition
    BY <1>1, TransitionsTyped
  <1>4. QED
    BY <1>1, <1>2, <1>3 DEF Draft, Drafted

LEMMA DraftType ==
  ASSUME TypeInv, NEW i \in Instances, DraftMessage(i)
  PROVE  TypeInv'
  <1> USE DEF TypeInv
  <1> DEFINE o == batch[i].next
             d == Drafted(batch[i], log[o], log[o].mode \in known[i])
  <1>1. /\ pc[i] = "draft" /\ o \in pos[i] + 1 .. batch[i].last
        /\ batch[i].last <= Len(log) /\ Len(log) <= MaxLog /\ Len(log) \in Nat
        /\ pos[i] \in Nat /\ batch[i] \in Draft /\ log \in Seq(Frames)
        /\ batch[i].last \in Nat
    BY DEF DraftMessage, Step, BatchInRange, TypeOK, Draft
  <1>2. o \in Offsets /\ log[o] \in Frames
    BY <1>1 DEF Offsets
  <1>3. d \in Draft /\ d.next = o + 1 /\ d.last = batch[i].last
    <2>1. batch[i] \in Draft /\ batch[i].next \in Offsets
      BY <1>1, <1>2
    <2>2. \A ruled \in BOOLEAN, f \in Frames :
             /\ Drafted(batch[i], f, ruled) \in Draft
             /\ Drafted(batch[i], f, ruled).next = batch[i].next + 1
             /\ Drafted(batch[i], f, ruled).last = batch[i].last
      BY <2>1, DraftedType
    <2>3. (log[o].mode \in known[i]) \in BOOLEAN
      OBVIOUS
    <2>4. QED
      BY <1>2, <2>2, <2>3
  <1>4. batch' = [batch EXCEPT ![i] = d]
    BY DEF DraftMessage
  <1> HIDE DEF d
  <1>5. TypeOK'
    BY <1>3, <1>4 DEF TypeOK, DraftMessage, Step, group, database, memory
  <1>6. /\ batch'[i].next = o + 1 /\ batch'[i].last = batch[i].last
        /\ pc'[i] = IF o = batch[i].last THEN "write" ELSE "draft"
        /\ \A j \in Instances \ {i} : batch'[j] = batch[j] /\ pc'[j] = pc[j]
        /\ pos' = pos /\ log' = log
    BY <1>3, <1>4 DEF DraftMessage, Step, TypeOK
  <1> HIDE DEF o
  <1>7. ASSUME NEW j \in Instances
        PROVE  /\ pc'[j] # "idle" => pos'[j] < batch'[j].last /\ batch'[j].last <= Len(log')
               /\ pc'[j] = "draft" => batch'[j].next \in pos'[j] + 1 .. batch'[j].last
    <2>1. CASE j = i
      BY <1>1, <1>6, <2>1 DEF TypeInv
    <2>2. CASE j # i
      BY <1>6, <2>2 DEF BatchInRange
    <2>3. QED
      BY <2>1, <2>2
  <1>8. QED
    BY <1>5, <1>7 DEF BatchInRange

(* Every step of the handler keeps the types. *)
LEMMA HandleType ==
  ASSUME TypeInv, NEW i \in Instances, Handle(i)
  PROVE  TypeInv'
  <1> USE DEF TypeInv
  <1>1. CASE Fetch(i)
    <2>1. /\ pos[i] \in Nat /\ Len(log) \in Nat /\ pos[i] < Len(log)
          /\ Len(log) <= MaxLog /\ pc[i] = "idle"
      BY <1>1 DEF Fetch, Step, TypeOK
    <2>2. Smaller(Len(log), pos[i] + MaxBatch) \in pos[i] + 1 .. Len(log)
      BY <2>1 DEF Smaller
    <2>3. batch'[i] \in Draft
      BY <1>1, <2>1, <2>2 DEF Fetch, TypeOK, Draft
    <2>4. batch' \in [Instances -> Draft]
      BY <1>1, <2>3 DEF Fetch, TypeOK
    <2>5. TypeOK'
      BY <1>1, <2>4 DEF TypeOK, Fetch, Step, group, database, memory
    <2>6. /\ batch'[i].next = pos[i] + 1
          /\ batch'[i].last = Smaller(Len(log), pos[i] + MaxBatch)
          /\ pc'[i] = "draft"
          /\ \A j \in Instances \ {i} : batch'[j] = batch[j] /\ pc'[j] = pc[j]
          /\ pos' = pos /\ log' = log
      BY <1>1 DEF Fetch, Step, TypeOK
    <2>7. BatchInRange'
      BY <2>1, <2>2, <2>6 DEF BatchInRange
    <2>8. QED
      BY <2>5, <2>7
  <1>2. CASE DraftMessage(i)
    BY <1>2, DraftType
  <1>3. CASE Write(i)
    <2>1. pc[i] # "idle"
      BY <1>3 DEF Write, Step
    <2>2. /\ OfKind({"live", "copy"}, BatchOf(i)) \subseteq Offsets
          /\ OfKind({"poison"}, BatchOf(i)) \subseteq Offsets
          /\ Openings(batch[i].out) \subseteq Offsets
          /\ batch[i].out \subseteq Transition
      BY <2>1, BatchOffsets
    <2>3. ClosingRows(batch[i].out) \subseteq Offsets \X Offsets
      BY <2>2 DEF ClosingRows, Closings, Transition, TypeOK
    <2>4. TypeOK'
      BY <1>3, <2>2, <2>3 DEF TypeOK, Write, Step, group, memory
    <2>5. QED
      BY <1>3, <2>4 DEF BatchInRange, Write, Step, TypeOK
  <1>4. CASE WriteRejected(i)
    BY <1>4, GiveBackType DEF WriteRejected, TypeOK
  <1>5. CASE Publish(i)
    <2>1. /\ OfKind({"live"}, BatchOf(i)) \subseteq Offsets
          /\ OfKind({"poison"}, BatchOf(i)) \subseteq Offsets
          /\ batch[i].out \subseteq Transition
      BY <1>5, BatchOffsets DEF Publish, Step
    <2>2. topics' \in [readings: SUBSET Offsets, dlq: SUBSET Offsets,
                      alarms: SUBSET Transition]
      BY <1>5, <2>1 DEF Publish, TypeOK
    <2>3. mem' \in [Instances -> AlarmMemory]
      BY <1>5 DEF Publish, TypeOK, Draft
    <2>4. TypeOK'
      BY <1>5, <2>2, <2>3 DEF TypeOK, Publish, Step, group, database
    <2>5. QED
      BY <1>5, <2>4 DEF BatchInRange, Publish, Step, TypeOK
  <1>6. CASE Commit(i)
    <2>1. batch[i].last \in 0..MaxLog
      BY DEF TypeOK, Draft
    <2>2. TypeOK'
      BY <1>6, <2>1, InitialData DEF TypeOK, Commit, Step, database, memory
    <2>3. QED
      BY <1>6, <2>2 DEF BatchInRange, Commit, Step, TypeOK
  <1>7. CASE CommitFenced(i)
    <2>1. TypeOK'
      BY <1>7, InitialData DEF TypeOK, CommitFenced, Step, group, database, memory
    <2>2. QED
      BY <1>7, <2>1 DEF BatchInRange, CommitFenced, Step, TypeOK
  <1>8. QED
    BY <1>1, <1>2, <1>3, <1>4, <1>5, <1>6, <1>7 DEF Handle

(* Membership, failures and setpoints keep the types as well. *)
LEMMA NextType == TypeInv /\ [Next]_vars => TypeInv'
  <1> SUFFICES ASSUME TypeInv, [Next]_vars PROVE TypeInv'
    OBVIOUS
  <1> USE DEF TypeInv
  <1>1. CASE Produce
    <2>1. PICK f \in Frames : log' = Append(log, f)
      BY <1>1 DEF Produce
    <2>2. log' \in Seq(Frames) /\ Len(log') = Len(log) + 1 /\ Len(log') <= MaxLog
      BY <1>1, <2>1 DEF Produce, TypeOK
    <2>3. TypeOK'
      BY <1>1, <2>2 DEF Produce, TypeOK, group, database, memory
    <2>4. \A i \in Instances : batch[i].last \in Nat
      BY DEF TypeOK, Draft
    <2>5. QED
      BY <1>1, <2>2, <2>3, <2>4 DEF Produce, BatchInRange, TypeOK, memory
  <1>2. CASE Rebalance
    <2>1. PICK o \in {i \in up : pc[i] = "idle"} :
             JoinGroup(o, {i \in up : pc[i] = "idle"})
      BY <1>2 DEF Rebalance
    <2>2. faults' \in 0..MaxFaults
      BY <1>2 DEF Rebalance, TypeOK
    <2>3. up \subseteq Instances
      BY DEF TypeOK
    <2>4. QED
      BY <2>1, <2>2, <2>3, JoinType
  <1>3. CASE Evict
    <2>1. PICK joined \in SUBSET {i \in up : pc[i] = "idle"} :
             \E o \in joined : JoinGroup(o, joined)
      BY <1>3 DEF Evict
    <2>2. PICK o \in joined : JoinGroup(o, joined)
      BY <2>1
    <2>3. faults' \in 0..MaxFaults
      BY <1>3, FaultType DEF Evict
    <2>4. up \subseteq Instances
      BY DEF TypeOK
    <2>5. QED
      BY <2>1, <2>2, <2>3, <2>4, JoinType
  <1>4. CASE EditRules
    <2>1. faults' \in 0..MaxFaults
      BY <1>4, FaultType DEF EditRules
    <2>2. TypeOK'
      BY <1>4, <2>1 DEF EditRules, TypeOK, group, database, memory
    <2>3. QED
      BY <1>4, <2>2 DEF EditRules, BatchInRange
  <1>5. ASSUME NEW i \in Instances, Handle(i)
        PROVE  TypeInv'
    BY <1>5, HandleType
  <1>6. ASSUME NEW i \in Instances, Adopt(i) \/ AdoptBlind(i)
        PROVE  TypeInv'
    <2>1. /\ faults' \in 0..MaxFaults
          /\ UNCHANGED <<log, group, rules, database, topics, up, member, known, pos, pc,
                         batch, attempts>>
          /\ owned' = [owned EXCEPT ![i] = "yes"]
      BY <1>6, FaultType DEF Adopt, AdoptBlind, TypeOK
    <2>2. mem' \in [Instances -> AlarmMemory]
      <3>1. CASE AdoptBlind(i)
        BY <3>1 DEF AdoptBlind, TypeOK
      <3>2. CASE Adopt(i)
        <4>1. PICK r \in Restored : mem' = [mem EXCEPT ![i] = r]
          BY <3>2 DEF Adopt
        <4>2. \A e \in LatestOpen : RaisedAlarm(DetectViolation(log[e].value), e) \in AlarmMemory
          BY DEF LatestOpen, TypeOK, Offsets, RaisedAlarm, AlarmMemory, DetectViolation, Boundary
        <4>3. r \in AlarmMemory
          BY <4>1, <4>2, InitialData DEF Restored
        <4>4. QED
          BY <4>1, <4>3 DEF TypeOK
      <3>3. QED
        BY <1>6, <3>1, <3>2
    <2>3. TypeOK'
      BY <2>1, <2>2 DEF TypeOK, group, database
    <2>4. QED
      BY <2>1, <2>3 DEF BatchInRange
  <1>7. ASSUME NEW i \in Instances, WriteFailed(i) \/ PublishFailed(i) \/ Crash(i)
        PROVE  TypeInv'
    <2>1. faults' \in 0..MaxFaults
      BY <1>7, FaultType DEF WriteFailed, PublishFailed, Crash
    <2>2. CASE WriteFailed(i)
      BY <2>1, <2>2, GiveBackType DEF WriteFailed, TypeOK
    <2>3. CASE PublishFailed(i)
      <3>1. topics' \in [readings: SUBSET Offsets, dlq: SUBSET Offsets,
                        alarms: SUBSET Transition]
        BY <2>3, PublishFailedSends
      <3>2. QED
        BY <2>1, <2>3, <3>1, GiveBackType DEF PublishFailed
    <2>4. CASE Crash(i)
      BY <2>1, <2>4, GiveBackType DEF Crash, TypeOK
    <2>5. QED
      BY <1>7, <2>2, <2>3, <2>4
  <1>8. ASSUME NEW i \in Instances, CommitRefused(i)
        PROVE  TypeInv'
    <2>1. faults' \in 0..MaxFaults
      BY <1>8, FaultType DEF CommitRefused
    <2>2. TypeOK'
      BY <1>8, <2>1, InitialData DEF CommitRefused, Step, TypeOK, group, database, memory
    <2>3. QED
      BY <1>8, <2>2 DEF CommitRefused, Step, BatchInRange, TypeOK
  <1>9. ASSUME NEW i \in Instances, Restart(i) \/ RestartUnloaded(i) \/ RefreshRules(i)
        PROVE  TypeInv'
    <2>1. faults' \in 0..MaxFaults
      BY <1>9, FaultType DEF Restart, RestartUnloaded, RefreshRules, TypeOK
    <2>2. /\ UNCHANGED <<log, group, rules, database, topics, member, owned, mem, pos, pc,
                         batch, attempts>>
          /\ up' \subseteq Instances
          /\ known' \in [Instances -> SUBSET Modes]
      BY <1>9 DEF Restart, RestartUnloaded, RefreshRules, TypeOK
    <2>3. TypeOK'
      BY <2>1, <2>2 DEF TypeOK, group, database
    <2>4. QED
      BY <2>2, <2>3 DEF BatchInRange
  <1>10. CASE UNCHANGED vars
    BY <1>10 DEF vars, TypeOK, BatchInRange, group, database, memory
  <1>11. QED
    BY <1>1, <1>2, <1>3, <1>4, <1>5, <1>6, <1>7, <1>8, <1>9, <1>10 DEF Next

(* Every variable keeps its type in every instance of the ingest path. *)
THEOREM IngestTypeCorrect == Spec => []TypeOK
  <1>1. TypeInv => TypeOK
    BY DEF TypeInv
  <1>2. QED
    BY InitType, NextType, <1>1, PTL DEF Spec

-------------------------------------------------------------------------------
(* Proof that a confirmed message is durable, for every set of instances,  *)
(* every bound and every choice of faults.  The argument: one member that  *)
(* the coordinator still counts can have a batch in flight, it started at  *)
(* the confirmed offset, and the batch advances from "stored" to           *)
(* "published" to "confirmed" without a way around.                        *)

Stored(o) ==
  /\ log[o].kind \in {"live", "copy"} => o \in readings
  /\ log[o].kind = "poison" => o \in quarantine

Sent(o) ==
  /\ log[o].kind = "live" => o \in topics.readings
  /\ log[o].kind = "poison" => o \in topics.dlq

(* A member the coordinator counts and that owns the device is the owner   *)
(* of the partition and reads from the confirmed offset; nobody reads from *)
(* further on.                                                             *)
Membership(i) ==
  /\ owned[i] # "no" /\ member[i] = "current" => owner = i
  /\ pc[i] # "idle" => owned[i] = "yes" /\ member[i] # "out"
  /\ owner = i /\ member[i] = "current" => pos[i] = committed
  /\ pos[i] <= committed

(* What a batch has done so far. *)
BatchDone(i) ==
  /\ pc[i] \in {"send", "commit"} => \A o \in BatchOf(i) : Stored(o)
  /\ pc[i] = "commit" => \A o \in BatchOf(i) : Sent(o)

DurableInv ==
  /\ TypeInv
  /\ \A i \in Instances : Membership(i) /\ BatchDone(i)
  /\ committed <= Len(log)
  /\ \A o \in 1..committed : Stored(o) /\ Sent(o)

-------------------------------------------------------------------------------
(* Nothing written or published is ever taken back, and the partition only *)
(* grows at its end.                                                       *)
Grows ==
  /\ readings \subseteq readings' /\ quarantine \subseteq quarantine'
  /\ topics.readings \subseteq topics'.readings
  /\ topics.dlq \subseteq topics'.dlq
  /\ Len(log) <= Len(log')
  /\ \A o \in 1..Len(log) : log'[o] = log[o]

LEMMA StepGrows == TypeInv /\ [Next]_vars => Grows
  <1> SUFFICES ASSUME TypeInv, [Next]_vars PROVE Grows
    OBVIOUS
  <1> USE DEF TypeInv, Grows
  <1>1. CASE Produce
    <2>1. PICK f \in Frames : log' = Append(log, f)
      BY <1>1 DEF Produce
    <2>2. log \in Seq(Frames)
      BY DEF TypeOK
    <2>3. QED
      BY <1>1, <2>1, <2>2 DEF Produce, database
  <1>2. ASSUME NEW i \in Instances, Handle(i) \/ PublishFailed(i)
        PROVE  Grows
    <2>1. CASE Write(i)
      BY <2>1 DEF Write, TypeOK
    <2>2. CASE Publish(i)
      BY <2>2 DEF Publish, TypeOK, database
    <2>3. CASE PublishFailed(i)
      BY <2>3, PublishFailedSends DEF PublishFailed, TypeOK, database
    <2>4. CASE Fetch(i) \/ DraftMessage(i) \/ WriteRejected(i) \/ Commit(i) \/ CommitFenced(i)
      BY <2>4 DEF Fetch, DraftMessage, WriteRejected, Commit, CommitFenced, database, TypeOK
    <2>5. QED
      BY <1>2, <2>1, <2>2, <2>3, <2>4 DEF Handle
  <1>3. CASE UNCHANGED <<log, database, topics>>
    BY <1>3 DEF database, TypeOK
  <1>4. QED
    <2>1. CASE Rebalance \/ Evict
      BY <1>3, <2>1 DEF Rebalance, Evict, JoinGroup
    <2>2. CASE EditRules \/ UNCHANGED vars
      BY <1>3, <2>2 DEF EditRules, vars
    <2>3. ASSUME NEW i \in Instances,
                 \/ Adopt(i) \/ AdoptBlind(i) \/ WriteFailed(i) \/ CommitRefused(i)
                 \/ Crash(i) \/ Restart(i) \/ RestartUnloaded(i) \/ RefreshRules(i)
          PROVE  UNCHANGED <<log, database, topics>>
      BY <2>3 DEF Adopt, AdoptBlind, WriteFailed, CommitRefused, Crash, Restart,
                  RestartUnloaded, RefreshRules
    <2>4. QED
      BY <1>1, <1>2, <1>3, <2>1, <2>2, <2>3 DEF Next

(* What was durable stays durable. *)
LEMMA DurableStays ==
  ASSUME Grows, NEW o \in 1..Len(log)
  PROVE  /\ Stored(o) => Stored(o)'
         /\ Sent(o) => Sent(o)'
  BY DEF Grows, Stored, Sent

(* An instance whose batch did not move in this step keeps what is done. *)
LEMMA DoneStays ==
  ASSUME DurableInv, Grows, NEW i \in Instances,
         \/ pc'[i] \in {"idle", "draft", "write"}
         \/ pc'[i] = pc[i] /\ pos'[i] = pos[i] /\ batch'[i] = batch[i]
  PROVE  BatchDone(i)'
  <1>1. CASE pc'[i] \in {"idle", "draft", "write"}
    BY <1>1 DEF BatchDone
  <1>2. CASE /\ pc'[i] \notin {"idle", "draft", "write"}
             /\ pc'[i] = pc[i] /\ pos'[i] = pos[i] /\ batch'[i] = batch[i]
    <2>1. BatchOf(i) \subseteq 1..Len(log)
      BY <1>2, BatchOffsets DEF DurableInv
    <2>2. BatchOf(i)' = BatchOf(i)
      BY <1>2 DEF BatchOf
    <2>3. BatchDone(i)
      BY DEF DurableInv
    <2>4. QED
      BY <1>2, <2>1, <2>2, <2>3, DurableStays DEF BatchDone
  <1>3. QED
    BY <1>1, <1>2

(* While nothing is confirmed, the confirmed messages stay durable. *)
LEMMA ConfirmedStays ==
  ASSUME DurableInv, Grows, committed' = committed
  PROVE  /\ committed' <= Len(log')
         /\ \A o \in 1..committed' : Stored(o)' /\ Sent(o)'
  <1>1. /\ committed \in Nat /\ Len(log) \in Nat /\ committed <= Len(log)
    BY DEF DurableInv, TypeInv, TypeOK
  <1>2. \A o \in 1..committed : o \in 1..Len(log) /\ Stored(o) /\ Sent(o)
    BY <1>1 DEF DurableInv
  <1>3. committed' <= Len(log')
    BY <1>1 DEF Grows
  <1>4. QED
    BY <1>1, <1>2, <1>3, DurableStays

-------------------------------------------------------------------------------
(* Membership. *)

(* A rebalance moves idle members to the confirmed offset and hands the    *)
(* device to one of them.                                                  *)
LEMMA JoinMembership ==
  ASSUME DurableInv, NEW joined \in SUBSET Instances, NEW o \in joined,
         \A i \in joined : pc[i] = "idle", JoinGroup(o, joined)
  PROVE  \A i \in Instances : Membership(i)'
  <1> SUFFICES ASSUME NEW i \in Instances PROVE Membership(i)'
    OBVIOUS
  <1>1. Membership(i) /\ committed \in Nat
    BY DEF DurableInv, TypeInv, TypeOK
  <1>2. /\ pc' = pc /\ committed' = committed /\ owner' = o
        /\ member'[i] = IF i \in joined THEN "current"
                        ELSE IF member[i] = "current" THEN "stale" ELSE member[i]
        /\ owned'[i] = IF i \notin joined \/ (i = o /\ Keeps(i)) THEN owned[i]
                       ELSE IF i = o THEN "adopting" ELSE "no"
        /\ pos'[i] = IF i \in joined THEN committed ELSE pos[i]
    BY DEF JoinGroup
  <1>3. CASE i \in joined
    BY <1>1, <1>2, <1>3 DEF Membership
  <1>4. CASE i \notin joined
    BY <1>1, <1>2, <1>4 DEF Membership
  <1>5. QED
    BY <1>3, <1>4

(* A step that leaves the group and the positions alone, and in which a    *)
(* batch appears only at a member that owns the device.                    *)
LEMMA QuietMembership ==
  ASSUME DurableInv, UNCHANGED <<group, member, pos>>, NEW i \in Instances,
         owned'[i] # "no" => owned[i] # "no",
         pc'[i] # "idle" => owned'[i] = "yes" /\ member[i] # "out"
  PROVE  Membership(i)'
  BY DEF DurableInv, Membership, group

(* The end of a process, or its failed batch. *)
LEMMA StopMembership ==
  ASSUME DurableInv, NEW j \in Instances, Stop(j) \/ GiveBack(j), UNCHANGED group
  PROVE  \A i \in Instances : Membership(i)'
  <1> SUFFICES ASSUME NEW i \in Instances PROVE Membership(i)'
    OBVIOUS
  <1>1. Membership(i) /\ committed \in Nat
    BY DEF DurableInv, TypeInv, TypeOK
  <1>2. CASE Stop(j)
    <2>1. /\ member'[j] = "out" /\ owned'[j] = "no" /\ pc'[j] = "idle" /\ pos'[j] = 0
          /\ i # j => /\ member'[i] = member[i] /\ owned'[i] = owned[i]
                      /\ pc'[i] = pc[i] /\ pos'[i] = pos[i]
          /\ committed' = committed /\ owner' = owner
      BY <1>2 DEF Stop, group, DurableInv, TypeInv, TypeOK
    <2>2. CASE i = j
      BY <1>1, <2>1, <2>2 DEF Membership
    <2>3. CASE i # j
      BY <1>1, <2>1, <2>3 DEF Membership
    <2>4. QED
      BY <2>2, <2>3
  <1>3. CASE ~Stop(j)
    <2>1. /\ pc' = [pc EXCEPT ![j] = "idle"]
          /\ UNCHANGED <<member, owned, pos>>
      BY <1>3 DEF GiveBack
    <2>2. pc'[i] # "idle" => pc[i] # "idle"
      BY <2>1 DEF DurableInv, TypeInv, TypeOK
    <2>3. QED
      BY <1>1, <2>1, <2>2, QuietMembership DEF Membership
  <1>4. QED
    BY <1>2, <1>3

(* The confirmed offset moves only for the one member the coordinator      *)
(* counts as the owner.                                                    *)
LEMMA CommitMembership ==
  ASSUME DurableInv, NEW j \in Instances, Commit(j)
  PROVE  /\ \A i \in Instances : Membership(i)'
         /\ pos[j] = committed
  <1>1. /\ owner = j /\ pos[j] = committed /\ member[j] = "current"
        /\ pc[j] = "commit" /\ owned[j] = "yes"
    BY DEF DurableInv, Membership, Commit, Step
  <1>2. /\ batch[j].last \in Nat /\ committed < batch[j].last /\ committed \in Nat
        /\ committed' = batch[j].last
    BY <1>1 DEF DurableInv, TypeInv, TypeOK, BatchInRange, Draft, Commit
  <1>3. ASSUME NEW i \in Instances PROVE Membership(i)'
    <2>1. /\ owner' = owner /\ member' = member /\ owned' = owned
          /\ pc'[i] = IF i = j THEN "idle" ELSE pc[i]
          /\ pos'[i] = IF i = j THEN batch[j].last ELSE pos[i]
      BY DEF Commit, Step, memory, DurableInv, TypeInv, TypeOK
    <2>2. Membership(i) /\ pos[i] \in Nat
      BY DEF DurableInv, TypeInv, TypeOK
    <2>3. CASE i = j
      BY <1>1, <1>2, <2>1, <2>2, <2>3 DEF Membership
    <2>4. CASE i # j
      BY <1>1, <1>2, <2>1, <2>2, <2>4 DEF Membership
    <2>5. QED
      BY <2>3, <2>4
  <1>4. QED
    BY <1>1, <1>3

-------------------------------------------------------------------------------
(* The three steps of a batch that count: Write, Publish, Commit. *)

LEMMA WriteStores ==
  ASSUME DurableInv, NEW i \in Instances, Write(i)
  PROVE  BatchDone(i)'
  <1>1. pc[i] = "write" /\ pc'[i] = "send" /\ UNCHANGED <<log, pos, batch>>
    BY DEF Write, Step, DurableInv, TypeInv, TypeOK
  <1>2. BatchOf(i)' = BatchOf(i) /\ BatchOf(i) \subseteq 1..Len(log)
    BY <1>1, BatchOffsets DEF BatchOf, DurableInv
  <1>3. \A o \in BatchOf(i) : Stored(o)'
    BY <1>1 DEF Write, OfKind, Stored
  <1>4. QED
    BY <1>1, <1>2, <1>3 DEF BatchDone

LEMMA PublishSends ==
  ASSUME DurableInv, NEW i \in Instances, Publish(i), Grows
  PROVE  BatchDone(i)'
  <1>1. pc[i] = "send" /\ pc'[i] = "commit" /\ UNCHANGED <<log, pos, batch, database>>
    BY DEF Publish, Step, DurableInv, TypeInv, TypeOK
  <1>2. BatchOf(i)' = BatchOf(i) /\ BatchOf(i) \subseteq 1..Len(log)
    BY <1>1, BatchOffsets DEF BatchOf, DurableInv
  <1>3. \A o \in BatchOf(i) : Stored(o)
    BY <1>1 DEF DurableInv, BatchDone
  <1>4. \A o \in BatchOf(i) : Sent(o)'
    BY <1>1 DEF Publish, OfKind, Sent
  <1>5. QED
    BY <1>1, <1>2, <1>3, <1>4, DurableStays DEF BatchDone

LEMMA CommitConfirms ==
  ASSUME DurableInv, NEW i \in Instances, Commit(i), Grows
  PROVE  /\ committed' <= Len(log')
         /\ \A o \in 1..committed' : Stored(o)' /\ Sent(o)'
  <1>1. /\ pc[i] = "commit" /\ committed' = batch[i].last
        /\ UNCHANGED <<log, topics, database>>
    BY DEF Commit, Step
  <1>2. /\ pos[i] = committed /\ committed \in Nat /\ batch[i].last \in Nat
        /\ batch[i].last <= Len(log)
    BY <1>1, CommitMembership DEF DurableInv, TypeInv, TypeOK, BatchInRange, Draft
  <1>3. ASSUME NEW o \in 1..batch[i].last
        PROVE  o \in 1..Len(log) /\ Stored(o) /\ Sent(o)
    <2>1. o \in 1..committed \/ o \in BatchOf(i)
      BY <1>2 DEF BatchOf
    <2>2. o \in 1..Len(log)
      BY <1>2 DEF DurableInv, TypeInv, TypeOK
    <2>3. QED
      BY <1>1, <2>1, <2>2 DEF DurableInv, BatchDone
  <1>4. QED
    BY <1>1, <1>2, <1>3, DurableStays

-------------------------------------------------------------------------------
(* A step that leaves the confirmed offset alone and in which no batch     *)
(* reaches "send" or "commit" keeps the invariant.                         *)
LEMMA QuietStep ==
  ASSUME DurableInv, TypeInv', Grows, committed' = committed,
         \A i \in Instances : Membership(i)',
         \A i \in Instances :
           \/ pc'[i] \in {"idle", "draft", "write"}
           \/ pc'[i] = pc[i] /\ pos'[i] = pos[i] /\ batch'[i] = batch[i]
  PROVE  DurableInv'
  <1>1. \A i \in Instances : BatchDone(i)'
    BY DoneStays
  <1>2. QED
    BY <1>1, ConfirmedStays DEF DurableInv

LEMMA InitDurable == Init => DurableInv
  <1> SUFFICES ASSUME Init PROVE DurableInv
    OBVIOUS
  <1>1. TypeInv
    BY InitType
  <1>2. committed = 0 /\ Len(log) = 0
    BY DEF Init
  <1>3. \A i \in Instances : Membership(i) /\ BatchDone(i)
    BY <1>2 DEF Init, Membership, BatchDone
  <1>4. QED
    BY <1>1, <1>2, <1>3 DEF DurableInv

(* The steps of the handler. *)
LEMMA HandleDurable ==
  ASSUME DurableInv, TypeInv', Grows, NEW i \in Instances, Handle(i)
  PROVE  DurableInv'
  <1> USE DEF TypeInv
  <1>0. /\ TypeOK
        /\ \A j \in Instances : Membership(j)
    BY DEF DurableInv
  <1>1. CASE Fetch(i) \/ DraftMessage(i)
    <2>1. /\ UNCHANGED <<group, member, pos, owned>>
          /\ pc'[i] \in {"draft", "write"}
          /\ \A j \in Instances \ {i} : pc'[j] = pc[j] /\ batch'[j] = batch[j]
          /\ owned[i] = "yes" /\ member[i] # "out"
      BY <1>0, <1>1 DEF Fetch, DraftMessage, Step, TypeOK, Membership, memory
    <2>2. \A j \in Instances : Membership(j)'
      BY <1>0, <2>1, QuietMembership DEF Membership
    <2>3. QED
      BY <2>1, <2>2, QuietStep DEF group
  <1>2. CASE WriteRejected(i)
    <2>1. \A j \in Instances : Membership(j)'
      BY <1>2, StopMembership DEF WriteRejected
    <2>2. /\ committed' = committed
          /\ pc'[i] = "idle"
          /\ \A j \in Instances \ {i} :
               pc'[j] = pc[j] /\ pos'[j] = pos[j] /\ batch'[j] = batch[j]
      BY <1>0, <1>2 DEF WriteRejected, GiveBack, Stop, TypeOK, group
    <2>3. QED
      BY <2>1, <2>2, QuietStep
  <1>3. CASE CommitFenced(i)
    <2>1. /\ UNCHANGED <<owner, committed, pos, owned>>
          /\ pc'[i] = "idle" /\ member'[i] = "out"
          /\ \A j \in Instances \ {i} :
               pc'[j] = pc[j] /\ batch'[j] = batch[j] /\ member'[j] = member[j]
      BY <1>0, <1>3 DEF CommitFenced, Step, TypeOK, group, memory
    <2>2. \A j \in Instances : Membership(j)'
      BY <1>0, <2>1 DEF Membership
    <2>3. QED
      BY <2>1, <2>2, QuietStep
  <1>4. CASE Write(i) \/ Publish(i)
    <2>1. /\ UNCHANGED <<group, member, pos, batch, owned>>
          /\ pc[i] # "idle"
          /\ \A j \in Instances \ {i} : pc'[j] = pc[j]
      BY <1>0, <1>4 DEF Write, Publish, Step, TypeOK, memory
    <2>2. \A j \in Instances : Membership(j)'
      BY <1>0, <2>1, QuietMembership DEF Membership
    <2>3. BatchDone(i)'
      BY <1>4, WriteStores, PublishSends
    <2>4. \A j \in Instances : BatchDone(j)'
      BY <2>1, <2>3, DoneStays
    <2>5. QED
      BY <2>1, <2>2, <2>4, ConfirmedStays DEF DurableInv, group
  <1>5. CASE Commit(i)
    <2>1. /\ pc'[i] = "idle"
          /\ \A j \in Instances \ {i} :
               pc'[j] = pc[j] /\ pos'[j] = pos[j] /\ batch'[j] = batch[j]
      BY <1>0, <1>5 DEF Commit, Step, TypeOK
    <2>2. \A j \in Instances : BatchDone(j)'
      BY <2>1, DoneStays
    <2>3. QED
      BY <1>5, <2>2, CommitMembership, CommitConfirms DEF DurableInv
  <1>6. QED
    BY <1>1, <1>2, <1>3, <1>4, <1>5 DEF Handle

(* Every step, faults included. *)
LEMMA NextDurable == DurableInv /\ [Next]_vars => DurableInv'
  <1> SUFFICES ASSUME DurableInv, [Next]_vars PROVE DurableInv'
    OBVIOUS
  <1> USE DEF TypeInv
  <1>0. /\ TypeOK /\ TypeInv
        /\ \A i \in Instances : Membership(i)
    BY DEF DurableInv
  <1>1. TypeInv' /\ Grows
    BY <1>0, NextType, StepGrows
  <1>2. CASE UNCHANGED <<group, member, pos, batch, pc, owned>>
    <2>1. \A i \in Instances : Membership(i)'
      BY <1>0, <1>2, QuietMembership DEF Membership
    <2>2. QED
      BY <1>1, <1>2, <2>1, QuietStep DEF group
  <1>3. ASSUME NEW joined \in SUBSET Instances, NEW o \in joined,
               \A i \in joined : pc[i] = "idle", JoinGroup(o, joined)
        PROVE  DurableInv'
    <2>1. \A i \in Instances : Membership(i)'
      BY <1>3, JoinMembership
    <2>2. /\ committed' = committed /\ pc' = pc /\ batch' = batch
          /\ \A i \in Instances : i \in joined \/ pos'[i] = pos[i]
      BY <1>3 DEF JoinGroup
    <2>3. QED
      BY <1>1, <1>3, <2>1, <2>2, QuietStep
  <1>4. CASE Rebalance \/ Evict
    <2>1. up \subseteq Instances
      BY <1>0 DEF TypeOK
    <2>2. PICK joined \in SUBSET {i \in up : pc[i] = "idle"} :
             \E o \in joined : JoinGroup(o, joined)
      BY <1>4, <2>1 DEF Rebalance, Evict
    <2>3. PICK o \in joined : JoinGroup(o, joined)
      BY <2>2
    <2>4. QED
      BY <1>3, <2>1, <2>2, <2>3
  <1>5. ASSUME NEW i \in Instances, Handle(i)
        PROVE  DurableInv'
    BY <1>1, <1>5, HandleDurable
  <1>6. ASSUME NEW i \in Instances,
               WriteFailed(i) \/ PublishFailed(i) \/ Crash(i)
        PROVE  DurableInv'
    <2>1. (GiveBack(i) \/ Stop(i)) /\ UNCHANGED group
      BY <1>6 DEF WriteFailed, PublishFailed, Crash
    <2>2. \A j \in Instances : Membership(j)'
      BY <2>1, StopMembership
    <2>3. /\ pc'[i] = "idle"
          /\ \A j \in Instances \ {i} :
               pc'[j] = pc[j] /\ pos'[j] = pos[j] /\ batch'[j] = batch[j]
      BY <1>0, <2>1 DEF GiveBack, Stop, TypeOK
    <2>4. QED
      BY <1>1, <2>1, <2>2, <2>3, QuietStep DEF group
  <1>7. ASSUME NEW i \in Instances, Adopt(i) \/ AdoptBlind(i) \/ CommitRefused(i)
        PROVE  DurableInv'
    <2>1. /\ UNCHANGED <<group, member, pos>>
          /\ \A j \in Instances :
               /\ owned'[j] # "no" => owned[j] # "no"
               /\ pc'[j] # "idle" => pc[j] # "idle"
               /\ owned[j] = "yes" => owned'[j] = "yes"
               /\ pc'[j] = "idle" \/ (pc'[j] = pc[j] /\ batch'[j] = batch[j])
      <3>1. CASE Adopt(i) \/ AdoptBlind(i)
        BY <1>0, <3>1 DEF Adopt, AdoptBlind, TypeOK, group
      <3>2. CASE CommitRefused(i)
        BY <1>0, <3>2 DEF CommitRefused, Step, TypeOK, group, memory
      <3>3. QED
        BY <1>7, <3>1, <3>2
    <2>2. \A j \in Instances : Membership(j)'
      BY <1>0, <2>1, QuietMembership DEF Membership
    <2>3. QED
      BY <1>1, <2>1, <2>2, QuietStep DEF group
  <1>8. QED
    <2>1. Produce \/ EditRules \/ UNCHANGED vars
            => UNCHANGED <<group, member, pos, batch, pc, owned>>
      BY DEF Produce, EditRules, vars, memory
    <2>2. ASSUME NEW i \in Instances,
                 Restart(i) \/ RestartUnloaded(i) \/ RefreshRules(i)
          PROVE  UNCHANGED <<group, member, pos, batch, pc, owned>>
      BY <2>2 DEF Restart, RestartUnloaded, RefreshRules, group
    <2>3. QED
      BY <1>2, <1>4, <1>5, <1>6, <1>7, <2>1, <2>2 DEF Next

(* A confirmed message is never lost, whatever the processes, the broker   *)
(* and the coordinator do: the order of RawBatchService.handle.            *)
THEOREM IngestDurable == Spec => []CommittedIsDurable
  <1>1. DurableInv => CommittedIsDurable
    BY DEF DurableInv, CommittedIsDurable, Stored, Sent
  <1>2. QED
    BY InitDurable, NextDurable, <1>1, PTL DEF Spec

-------------------------------------------------------------------------------
(* Proof that the database has every alarm event that was published, for   *)
(* every set of instances, every bound and every choice of faults.  The    *)
(* argument follows an episode through the memory of the instance: what    *)
(* the memory holds raised is stored or is opened by the batch in flight,  *)
(* and the transaction makes all transitions of the batch stored before    *)
(* the first of them is published.                                         *)

(* Episodes a draft may refer to: stored, or opened by the draft itself.   *)
Rooted(d) ==
  /\ d.mem.raised => d.mem.raisedAt \in episodes \cup Openings(d.out)
  /\ \A t \in d.out : t.raisedAt \in episodes \cup Openings(d.out)

StoredTransition(t) ==
  IF t.state = "raised" THEN t.raisedAt \in episodes
                        ELSE \E c \in closings : c[1] = t.raisedAt

(* The same after the transaction. *)
Settles(d) ==
  /\ d.mem.raised => d.mem.raisedAt \in episodes
  /\ \A t \in d.out : StoredTransition(t)

Backed(i) ==
  /\ mem[i].raised => mem[i].raisedAt \in episodes
  /\ pc[i] \in {"draft", "write"} => Rooted(batch[i])
  /\ pc[i] = "send" => Settles(batch[i])

EventsInv ==
  /\ TypeInv
  /\ \A i \in Instances : Backed(i)
  /\ \A t \in topics.alarms : StoredTransition(t)

-------------------------------------------------------------------------------
(* The alarm engine and the loop over a batch. *)

(* A raised memory remembers its own raise or the one it had before. *)
LEMMA RaisedFrom ==
  ASSUME NEW m \in AlarmMemory, NEW ruled \in BOOLEAN, NEW v, NEW at,
         EvaluateAlarm(m, ruled, v, at).raised
  PROVE  \/ Raises(m, ruled, v) /\ EvaluateAlarm(m, ruled, v, at).raisedAt = at
         \/ m.raised /\ EvaluateAlarm(m, ruled, v, at).raisedAt = m.raisedAt
  BY DEF EvaluateAlarm, RaisedAlarm, IdleAlarm, PendingAlarm

LEMMA DraftedRooted ==
  ASSUME NEW d \in Draft, NEW f \in Frames, NEW ruled \in BOOLEAN, Rooted(d)
  PROVE  Rooted(Drafted(d, f, ruled))
  <1>1. CASE f.kind # "live"
    BY <1>1 DEF Drafted, Rooted
  <1>2. CASE f.kind = "live"
    <2> DEFINE new == TransitionsOf(d.mem, ruled, f.value, d.next)
               e == Drafted(d, f, ruled)
    <2>1. /\ e.out = d.out \cup new
          /\ e.mem = EvaluateAlarm(d.mem, ruled, f.value, d.next)
      BY <1>2 DEF Drafted
    <2>2. Openings(d.out) \subseteq Openings(e.out)
      BY <2>1 DEF Openings
    <2>3. Raises(d.mem, ruled, f.value) => d.next \in Openings(e.out)
      <3>1. Raises(d.mem, ruled, f.value) => ~Clears(d.mem, ruled, f.value)
        BY DEF Raises, Clears
      <3>2. Raises(d.mem, ruled, f.value)
              => new = {[state |-> "raised", raisedAt |-> d.next, at |-> d.next]}
        BY <3>1 DEF TransitionsOf
      <3>3. ASSUME Raises(d.mem, ruled, f.value)
            PROVE  d.next \in Openings(e.out)
        <4> DEFINE t == [state |-> "raised", raisedAt |-> d.next, at |-> d.next]
        <4>1. t \in {u \in e.out : u.state = "raised"}
          BY <2>1, <3>2, <3>3
        <4>2. t.at = d.next
          OBVIOUS
        <4> HIDE DEF t
        <4>3. QED
          BY <4>1, <4>2 DEF Openings
      <3>4. QED
        BY <3>3
    <2>4. \A t \in new : \/ d.mem.raised /\ t.raisedAt = d.mem.raisedAt
                         \/ Raises(d.mem, ruled, f.value) /\ t.raisedAt = d.next
      BY DEF TransitionsOf, Clears
    <2>5. e.mem.raised => e.mem.raisedAt \in episodes \cup Openings(e.out)
      <3> SUFFICES ASSUME e.mem.raised
                   PROVE  e.mem.raisedAt \in episodes \cup Openings(e.out)
        OBVIOUS
      <3>1. d.mem \in AlarmMemory
        BY DEF Draft
      <3>2. \/ Raises(d.mem, ruled, f.value) /\ e.mem.raisedAt = d.next
            \/ d.mem.raised /\ e.mem.raisedAt = d.mem.raisedAt
        BY <2>1, <3>1, RaisedFrom
      <3>3. QED
        BY <2>2, <2>3, <3>2 DEF Rooted
    <2>6. \A t \in e.out : t.raisedAt \in episodes \cup Openings(e.out)
      BY <2>1, <2>2, <2>3, <2>4 DEF Rooted
    <2>7. QED
      BY <2>5, <2>6 DEF Rooted
  <1>3. QED
    BY <1>1, <1>2

(* The transaction stores every transition of the batch: openings first,   *)
(* then closings of whatever is open by then.                              *)
LEMMA WriteSettles ==
  ASSUME EventsInv, NEW i \in Instances, Write(i)
  PROVE  Settles(batch[i])'
  <1> DEFINE out == batch[i].out
  <1>1. /\ Rooted(batch[i]) /\ batch' = batch
        /\ episodes' = episodes \cup Openings(out)
        /\ closings' = closings \cup ClosingRows(out)
    BY DEF EventsInv, Backed, Write, Step
  <1>2. ASSUME NEW t \in out PROVE StoredTransition(t)'
    <2>1. t.raisedAt \in episodes'
      BY <1>1 DEF Rooted
    <2>2. CASE t.state = "raised"
      BY <2>1, <2>2 DEF StoredTransition
    <2>3. CASE t.state # "raised"
      <3>1. t.state = "cleared"
        BY <2>3 DEF EventsInv, TypeInv, TypeOK, Draft, Transition
      <3>2. <<t.raisedAt, t.at>> \in Closings(out)
        BY <3>1 DEF Closings
      <3>3. CASE \E c \in closings : c[1] = t.raisedAt
        BY <1>1, <2>3, <3>3 DEF StoredTransition
      <3>4. CASE ~\E c \in closings : c[1] = t.raisedAt
        <4>1. <<t.raisedAt, t.at>> \in ClosingRows(out)
          BY <1>1, <2>1, <3>2, <3>4 DEF ClosingRows
        <4>2. QED
          BY <1>1, <2>3, <4>1 DEF StoredTransition
      <3>5. QED
        BY <3>3, <3>4
    <2>4. QED
      BY <2>2, <2>3
  <1>3. QED
    BY <1>1, <1>2 DEF Settles, Rooted

-------------------------------------------------------------------------------
(* Steps. *)

(* An instance keeps its backing when the database does not shrink, its    *)
(* memory is the old one or empty, and its batch did not move or is gone.  *)
LEMMA BackedStays ==
  ASSUME NEW i \in Instances, Backed(i),
         episodes \subseteq episodes', closings \subseteq closings',
         mem'[i] = mem[i] \/ mem'[i] = IdleAlarm,
         \/ pc'[i] \in {"idle", "commit"}
         \/ pc'[i] = pc[i] /\ batch'[i] = batch[i]
  PROVE  Backed(i)'
  <1>1. mem'[i].raised => mem'[i].raisedAt \in episodes'
    BY DEF Backed, IdleAlarm
  <1>2. CASE pc'[i] \in {"idle", "commit"}
    BY <1>1, <1>2 DEF Backed
  <1>3. CASE pc'[i] = pc[i] /\ batch'[i] = batch[i]
    <2>1. Rooted(batch[i]) => Rooted(batch[i])'
      BY <1>3 DEF Rooted
    <2>2. Settles(batch[i]) => Settles(batch[i])'
      BY <1>3 DEF Settles, StoredTransition
    <2>3. QED
      BY <1>1, <1>3, <2>1, <2>2 DEF Backed
  <1>4. QED
    BY <1>2, <1>3

(* What was stored stays stored. *)
LEMMA TransitionStays ==
  ASSUME episodes \subseteq episodes', closings \subseteq closings', NEW t,
         StoredTransition(t)
  PROVE  StoredTransition(t)'
  BY DEF StoredTransition

(* A step that writes nothing and publishes of alarms what is stored. *)
LEMMA QuietEvents ==
  ASSUME EventsInv, TypeInv', UNCHANGED database, \A t \in topics'.alarms : StoredTransition(t),
         \A i \in Instances :
           /\ mem'[i] = mem[i] \/ mem'[i] = IdleAlarm
           /\ \/ pc'[i] \in {"idle", "commit"}
              \/ pc'[i] = pc[i] /\ batch'[i] = batch[i]
  PROVE  EventsInv'
  <1>1. \A i \in Instances : Backed(i)'
    BY BackedStays DEF EventsInv, database
  <1>2. \A t \in topics'.alarms : StoredTransition(t)'
    BY TransitionStays DEF EventsInv, database
  <1>3. QED
    BY <1>1, <1>2 DEF EventsInv

LEMMA InitEvents == Init => EventsInv
  BY InitType DEF Init, EventsInv, Backed, IdleAlarm

LEMMA HandleEvents ==
  ASSUME EventsInv, TypeInv', NEW i \in Instances, Handle(i)
  PROVE  EventsInv'
  <1>0. TypeOK /\ (\A j \in Instances : Backed(j))
    BY DEF EventsInv, TypeInv
  <1>1. CASE Fetch(i)
    <2>1. /\ UNCHANGED <<database, topics, mem>>
          /\ pc'[i] = "draft" /\ batch'[i].mem = mem[i] /\ batch'[i].out = {}
          /\ \A j \in Instances \ {i} : pc'[j] = pc[j] /\ batch'[j] = batch[j]
      BY <1>0, <1>1 DEF Fetch, Step, memory, TypeOK
    <2>2. Backed(i)'
      BY <1>0, <2>1 DEF Backed, Rooted, database
    <2>3. \A j \in Instances : Backed(j)'
      BY <1>0, <2>1, <2>2, BackedStays DEF database
    <2>4. QED
      BY <2>1, <2>3 DEF EventsInv, StoredTransition, database
  <1>2. CASE DraftMessage(i)
    <2> DEFINE f == log[batch[i].next]
               ruled == f.mode \in known[i]
    <2>1. /\ UNCHANGED <<database, topics, mem>>
          /\ pc[i] = "draft" /\ pc'[i] \in {"draft", "write"}
          /\ batch'[i] = Drafted(batch[i], f, ruled)
          /\ \A j \in Instances \ {i} : pc'[j] = pc[j] /\ batch'[j] = batch[j]
      BY <1>0, <1>2 DEF DraftMessage, Step, memory, TypeOK
    <2>2. f \in Frames
      <3>1. /\ log \in Seq(Frames) /\ pos[i] \in Nat /\ Len(log) \in Nat
            /\ batch[i].last \in Nat
        BY <1>0 DEF TypeOK, Draft
      <3>2. /\ batch[i].last <= Len(log)
            /\ batch[i].next \in pos[i] + 1 .. batch[i].last
        BY <2>1 DEF EventsInv, TypeInv, BatchInRange
      <3>3. QED
        BY <3>1, <3>2
    <2>3. Rooted(batch[i]) /\ batch[i] \in Draft
      BY <1>0, <2>1 DEF Backed, TypeOK
    <2>4. Rooted(Drafted(batch[i], f, ruled))
      <3>1. \A r \in BOOLEAN : Rooted(Drafted(batch[i], f, r))
        BY <2>2, <2>3, DraftedRooted
      <3>2. ruled \in BOOLEAN
        OBVIOUS
      <3>3. QED
        BY <3>1, <3>2
    <2> HIDE DEF f, ruled
    <2>5. Rooted(batch[i])'
      BY <2>1, <2>4 DEF Rooted, database
    <2>6. Backed(i)'
      BY <1>0, <2>1, <2>5 DEF Backed, database
    <2>7. \A j \in Instances : Backed(j)'
      BY <1>0, <2>1, <2>6, BackedStays DEF database
    <2>8. QED
      BY <2>1, <2>7 DEF EventsInv, StoredTransition, database
  <1>3. CASE Write(i)
    <2>1. /\ UNCHANGED <<topics, mem, batch>>
          /\ pc'[i] = "send"
          /\ \A j \in Instances \ {i} : pc'[j] = pc[j]
          /\ episodes \subseteq episodes' /\ closings \subseteq closings'
      BY <1>0, <1>3 DEF Write, Step, memory, TypeOK
    <2>2. Settles(batch[i])'
      BY <1>3, WriteSettles
    <2>3. Backed(i)'
      BY <1>0, <2>1, <2>2 DEF Backed
    <2>4. \A j \in Instances : Backed(j)'
      BY <1>0, <2>1, <2>3, BackedStays
    <2>5. QED
      BY <2>1, <2>4, TransitionStays DEF EventsInv
  <1>4. CASE Publish(i)
    <2>1. /\ UNCHANGED <<database, batch>>
          /\ pc[i] = "send" /\ pc'[i] = "commit"
          /\ \A j \in Instances \ {i} : pc'[j] = pc[j] /\ mem'[j] = mem[j]
          /\ mem'[i] \in {mem[i], batch[i].mem}
          /\ topics'.alarms = topics.alarms \cup batch[i].out
      BY <1>0, <1>4 DEF Publish, Step, TypeOK
    <2>2. Settles(batch[i])
      BY <1>0, <2>1 DEF Backed
    <2>3. Backed(i)'
      BY <1>0, <2>1, <2>2 DEF Backed, Settles, database
    <2>4. \A j \in Instances : Backed(j)'
      BY <1>0, <2>1, <2>3, BackedStays DEF database
    <2>5. \A t \in topics'.alarms : StoredTransition(t)'
      BY <2>1, <2>2 DEF EventsInv, Settles, StoredTransition, database
    <2>6. QED
      BY <2>4, <2>5 DEF EventsInv
  <1>5. CASE WriteRejected(i) \/ Commit(i) \/ CommitFenced(i)
    <2>1. /\ UNCHANGED <<database, topics>>
          /\ pc'[i] = "idle"
          /\ \A j \in Instances \ {i} : pc'[j] = pc[j] /\ batch'[j] = batch[j]
          /\ \A j \in Instances : mem'[j] = mem[j] \/ mem'[j] = IdleAlarm
      BY <1>0, <1>5 DEF WriteRejected, GiveBack, Stop, Commit, CommitFenced, Step, memory, TypeOK
    <2>2. QED
      BY <2>1, QuietEvents DEF EventsInv
  <1>6. QED
    BY <1>1, <1>2, <1>3, <1>4, <1>5 DEF Handle

(* A restored memory holds an episode of the database: adopt. *)
LEMMA AdoptEvents ==
  ASSUME EventsInv, TypeInv', NEW i \in Instances, Adopt(i)
  PROVE  EventsInv'
  <1>1. PICK r \in Restored : mem' = [mem EXCEPT ![i] = r]
    BY DEF Adopt
  <1>2. r.raised => r.raisedAt \in episodes
    BY DEF Restored, LatestOpen, RaisedAlarm, IdleAlarm
  <1>3. UNCHANGED <<database, topics, pc, batch>>
    BY DEF Adopt, database
  <1>4. ASSUME NEW j \in Instances PROVE Backed(j)'
    <2>1. Backed(j) /\ mem \in [Instances -> AlarmMemory]
      BY DEF EventsInv, TypeInv, TypeOK
    <2>2. mem'[j] = IF j = i THEN r ELSE mem[j]
      BY <1>1, <2>1
    <2>3. CASE j = i
      BY <1>2, <1>3, <2>1, <2>2, <2>3
        DEF Backed, Rooted, Settles, StoredTransition, database
    <2>4. CASE j # i
      BY <1>3, <2>1, <2>2, <2>4, BackedStays DEF database
    <2>5. QED
      BY <2>3, <2>4
  <1>5. QED
    BY <1>3, <1>4 DEF EventsInv, StoredTransition, database

LEMMA NextEvents == EventsInv /\ [Next]_vars => EventsInv'
  <1> SUFFICES ASSUME EventsInv, [Next]_vars PROVE EventsInv'
    OBVIOUS
  <1>0. TypeOK /\ TypeInv /\ TypeInv'
    BY NextType DEF EventsInv, TypeInv
  <1>1. ASSUME NEW i \in Instances, Handle(i)
        PROVE  EventsInv'
    BY <1>0, <1>1, HandleEvents
  <1>2. ASSUME NEW i \in Instances, Adopt(i)
        PROVE  EventsInv'
    BY <1>0, <1>2, AdoptEvents
  <1>3. CASE Rebalance \/ Evict
    <2>1. /\ UNCHANGED <<database, topics, pc, batch>>
          /\ \A i \in Instances : mem'[i] = mem[i] \/ mem'[i] = IdleAlarm
      BY <1>3 DEF Rebalance, Evict, JoinGroup
    <2>2. QED
      BY <1>0, <2>1, QuietEvents DEF EventsInv
  <1>4. ASSUME NEW i \in Instances,
               \/ WriteFailed(i) \/ PublishFailed(i) \/ Crash(i) \/ CommitRefused(i)
        PROVE  EventsInv'
    <2>1. UNCHANGED database /\ \A t \in topics'.alarms : StoredTransition(t)
      <3>1. CASE UNCHANGED <<database, topics>>
        BY <3>1 DEF EventsInv
      <3>2. CASE PublishFailed(i)
        <4>1. topics'.alarms \subseteq topics.alarms \cup batch[i].out
          BY <1>0, <3>2, PublishFailedSends
        <4>2. Settles(batch[i])
          BY <3>2 DEF EventsInv, Backed, PublishFailed
        <4>3. QED
          BY <3>2, <4>1, <4>2 DEF EventsInv, Settles, PublishFailed
      <3>3. QED
        BY <1>4, <3>1, <3>2 DEF WriteFailed, Crash, CommitRefused
    <2>2. /\ pc'[i] = "idle"
          /\ \A j \in Instances \ {i} : pc'[j] = pc[j] /\ batch'[j] = batch[j]
          /\ \A j \in Instances : mem'[j] = mem[j] \/ mem'[j] = IdleAlarm
      BY <1>0, <1>4 DEF WriteFailed, PublishFailed, Crash, CommitRefused, GiveBack, Stop,
                        Step, memory, TypeOK
    <2>3. QED
      BY <1>0, <2>1, <2>2, QuietEvents
  <1>5. CASE UNCHANGED <<database, topics, mem, pc, batch>>
    BY <1>0, <1>5, QuietEvents DEF EventsInv
  <1>6. QED
    <2>1. Produce \/ EditRules \/ UNCHANGED vars
            => UNCHANGED <<database, topics, mem, pc, batch>>
      BY DEF Produce, EditRules, vars, memory
    <2>2. ASSUME NEW i \in Instances,
                 \/ AdoptBlind(i) \/ Restart(i) \/ RestartUnloaded(i) \/ RefreshRules(i)
          PROVE  UNCHANGED <<database, topics, mem, pc, batch>>
      BY <2>2 DEF AdoptBlind, Restart, RestartUnloaded, RefreshRules
    <2>3. QED
      BY <1>1, <1>2, <1>3, <1>4, <1>5, <2>1, <2>2 DEF Next

(* No alarm event reaches a consumer that the database does not have.      *)
THEOREM IngestStored == Spec => []PublishedIsStored
  <1>1. EventsInv => PublishedIsStored
    BY DEF EventsInv, PublishedIsStored, StoredTransition
  <1>2. QED
    BY InitEvents, NextEvents, <1>1, PTL DEF Spec

-------------------------------------------------------------------------------
(* Proof that the episodes are sound: at most one is open, nobody forgets   *)
(* it, each was opened after Debounce cycles and closed for a reason; for   *)
(* every set of instances, every partition and batch, while processes      *)
(* crash and calls to the database and the broker fail.  The other faults  *)
(* are excluded because each of them breaks one of the three: a member     *)
(* left out or a blind adoption the first, a refused commit the second, an *)
(* edit or a start without the setpoints the third.                        *)
(*                                                                         *)
(* The argument: the first message that ends an episode depends on the     *)
(* partition only, so a batch that comes again, for another instance with  *)
(* another memory too, closes a stored episode where it was closed before, *)
(* and tries to close one too early only in a transaction that is          *)
(* rejected.  What a memory does not know yet of a stored batch it will    *)
(* come to: its own replay leads there (Leads).                            *)
EpisodeFaults == {"crash", "write", "send"}

Ruled(o) == log[o].mode \in rules

(* The message o ends an episode of e. *)
EndsAt(e, o) ==
  /\ log[o].kind = "live"
  /\ ~Ruled(o) \/ (Usable(o) /\ IsBackToNormal(Violation(e), log[o].value))
Unbroken(e, from, to) == \A o \in from + 1 .. to : ~EndsAt(e, o)

(* The last samples up to k violate the boundary b, and run has them all.  *)
Streak(run, b, k) ==
  /\ \A o \in run : Usable(o) /\ Violation(o) = b
  /\ \A o \in 1..k : Usable(o) /\ (\E p \in run : p < o) => o \in run
Counted(n, b, k) == \E run \in SUBSET (1..k) : Cardinality(run) = n /\ Streak(run, b, k)

(* An episode may begin at e. *)
Founded(e) ==
  /\ Usable(e) /\ Ruled(e) /\ Violation(e) # "none"
  /\ \E run \in SUBSET (1..e) :
       e \in run /\ Cardinality(run) = Debounce /\ Streak(run, Violation(e), e)

(* What a memory says of the messages up to k is true. *)
Knows(m, k) ==
  IF m.raised
  THEN /\ Founded(m.raisedAt) /\ m.boundary = Violation(m.raisedAt)
       /\ Unbroken(m.raisedAt, m.raisedAt, k)
  ELSE m.cycles < Debounce /\ Counted(m.cycles, m.boundary, k)

(* The engine over the partition: from m before p + 1 to b after k; it     *)
(* opens an episode at e.                                                  *)
After(m, o) ==
  IF log[o].kind = "live" THEN EvaluateAlarm(m, Ruled(o), log[o].value, o) ELSE m
Reaches(m, p, b, k) ==
  \E f \in [p..k -> AlarmMemory] :
    f[p] = m /\ f[k] = b /\ \A o \in p + 1 .. k : f[o] = After(f[o - 1], o)
Leads(m, p, e) ==
  /\ e > p
  /\ \E b \in AlarmMemory : Reaches(m, p, b, e - 1) /\ ~b.raised /\ After(b, e).raised

On(m, e) == m.raised /\ m.raisedAt = e
Written == readings \cup quarantine

(* The tables: every opening has its reason, every closing is the first    *)
(* message that ends the episode.                                          *)
TableInv ==
  /\ \A o \in 1..committed : o \in Written
  /\ \A o \in Written : o <= Len(log) /\ o <= committed + MaxBatch
  /\ \A e \in episodes : e \in Written /\ Founded(e)
  /\ \A c \in closings : /\ c[1] \in episodes /\ c[2] \in Written /\ c[1] < c[2]
                         /\ EndsAt(c[1], c[2]) /\ Unbroken(c[1], c[1], c[2] - 1)
  /\ \A e \in episodes : IsOpen(e) => \A o \in Written : o > e => ~EndsAt(e, o)
  /\ OneOpenEpisode

(* Nobody is left out of the group, and everybody has the setpoints.       *)
Calm ==
  \A i \in Instances :
    /\ known[i] = rules /\ member[i] # "stale"
    /\ owned[i] # "no" => member[i] = "current"
    /\ member[i] = "current" => i \in up

(* The message up to which the memory of an instance has come. *)
At(i) == IF pc[i] = "commit" THEN batch[i].last ELSE pos[i]

(* The owner knows the open episode, or it has written a batch that it did  *)
(* not publish and will find it there again.                               *)
Expects(i, e) ==
  \/ On(mem[i], e)
  \/ /\ attempts[i] > 0 \/ pc[i] = "send"
     /\ pc[i] # "commit" /\ Leads(mem[i], pos[i], e)

MemInv(i) ==
  /\ Knows(mem[i], At(i))
  /\ mem[i].raised =>
       /\ mem[i].raisedAt \in episodes
       /\ IsOpen(mem[i].raisedAt) \/ Unbroken(mem[i].raisedAt, At(i), mem[i].raisedAt)
  /\ \A e \in episodes : IsOpen(e) => Expects(i, e)

(* The draft d that began with the memory m after the message p. *)
DraftOpens(m, p, d) ==
  \A e \in Openings(d.out) :
    /\ p < e /\ e < d.next /\ Founded(e) /\ Leads(m, p, e)
    /\ On(d.mem, e) \/ \E c \in Closings(d.out) : c[1] = e /\ e < c[2]
DraftCloses(m, p, d) ==
  \A c \in Closings(d.out) :
    /\ p < c[2] /\ c[2] < d.next /\ EndsAt(c[1], c[2])
    /\ c[1] \in Openings(d.out) \/ (On(m, c[1]) /\ Unbroken(c[1], p, c[2] - 1))
    /\ c[1] <= c[2] => Unbroken(c[1], c[1], c[2] - 1)
DraftKeeps(m, p, d) ==
  /\ d.mem.raised => \/ d.mem.raisedAt \in Openings(d.out)
                     \/ On(m, d.mem.raisedAt) /\ Unbroken(d.mem.raisedAt, p, d.next - 1)
  /\ m.raised => \/ On(d.mem, m.raisedAt) /\ Unbroken(m.raisedAt, p, d.next - 1)
                 \/ \E c \in Closings(d.out) :
                      c[1] = m.raisedAt /\ Unbroken(c[1], p, c[2] - 1)
DraftInv(m, p, d) ==
  /\ Reaches(m, p, d.mem, d.next - 1) /\ Knows(d.mem, d.next - 1)
  /\ DraftOpens(m, p, d) /\ DraftCloses(m, p, d) /\ DraftKeeps(m, p, d)

(* It comes to the open episode, or has. *)
Finds(m, d, e) ==
  On(m, e) \/ e \in Openings(d.out) \/ Leads(d.mem, d.next - 1, e)

BatchInv(i) ==
  /\ pc[i] \in {"draft", "write", "send"} => DraftInv(mem[i], pos[i], batch[i])
  /\ pc[i] # "idle" =>
       /\ \A o \in Written : o <= batch[i].last
       /\ batch[i].last <= pos[i] + MaxBatch
  /\ pc[i] \in {"write", "send"} => batch[i].next = batch[i].last + 1
  /\ pc[i] \in {"draft", "write"} =>
       \A e \in episodes : IsOpen(e) => Finds(mem[i], batch[i], e)
  /\ pc[i] = "send" =>
       /\ \A e \in episodes : IsOpen(e) => On(batch[i].mem, e)
       /\ batch[i].mem.raised => batch[i].mem.raisedAt \in episodes

OwnerInv(i) == owned[i] = "yes" => MemInv(i) /\ BatchInv(i)

EpisodesInv ==
  /\ DurableInv /\ TableInv /\ Calm
  /\ \A i \in Instances : OwnerInv(i)

-------------------------------------------------------------------------------
(* The engine over the partition. *)

LEMMA ReachesSelf ==
  ASSUME NEW m \in AlarmMemory, NEW p \in Nat
  PROVE  Reaches(m, p, m, p)
<1> DEFINE f == [o \in p..p |-> m]
<1>1. f \in [p..p -> AlarmMemory] /\ f[p] = m
  OBVIOUS
<1>2. \A o \in p + 1 .. p : f[o] = After(f[o - 1], o)
  OBVIOUS
<1> QED BY <1>1, <1>2 DEF Reaches

LEMMA ReachesOn ==
  ASSUME NEW m, NEW p \in Nat, NEW k \in Nat, p <= k, NEW b, Reaches(m, p, b, k),
         After(b, k + 1) \in AlarmMemory
  PROVE  Reaches(m, p, After(b, k + 1), k + 1)
<1>1. PICK f \in [p..k -> AlarmMemory] :
        f[p] = m /\ f[k] = b /\ \A o \in p + 1 .. k : f[o] = After(f[o - 1], o)
  BY DEF Reaches
<1> DEFINE g == [o \in p .. k + 1 |-> IF o = k + 1 THEN After(b, k + 1) ELSE f[o]]
<1>2. g \in [p .. k + 1 -> AlarmMemory]
  BY <1>1
<1>3. g[p] = m /\ g[k + 1] = After(b, k + 1) /\ g[k] = b
  BY <1>1
<1>4. ASSUME NEW o \in p + 1 .. k + 1 PROVE g[o] = After(g[o - 1], o)
  <2>1. CASE o = k + 1
    BY <1>3, <2>1
  <2>2. CASE o # k + 1
    <3>1. o \in p + 1 .. k /\ o - 1 \in p..k
      BY <2>2
    <3>2. g[o] = f[o] /\ g[o - 1] = f[o - 1]
      BY <3>1
    <3> QED BY <1>1, <3>1, <3>2
  <2> QED BY <2>1, <2>2
<1> HIDE DEF g
<1> QED BY <1>2, <1>3, <1>4 DEF Reaches

(* Whoever leads to e goes on leading there, up to the message itself. *)
LEMMA LeadsOn ==
  ASSUME NEW m, NEW p \in Nat, NEW e \in Nat, Leads(m, p, e)
  PROVE  \/ e = p + 1 /\ ~m.raised /\ After(m, e).raised
         \/ Leads(After(m, p + 1), p + 1, e)
<1>1. PICK b \in AlarmMemory : Reaches(m, p, b, e - 1) /\ ~b.raised /\ After(b, e).raised
  BY DEF Leads
<1>2. PICK f \in [p .. e - 1 -> AlarmMemory] :
        f[p] = m /\ f[e - 1] = b /\ \A o \in p + 1 .. e - 1 : f[o] = After(f[o - 1], o)
  BY <1>1 DEF Reaches
<1>3. e > p
  BY DEF Leads
<1>4. CASE e = p + 1
  BY <1>1, <1>2, <1>4
<1>5. CASE e > p + 1
  <2> DEFINE g == [o \in p + 1 .. e - 1 |-> f[o]]
  <2>1. g \in [p + 1 .. e - 1 -> AlarmMemory] /\ g[e - 1] = b
    BY <1>2, <1>5
  <2>2. g[p + 1] = After(m, p + 1)
    <3>1. p + 1 \in p + 1 .. e - 1 /\ (p + 1) - 1 = p
      BY <1>5
    <3>2. f[p + 1] = After(f[(p + 1) - 1], p + 1)
      BY <1>2, <3>1
    <3> QED BY <1>2, <3>1, <3>2
  <2>3. ASSUME NEW o \in p + 1 + 1 .. e - 1 PROVE g[o] = After(g[o - 1], o)
    <3>1. o \in p + 1 .. e - 1 /\ o - 1 \in p + 1 .. e - 1
      OBVIOUS
    <3>2. g[o] = f[o] /\ g[o - 1] = f[o - 1]
      BY <3>1
    <3> QED BY <1>2, <3>1, <3>2
  <2> HIDE DEF g
  <2>4. Reaches(After(m, p + 1), p + 1, b, e - 1)
    BY <2>1, <2>2, <2>3 DEF Reaches
  <2> QED BY <1>1, <1>5, <2>4 DEF Leads
<1> QED BY <1>3, <1>4, <1>5

LEMMA CountedNone == ASSUME NEW b, NEW k PROVE Counted(0, b, k)
BY FS_EmptySet DEF Counted, Streak

LEMMA CountedSkip ==
  ASSUME NEW n, NEW b, NEW k \in Nat, Counted(n, b, k), ~Usable(k + 1)
  PROVE  Counted(n, b, k + 1)
<1>1. PICK run \in SUBSET (1..k) : Cardinality(run) = n /\ Streak(run, b, k)
  BY DEF Counted
<1>2. run \in SUBSET (1 .. k + 1)
  OBVIOUS
<1>3. \A o \in 1 .. k + 1 : Usable(o) => o \in 1..k
  OBVIOUS
<1>4. Streak(run, b, k + 1)
  BY <1>1, <1>3 DEF Streak
<1> QED BY <1>1, <1>2, <1>4 DEF Counted

LEMMA CountedFirst ==
  ASSUME NEW k \in Nat, Usable(k + 1)
  PROVE  \E run \in SUBSET (1 .. k + 1) :
           k + 1 \in run /\ Cardinality(run) = 1 /\ Streak(run, Violation(k + 1), k + 1)
<1>1. Cardinality({k + 1}) = 1
  BY FS_Singleton
<1>2. Streak({k + 1}, Violation(k + 1), k + 1)
  BY DEF Streak
<1> QED BY <1>1, <1>2

LEMMA CountedOn ==
  ASSUME NEW n \in Nat, NEW b, NEW k \in Nat, Counted(n, b, k), Usable(k + 1), Violation(k + 1) = b
  PROVE  \E run \in SUBSET (1 .. k + 1) :
           k + 1 \in run /\ Cardinality(run) = n + 1 /\ Streak(run, b, k + 1)
<1>1. PICK run \in SUBSET (1..k) : Cardinality(run) = n /\ Streak(run, b, k)
  BY DEF Counted
<1> DEFINE more == run \cup {k + 1}
<1>2. IsFiniteSet(run) /\ k + 1 \notin run
  <2>1. IsFiniteSet(1..k)
    BY FS_Interval
  <2>2. IsFiniteSet(run)
    BY <2>1, FS_Subset
  <2>3. k + 1 \notin 1..k
    OBVIOUS
  <2> QED BY <2>2, <2>3
<1>3. Cardinality(more) = n + 1
  BY <1>1, <1>2, FS_AddElement
<1>4. Streak(more, b, k + 1)
  <2>1. \A o \in more : Usable(o) /\ Violation(o) = b
    BY <1>1 DEF Streak
  <2>2. ASSUME NEW o \in 1 .. k + 1, Usable(o), NEW p \in more, p < o PROVE o \in more
    <3>1. CASE o = k + 1
      BY <3>1
    <3>2. CASE o # k + 1
      <4>1. o \in 1..k /\ p \in run
        BY <2>2, <3>2
      <4> QED BY <1>1, <2>2, <4>1 DEF Streak
    <3> QED BY <3>1, <3>2
  <2> HIDE DEF more
  <2> QED BY <2>1, <2>2 DEF Streak
<1> QED BY <1>3, <1>4

LEMMA FrameAt ==
  ASSUME TypeInv, NEW o \in 1..Len(log)
  PROVE  /\ log[o] \in Frames /\ log[o].value \in Int \cup {NoValue} /\ o \in Offsets
         /\ Usable(o) => log[o].kind = "live" /\ log[o].value \in Int
<1>1. log \in Seq(Frames) /\ Len(log) \in Nat /\ Len(log) <= MaxLog
  BY DEF TypeInv, TypeOK
<1>2. log[o] \in Frames
  BY <1>1
<1>3. o \in Offsets
  BY <1>1 DEF Offsets
<1> QED BY <1>2, <1>3 DEF Usable

LEMMA AfterType ==
  ASSUME TypeInv, NEW m \in AlarmMemory, NEW o \in 1..Len(log)
  PROVE  After(m, o) \in AlarmMemory
<1>1. log[o].value \in Int \cup {NoValue} /\ o \in Nat
  BY FrameAt
<1>2. \A r \in BOOLEAN : EvaluateAlarm(m, r, log[o].value, o) \in AlarmMemory
  BY <1>1, AlarmMemoryClosed
<1>3. Ruled(o) \in BOOLEAN
  BY DEF Ruled
<1> QED BY <1>2, <1>3 DEF After

(* What the message o does to the memory m. *)
Opening(m, o) == log[o].kind = "live" /\ Raises(m, Ruled(o), log[o].value)
Closing(m, o) == log[o].kind = "live" /\ Clears(m, Ruled(o), log[o].value)

LEMMA RaisedStep ==
  ASSUME TypeInv, NEW m \in AlarmMemory, NEW o \in 1..Len(log), m.raised,
         m.boundary = Violation(m.raisedAt)
  PROVE  /\ ~Opening(m, o)
         /\ Closing(m, o) <=> EndsAt(m.raisedAt, o)
         /\ Closing(m, o) => After(m, o) = IdleAlarm
         /\ ~Closing(m, o) => After(m, o) = m
<1>1. ~Opening(m, o)
  BY DEF Opening, Raises
<1>2. Closing(m, o) <=> EndsAt(m.raisedAt, o)
  BY DEF Closing, Clears, EndsAt, Usable
<1>3. Closing(m, o) => After(m, o) = IdleAlarm
  BY <1>1 DEF Closing, Opening, After, EvaluateAlarm
<1>4. ~Closing(m, o) => After(m, o) = m
  BY <1>1 DEF Closing, Opening, After, EvaluateAlarm, Clears
<1> QED BY <1>1, <1>2, <1>3, <1>4

LEMMA IdleKnows == ASSUME NEW k PROVE Knows(IdleAlarm, k) /\ ~IdleAlarm.raised
BY CountedNone DEF Knows, IdleAlarm

(* A memory that has nothing raised begins an episode or counts on. *)
LEMMA UnraisedStep ==
  ASSUME TypeInv, NEW m \in AlarmMemory, NEW k \in Nat, k + 1 \in 1..Len(log), ~m.raised,
         Knows(m, k)
  PROVE  /\ ~Closing(m, k + 1)
         /\ Opening(m, k + 1) =>
              Founded(k + 1) /\ After(m, k + 1) = RaisedAlarm(Violation(k + 1), k + 1)
         /\ ~Opening(m, k + 1) => ~After(m, k + 1).raised /\ Knows(After(m, k + 1), k + 1)
<1> DEFINE o == k + 1
           v == log[o].value
           n == CyclesAfter(m, v)
<1>1. ~Closing(m, o)
  BY DEF Closing, Clears
<1>2. v \in Int \cup {NoValue} /\ (Usable(o) <=> log[o].kind = "live" /\ v # NoValue)
  BY FrameAt DEF Usable
<1>3. m.cycles \in Nat /\ m.cycles < Debounce /\ Counted(m.cycles, m.boundary, k)
  BY DEF Knows, AlarmMemory
<1>4. ASSUME Usable(o)
      PROVE  /\ n \in Nat /\ n <= Debounce
             /\ \E run \in SUBSET (1..o) :
                  o \in run /\ Cardinality(run) = n /\ Streak(run, Violation(o), o)
  <2>1. CASE m.boundary = Violation(o)
    <3>1. n = m.cycles + 1
      BY <2>1 DEF CyclesAfter, Violation
    <3> QED BY <1>3, <1>4, <2>1, <3>1, CountedOn
  <2>2. CASE m.boundary # Violation(o)
    <3>1. n = 1
      BY <2>2 DEF CyclesAfter, Violation
    <3> QED BY <1>3, <1>4, <3>1, CountedFirst
  <2> QED BY <2>1, <2>2
<1>5. ASSUME Opening(m, o)
      PROVE  Founded(o) /\ After(m, o) = RaisedAlarm(Violation(o), o)
  <2>1. Usable(o) /\ Ruled(o) /\ Violation(o) # "none" /\ n >= Debounce
    BY <1>2, <1>5 DEF Opening, Raises, Violation
  <2>2. n = Debounce
    BY <1>4, <2>1
  <2>3. Founded(o)
    BY <1>4, <2>1, <2>2 DEF Founded
  <2>4. After(m, o) = RaisedAlarm(Violation(o), o)
    BY <1>5 DEF Opening, After, EvaluateAlarm, Violation
  <2> QED BY <2>3, <2>4
<1>6. ASSUME ~Opening(m, o)
      PROVE  ~After(m, o).raised /\ Knows(After(m, o), o)
  <2>1. CASE ~Usable(o)
    <3>1. After(m, o) \in {m, IdleAlarm}
      BY <1>1, <1>2, <1>6, <2>1 DEF After, EvaluateAlarm, Opening, Closing
    <3>2. Knows(m, o)
      BY <1>3, <2>1, CountedSkip DEF Knows
    <3> QED BY <3>1, <3>2, IdleKnows
  <2>2. CASE Usable(o) /\ (~Ruled(o) \/ Violation(o) = "none")
    <3>1. After(m, o) = IdleAlarm
      BY <1>1, <1>2, <1>6, <2>2 DEF After, EvaluateAlarm, Opening, Closing, Violation
    <3> QED BY <3>1, IdleKnows
  <2>3. CASE Usable(o) /\ Ruled(o) /\ Violation(o) # "none"
    <3>1. n < Debounce
      BY <1>2, <1>4, <1>6, <2>3 DEF Opening, Raises, Violation
    <3>2. After(m, o) = PendingAlarm(Violation(o), n)
      BY <1>1, <1>2, <1>6, <2>3 DEF After, EvaluateAlarm, Opening, Closing, Violation
    <3>3. Counted(n, Violation(o), o)
      BY <1>4, <2>3 DEF Counted
    <3>4. /\ ~After(m, o).raised /\ After(m, o).cycles = n
          /\ After(m, o).boundary = Violation(o)
      BY <3>2 DEF PendingAlarm
    <3> QED BY <3>1, <3>3, <3>4 DEF Knows
  <2> QED BY <2>1, <2>2, <2>3
<1> QED BY <1>1, <1>5, <1>6

-------------------------------------------------------------------------------
(* A draft. *)
Next1(d) == Drafted(d, log[d.next], Ruled(d.next))

LEMMA DraftedParts ==
  ASSUME TypeInv, NEW d \in Draft, d.next \in 1..Len(log)
  PROVE  /\ Next1(d).next = d.next + 1 /\ Next1(d).mem = After(d.mem, d.next)
         /\ Openings(Next1(d).out) =
              Openings(d.out) \cup (IF Opening(d.mem, d.next) THEN {d.next} ELSE {})
         /\ Closings(Next1(d).out) =
              Closings(d.out) \cup
                (IF Closing(d.mem, d.next) THEN {<<d.mem.raisedAt, d.next>>} ELSE {})
<1> DEFINE o == d.next
           f == log[o]
           new == TransitionsOf(d.mem, Ruled(o), f.value, o)
<1>1. CASE f.kind # "live"
  BY <1>1 DEF Next1, Drafted, After, Opening, Closing
<1>2. CASE f.kind = "live"
  <2>1. /\ Next1(d).next = o + 1 /\ Next1(d).out = d.out \cup new
        /\ Next1(d).mem = After(d.mem, o)
    BY <1>2 DEF Next1, Drafted, After
  <2>2. /\ Openings(d.out \cup new) = Openings(d.out) \cup Openings(new)
        /\ Closings(d.out \cup new) = Closings(d.out) \cup Closings(new)
    BY DEF Openings, Closings
  <2>3. ~(Opening(d.mem, o) /\ Closing(d.mem, o))
    BY DEF Opening, Closing, Raises, Clears
  <2>4. CASE Closing(d.mem, o)
    <3> DEFINE t == [state |-> "cleared", raisedAt |-> d.mem.raisedAt, at |-> o]
    <3>1. new = {t}
      BY <2>4 DEF TransitionsOf, Closing
    <3>2. t.state = "cleared" /\ t.raisedAt = d.mem.raisedAt /\ t.at = o
      OBVIOUS
    <3> HIDE DEF t, new
    <3>3. Openings(new) = {} /\ Closings(new) = {<<d.mem.raisedAt, o>>}
      BY <3>1, <3>2 DEF Openings, Closings
    <3> QED BY <2>1, <2>2, <2>3, <2>4, <3>3
  <2>5. CASE Opening(d.mem, o)
    <3> DEFINE t == [state |-> "raised", raisedAt |-> o, at |-> o]
    <3>1. new = {t}
      BY <2>3, <2>5 DEF TransitionsOf, Closing, Opening
    <3>2. t.state = "raised" /\ t.raisedAt = o /\ t.at = o
      OBVIOUS
    <3> HIDE DEF t, new
    <3>3. Openings(new) = {o} /\ Closings(new) = {}
      BY <3>1, <3>2 DEF Openings, Closings
    <3> QED BY <2>1, <2>2, <2>3, <2>5, <3>3
  <2>6. CASE ~Opening(d.mem, o) /\ ~Closing(d.mem, o)
    <3>1. new = {}
      BY <1>2, <2>6 DEF TransitionsOf, Closing, Opening
    <3>2. Openings({}) = {} /\ Closings({}) = {}
      BY DEF Openings, Closings
    <3> QED BY <2>1, <2>2, <2>6, <3>1, <3>2
  <2> QED BY <2>4, <2>5, <2>6
<1> QED BY <1>1, <1>2

LEMMA UnbrokenOn ==
  ASSUME NEW e, NEW p \in Int, NEW o \in Int, Unbroken(e, p, o - 1), ~EndsAt(e, o)
  PROVE  Unbroken(e, p, o)
BY DEF Unbroken

(* The loop over the batch keeps what is known of the draft. *)
LEMMA DraftStep ==
  ASSUME TypeInv, NEW m \in AlarmMemory, NEW p \in Nat, NEW d \in Draft,
         d.next \in 1..Len(log), p < d.next, DraftInv(m, p, d)
  PROVE  DraftInv(m, p, Next1(d))
<1> DEFINE o == d.next
           n == Next1(d)
<1>1. /\ n.next = o + 1 /\ n.mem = After(d.mem, o) /\ o \in Nat /\ o - 1 \in Nat
      /\ (o - 1) + 1 = o /\ (o + 1) - 1 = o /\ p <= o - 1 /\ n.next - 1 = o
  BY DraftedParts
<1>2. d.mem \in AlarmMemory /\ n.mem \in AlarmMemory
  BY <1>1, AfterType DEF Draft
<1>3. Reaches(m, p, n.mem, o)
  <2>1. Reaches(m, p, d.mem, o - 1)
    BY DEF DraftInv
  <2> QED BY <1>1, <1>2, <2>1, ReachesOn
<1>4. Knows(d.mem, o - 1) /\ Reaches(m, p, d.mem, o - 1)
  BY DEF DraftInv
<1>5. CASE d.mem.raised /\ Closing(d.mem, o)
  <2> DEFINE e == d.mem.raisedAt
  <2>1. /\ EndsAt(e, o) /\ n.mem = IdleAlarm /\ ~Opening(d.mem, o) /\ Unbroken(e, e, o - 1)
        /\ e \in Nat
    BY <1>1, <1>2, <1>4, <1>5, RaisedStep DEF Knows, AlarmMemory
  <2>2. Openings(n.out) = Openings(d.out) /\ Closings(n.out) = Closings(d.out) \cup {<<e, o>>}
    <3>1. /\ Openings(n.out) = Openings(d.out) \cup (IF Opening(d.mem, o) THEN {o} ELSE {})
          /\ Closings(n.out) = Closings(d.out) \cup (IF Closing(d.mem, o) THEN {<<e, o>>} ELSE {})
      BY DraftedParts
    <3> HIDE DEF e, n, o
    <3> QED BY <1>5, <2>1, <3>1
  <2>3. Knows(n.mem, o) /\ ~n.mem.raised
    BY <2>1, IdleKnows
  <2>4. DraftOpens(m, p, n)
    <3>1. ASSUME NEW x \in Openings(n.out)
          PROVE  /\ p < x /\ x < n.next /\ Founded(x) /\ Leads(m, p, x)
                 /\ \E c \in Closings(n.out) : c[1] = x /\ x < c[2]
      <4>1. /\ p < x /\ x < d.next /\ Founded(x) /\ Leads(m, p, x)
            /\ On(d.mem, x) \/ \E c \in Closings(d.out) : c[1] = x /\ x < c[2]
        BY <2>2 DEF DraftInv, DraftOpens
      <4>2. x < n.next
        <5>1. x \in Nat
          BY <2>2 DEF Openings, Draft, Transition, Offsets
        <5> QED BY <1>1, <4>1, <5>1
      <4>3. CASE On(d.mem, x)
        <5>1. x = e /\ <<e, o>>[1] = e /\ <<e, o>>[2] = o
          BY <4>3 DEF On
        <5> QED BY <2>2, <4>1, <4>2, <5>1
      <4>4. CASE ~On(d.mem, x)
        BY <2>2, <4>1, <4>2, <4>4
      <4> QED BY <4>3, <4>4
    <3> QED BY <3>1 DEF DraftOpens
  <2>5. e \in Openings(d.out) \/ (On(m, e) /\ Unbroken(e, p, o - 1))
    BY <1>5 DEF DraftInv, DraftKeeps
  <2>6. DraftCloses(m, p, n)
    <3>1. ASSUME NEW c \in Closings(n.out)
          PROVE  /\ p < c[2] /\ c[2] < n.next /\ EndsAt(c[1], c[2])
                 /\ c[1] \in Openings(n.out) \/ (On(m, c[1]) /\ Unbroken(c[1], p, c[2] - 1))
                 /\ c[1] <= c[2] => Unbroken(c[1], c[1], c[2] - 1)
      <4>1. CASE c = <<e, o>>
        <5>1. c[1] = e /\ c[2] = o
          BY <4>1
        <5> QED BY <1>1, <2>1, <2>2, <2>5, <5>1
      <4>2. CASE c \in Closings(d.out)
        <5>1. c[2] \in Nat
          BY <4>2 DEF Closings, Draft, Transition, Offsets
        <5> QED BY <1>1, <2>2, <4>2, <5>1 DEF DraftInv, DraftCloses
      <4> QED BY <2>2, <4>1, <4>2
    <3> QED BY <3>1 DEF DraftCloses
  <2>7. DraftKeeps(m, p, n)
    <3>1. ASSUME m.raised
          PROVE  \E c \in Closings(n.out) : c[1] = m.raisedAt /\ Unbroken(c[1], p, c[2] - 1)
      <4>1. CASE On(d.mem, m.raisedAt) /\ Unbroken(m.raisedAt, p, o - 1)
        <5>1. <<e, o>>[1] = m.raisedAt /\ <<e, o>>[2] = o
          BY <4>1 DEF On
        <5> QED BY <2>2, <4>1, <5>1
      <4> QED BY <2>2, <3>1, <4>1 DEF DraftInv, DraftKeeps
    <3> QED BY <2>3, <3>1 DEF DraftKeeps
  <2> QED BY <1>1, <1>3, <2>3, <2>4, <2>6, <2>7 DEF DraftInv
<1>6. CASE d.mem.raised /\ ~Closing(d.mem, o)
  <2> DEFINE e == d.mem.raisedAt
  <2>1. ~EndsAt(e, o) /\ n.mem = d.mem /\ ~Opening(d.mem, o)
    BY <1>1, <1>2, <1>4, <1>6, RaisedStep DEF Knows
  <2>2. Openings(n.out) = Openings(d.out) /\ Closings(n.out) = Closings(d.out)
    BY <1>6, <2>1, DraftedParts
  <2>3. Knows(n.mem, o)
    BY <1>1, <1>2, <1>4, <1>6, <2>1, UnbrokenOn DEF Knows, AlarmMemory
  <2>4. (\A x \in Openings(d.out) : x \in Nat) /\ \A c \in Closings(d.out) : c[2] \in Nat
    BY DEF Openings, Closings, Draft, Transition, Offsets
  <2>5. DraftOpens(m, p, n)
    BY <1>1, <2>1, <2>2, <2>4 DEF DraftInv, DraftOpens
  <2>6. DraftCloses(m, p, n)
    BY <1>1, <2>1, <2>2, <2>4 DEF DraftInv, DraftCloses
  <2>7. Unbroken(e, p, o - 1) => Unbroken(e, p, o)
    BY <1>1, <2>1, UnbrokenOn
  <2>8. DraftKeeps(m, p, n)
    BY <1>1, <2>1, <2>2, <2>7 DEF DraftInv, DraftKeeps, On
  <2> QED BY <1>1, <1>3, <2>3, <2>5, <2>6, <2>8 DEF DraftInv
<1>7. CASE ~d.mem.raised /\ Opening(d.mem, o)
  <2>1. Founded(o) /\ n.mem = RaisedAlarm(Violation(o), o) /\ ~Closing(d.mem, o)
    BY <1>1, <1>2, <1>4, <1>7, UnraisedStep
  <2>2. Openings(n.out) = Openings(d.out) \cup {o} /\ Closings(n.out) = Closings(d.out)
    BY <1>7, <2>1, DraftedParts
  <2>3. n.mem.raised /\ n.mem.raisedAt = o /\ n.mem.boundary = Violation(o) /\ On(n.mem, o)
    BY <2>1 DEF RaisedAlarm, On
  <2>4. Knows(n.mem, o)
    BY <1>1, <2>1, <2>3 DEF Knows, Unbroken
  <2>5. Leads(m, p, o)
    BY <1>1, <1>2, <1>4, <1>7, <2>3 DEF Leads
  <2>6. (\A x \in Openings(d.out) : x \in Nat) /\ \A c \in Closings(d.out) : c[2] \in Nat
    BY DEF Openings, Closings, Draft, Transition, Offsets
  <2>7. DraftOpens(m, p, n)
    BY <1>1, <1>7, <2>1, <2>2, <2>3, <2>5, <2>6 DEF DraftInv, DraftOpens, On
  <2>8. DraftCloses(m, p, n)
    BY <1>1, <2>2, <2>6 DEF DraftInv, DraftCloses
  <2>9. DraftKeeps(m, p, n)
    BY <1>1, <1>7, <2>2, <2>3 DEF DraftInv, DraftKeeps, On
  <2> QED BY <1>1, <1>3, <2>4, <2>7, <2>8, <2>9 DEF DraftInv
<1>8. CASE ~d.mem.raised /\ ~Opening(d.mem, o)
  <2>1. ~n.mem.raised /\ Knows(n.mem, o) /\ ~Closing(d.mem, o)
    BY <1>1, <1>2, <1>4, <1>8, UnraisedStep
  <2>2. Openings(n.out) = Openings(d.out) /\ Closings(n.out) = Closings(d.out)
    BY <1>8, <2>1, DraftedParts
  <2>3. (\A x \in Openings(d.out) : x \in Nat) /\ \A c \in Closings(d.out) : c[2] \in Nat
    BY DEF Openings, Closings, Draft, Transition, Offsets
  <2>4. DraftOpens(m, p, n)
    BY <1>1, <1>8, <2>2, <2>3 DEF DraftInv, DraftOpens, On
  <2>5. DraftCloses(m, p, n)
    BY <1>1, <2>2, <2>3 DEF DraftInv, DraftCloses
  <2>6. DraftKeeps(m, p, n)
    BY <1>8, <2>1, <2>2 DEF DraftInv, DraftKeeps, On
  <2> QED BY <1>1, <1>3, <2>1, <2>4, <2>5, <2>6 DEF DraftInv
<1> QED BY <1>5, <1>6, <1>7, <1>8

(* Who will find an episode does not lose it. *)
LEMMA FindsStep ==
  ASSUME TypeInv, NEW m, NEW d \in Draft, d.next \in 1..Len(log), Knows(d.mem, d.next - 1),
         NEW e \in Nat, Finds(m, d, e)
  PROVE  Finds(m, Next1(d), e)
<1> DEFINE k == d.next - 1
           n == Next1(d)
<1>1. k \in Nat /\ k + 1 = d.next /\ n.next - 1 = k + 1 /\ n.mem = After(d.mem, k + 1)
  BY DraftedParts
<1>2. Openings(d.out) \subseteq Openings(n.out)
      /\ (Opening(d.mem, k + 1) => k + 1 \in Openings(n.out))
  BY <1>1, DraftedParts
<1>3. d.mem \in AlarmMemory
  BY DEF Draft
<1>4. CASE Leads(d.mem, k, e)
  <2>1. CASE e = k + 1 /\ ~d.mem.raised /\ After(d.mem, e).raised
    <3>1. Opening(d.mem, k + 1)
      BY <1>1, <1>3, <2>1, UnraisedStep
    <3> QED BY <1>2, <2>1, <3>1 DEF Finds
  <2>2. CASE Leads(After(d.mem, k + 1), k + 1, e)
    BY <1>1, <2>2 DEF Finds
  <2> QED BY <1>1, <1>4, <2>1, <2>2, LeadsOn
<1>5. CASE On(m, e) \/ e \in Openings(d.out)
  BY <1>2, <1>5 DEF Finds
<1> QED BY <1>4, <1>5 DEF Finds

-------------------------------------------------------------------------------
(* What is said of messages stays true while the partition grows. *)
LogGrows ==
  /\ TypeInv /\ TypeInv' /\ rules' = rules /\ Len(log) <= Len(log')
  /\ \A o \in 1..Len(log) : log'[o] = log[o]

LEMMA EndsStay ==
  ASSUME LogGrows, NEW e \in 1..Len(log), NEW o \in 1..Len(log)
  PROVE  /\ EndsAt(e, o)' <=> EndsAt(e, o)
         /\ Usable(o)' <=> Usable(o)
         /\ Violation(o)' = Violation(o)
         /\ Ruled(o)' <=> Ruled(o)
BY DEF LogGrows, EndsAt, Usable, Violation, Ruled

LEMMA UnbrokenStays ==
  ASSUME LogGrows, NEW e \in 1..Len(log), NEW a \in Nat, NEW b \in Int,
         b <= Len(log), Unbroken(e, a, b)
  PROVE  Unbroken(e, a, b)'
<1>1. Len(log) \in Nat
  BY DEF LogGrows, TypeInv, TypeOK
<1>2. ASSUME NEW o \in a + 1 .. b PROVE ~EndsAt(e, o)'
  <2>1. o \in 1..Len(log)
    BY <1>1
  <2> QED BY <2>1, EndsStay DEF Unbroken
<1> QED BY <1>2 DEF Unbroken

LEMMA StreakStays ==
  ASSUME LogGrows, NEW k \in Nat, k <= Len(log), NEW run \in SUBSET (1..k), NEW b, Streak(run, b, k)
  PROVE  Streak(run, b, k)'
<1>1. Len(log) \in Nat
  BY DEF LogGrows, TypeInv, TypeOK
<1>2. \A o \in 1..k : o \in 1..Len(log)
  BY <1>1
<1>3. \A o \in 1..k : (Usable(o)' <=> Usable(o)) /\ Violation(o)' = Violation(o)
  BY <1>2, EndsStay
<1> QED BY <1>3 DEF Streak

LEMMA FoundedStays ==
  ASSUME LogGrows, NEW e \in 1..Len(log), Founded(e)
  PROVE  Founded(e)'
<1>1. Usable(e)' /\ Ruled(e)' /\ Violation(e)' # "none" /\ Violation(e)' = Violation(e)
  BY EndsStay DEF Founded
<1>2. PICK run \in SUBSET (1..e) :
        e \in run /\ Cardinality(run) = Debounce /\ Streak(run, Violation(e), e)
  BY DEF Founded
<1>3. e \in Nat /\ e <= Len(log)
  BY DEF LogGrows, TypeInv, TypeOK
<1>4. Streak(run, Violation(e), e)'
  <2> DEFINE b == Violation(e)
  <2>1. b' = b /\ Streak(run, b, e)
    BY <1>1, <1>2
  <2>2. \A x : Streak(run, x, e) => Streak(run, x, e)'
    BY <1>3, StreakStays
  <2> QED BY <2>1, <2>2
<1> QED BY <1>1, <1>2, <1>4 DEF Founded

LEMMA KnowsStays ==
  ASSUME LogGrows, NEW m, NEW k \in Nat, k <= Len(log),
         m.raised => m.raisedAt \in 1..Len(log), Knows(m, k)
  PROVE  Knows(m, k)'
<1>1. CASE m.raised
  <2> DEFINE e == m.raisedAt
  <2>1. e \in 1..Len(log) /\ e \in Nat
    BY <1>1
  <2>2. Founded(e)' /\ Violation(e)' = Violation(e) /\ Unbroken(e, e, k)'
    BY <1>1, <2>1, FoundedStays, EndsStay, UnbrokenStays DEF Knows
  <2> QED BY <1>1, <2>2 DEF Knows
<1>2. CASE ~m.raised
  BY <1>2, StreakStays DEF Knows, Counted
<1> QED BY <1>1, <1>2

LEMMA AfterStays ==
  ASSUME LogGrows, NEW m, NEW o \in 1..Len(log)
  PROVE  After(m, o)' = After(m, o)
<1>1. log'[o] = log[o] /\ (Ruled(o)' <=> Ruled(o))
  BY EndsStay DEF LogGrows
<1>2. Ruled(o)' = Ruled(o)
  BY <1>1 DEF Ruled
<1> QED BY <1>1, <1>2 DEF After

LEMMA ReachesStays ==
  ASSUME LogGrows, NEW m, NEW p \in Nat, NEW b, NEW k \in Int, k <= Len(log), Reaches(m, p, b, k)
  PROVE  Reaches(m, p, b, k)'
<1>1. PICK f \in [p..k -> AlarmMemory] :
        f[p] = m /\ f[k] = b /\ \A o \in p + 1 .. k : f[o] = After(f[o - 1], o)
  BY DEF Reaches
<1>2. Len(log) \in Nat
  BY DEF LogGrows, TypeInv, TypeOK
<1>3. ASSUME NEW o \in p + 1 .. k PROVE f[o] = After(f[o - 1], o)'
  <2>1. o \in 1..Len(log)
    BY <1>2
  <2> QED BY <1>1, <2>1, AfterStays
<1> QED BY <1>1, <1>3 DEF Reaches

LEMMA LeadsStays ==
  ASSUME LogGrows, NEW m, NEW p \in Nat, NEW e \in 1..Len(log), Leads(m, p, e)
  PROVE  Leads(m, p, e)'
<1>1. PICK b \in AlarmMemory : Reaches(m, p, b, e - 1) /\ ~b.raised /\ After(b, e).raised
  BY DEF Leads
<1>2. e - 1 \in Int /\ e - 1 <= Len(log)
  <2>1. Len(log) \in Nat
    BY DEF LogGrows, TypeInv, TypeOK
  <2> QED BY <2>1
<1>3. Reaches(m, p, b, e - 1)' /\ After(b, e)' = After(b, e)
  BY <1>1, <1>2, ReachesStays, AfterStays
<1> QED BY <1>1, <1>3 DEF Leads

LEMMA DraftStays ==
  ASSUME LogGrows, NEW m \in AlarmMemory, m.raised => m.raisedAt \in 1..Len(log),
         NEW p \in Nat, NEW d \in Draft, p < d.next, d.next - 1 <= Len(log), DraftInv(m, p, d)
  PROVE  DraftInv(m, p, d)' /\ (d.mem.raised => d.mem.raisedAt \in 1..Len(log))
<1> DEFINE L == 1..Len(log)
<1>1. Len(log) \in Nat /\ d.next \in Nat /\ d.next - 1 \in Nat
  <2>1. Len(log) \in Nat
    BY DEF LogGrows, TypeInv, TypeOK
  <2>2. d.next \in Nat
    BY DEF Draft
  <2> QED BY <2>1, <2>2
<1>2. \A e \in Openings(d.out) : e \in L
  <2>1. \A e \in Openings(d.out) : e \in Nat
    BY DEF Openings, Draft, Transition, Offsets
  <2>2. \A e \in Openings(d.out) : p < e /\ e < d.next
    BY DEF DraftInv, DraftOpens
  <2> QED BY <1>1, <2>1, <2>2
<1>3. \A c \in Closings(d.out) : c[2] \in L /\ c[2] - 1 \in Int /\ c[2] - 1 <= Len(log)
  BY <1>1 DEF DraftInv, DraftCloses, Closings, Draft, Transition, Offsets
<1>4. \A c \in Closings(d.out) : c[1] \in L /\ c[1] \in Nat
  BY <1>1, <1>2 DEF DraftInv, DraftCloses, On
<1>5. d.mem.raised => d.mem.raisedAt \in L
  BY <1>2 DEF DraftInv, DraftKeeps, On
<1>6. Reaches(m, p, d.mem, d.next - 1)'
  <2>1. Reaches(m, p, d.mem, d.next - 1)
    BY DEF DraftInv
  <2> QED BY <1>1, <2>1, ReachesStays
<1>7. Knows(d.mem, d.next - 1)'
  <2>1. Knows(d.mem, d.next - 1)
    BY DEF DraftInv
  <2> QED BY <1>1, <1>5, <2>1, KnowsStays
<1>8. DraftOpens(m, p, d)'
  <2>1. \A e \in Openings(d.out) : Founded(e)' /\ Leads(m, p, e)'
    BY <1>2, FoundedStays, LeadsStays DEF DraftInv, DraftOpens
  <2> QED BY <2>1 DEF DraftInv, DraftOpens
<1>9. DraftCloses(m, p, d)'
  <2>1. \A c \in Closings(d.out) :
          /\ EndsAt(c[1], c[2])'
          /\ Unbroken(c[1], p, c[2] - 1) => Unbroken(c[1], p, c[2] - 1)'
          /\ Unbroken(c[1], c[1], c[2] - 1) => Unbroken(c[1], c[1], c[2] - 1)'
    BY <1>3, <1>4, EndsStay, UnbrokenStays DEF DraftInv, DraftCloses
  <2> QED BY <2>1 DEF DraftInv, DraftCloses
<1>10. DraftKeeps(m, p, d)'
  <2>1. d.mem.raised => (Unbroken(d.mem.raisedAt, p, d.next - 1)
                           => Unbroken(d.mem.raisedAt, p, d.next - 1)')
    BY <1>1, <1>5, UnbrokenStays
  <2>2. m.raised => (Unbroken(m.raisedAt, p, d.next - 1) => Unbroken(m.raisedAt, p, d.next - 1)')
    BY <1>1, UnbrokenStays
  <2>3. \A c \in Closings(d.out) : Unbroken(c[1], p, c[2] - 1) => Unbroken(c[1], p, c[2] - 1)'
    BY <1>3, <1>4, UnbrokenStays
  <2> QED BY <2>1, <2>2, <2>3 DEF DraftInv, DraftKeeps
<1> QED BY <1>5, <1>6, <1>7, <1>8, <1>9, <1>10 DEF DraftInv

LEMMA FindsStays ==
  ASSUME LogGrows, NEW m, NEW d \in Draft, d.next > 0, NEW e \in 1..Len(log), Finds(m, d, e)
  PROVE  Finds(m, d, e)'
<1>1. d.next - 1 \in Nat
  BY DEF Draft
<1>2. Leads(d.mem, d.next - 1, e) => Leads(d.mem, d.next - 1, e)'
  BY <1>1, LeadsStays
<1> QED BY <1>2 DEF Finds

-------------------------------------------------------------------------------
(* Steps that write nothing. *)

LEMMA EpisodeTypes ==
  ASSUME EpisodesInv
  PROVE  /\ TypeInv /\ TypeOK /\ Len(log) \in Nat /\ committed \in Nat /\ log \in Seq(Frames)
         /\ \A o \in Written : o \in 1..Len(log)
         /\ \A e \in episodes : e \in 1..Len(log) /\ e \in Written
         /\ \A c \in closings : c[1] \in 1..Len(log) /\ c[2] \in 1..Len(log)
         /\ \A i \in Instances : Membership(i) /\ OwnerInv(i)
<1>1. TypeInv /\ TypeOK /\ Len(log) \in Nat /\ committed \in Nat /\ log \in Seq(Frames)
  BY DEF EpisodesInv, DurableInv, TypeInv, TypeOK
<1>2. \A o \in Written : o \in 1..Len(log)
  BY <1>1 DEF EpisodesInv, TableInv, Written, TypeOK, Offsets
<1>3. \A e \in episodes : e \in Written
  BY DEF EpisodesInv, TableInv
<1>4. \A c \in closings : c[1] \in episodes /\ c[2] \in Written
  BY DEF EpisodesInv, TableInv
<1>5. \A i \in Instances : Membership(i) /\ OwnerInv(i)
  BY DEF EpisodesInv, DurableInv
<1> QED BY <1>1, <1>2, <1>3, <1>4, <1>5

(* The owner, and what it has in its hands. *)
LEMMA OwnerTypes ==
  ASSUME EpisodesInv, NEW i \in Instances
  PROVE  /\ mem[i] \in AlarmMemory /\ pos[i] \in Nat /\ pos[i] <= committed
         /\ batch[i] \in Draft /\ batch[i].last \in Nat /\ batch[i].next \in Nat
         /\ attempts[i] \in Nat
         /\ pc[i] # "idle" => /\ owned[i] = "yes" /\ member[i] = "current" /\ owner = i
                              /\ pos[i] < batch[i].last /\ batch[i].last <= Len(log)
         /\ owned[i] # "no" => /\ member[i] = "current" /\ owner = i /\ i \in up
                               /\ pos[i] = committed
         /\ pc[i] = "draft" => batch[i].next \in pos[i] + 1 .. batch[i].last
<1>1. TypeOK /\ BatchInRange /\ Membership(i) /\ Calm
  BY EpisodeTypes DEF EpisodesInv, TypeInv
<1>2. /\ mem[i] \in AlarmMemory /\ pos[i] \in Nat /\ batch[i] \in Draft /\ attempts[i] \in Nat
  BY <1>1 DEF TypeOK
<1>3. batch[i].last \in Nat /\ batch[i].next \in Nat
  BY <1>2 DEF Draft
<1>4. owned[i] # "no" => member[i] = "current" /\ owner = i /\ i \in up /\ pos[i] = committed
  BY <1>1 DEF Calm, Membership
<1> QED BY <1>1, <1>2, <1>3, <1>4 DEF Membership, BatchInRange

(* Nobody but the owner of the partition has anything to keep. *)
LEMMA OneOwner ==
  ASSUME EpisodesInv, NEW i \in Instances, NEW j \in Instances, owned[i] = "yes", owned[j] = "yes"
  PROVE  i = j
BY OwnerTypes

LEMMA TableStays ==
  ASSUME EpisodesInv, LogGrows, DurableInv', UNCHANGED <<readings, quarantine, episodes, closings>>,
         committed <= committed'
  PROVE  TableInv'
<1>1. /\ \A o \in Written : o \in 1..Len(log)
      /\ \A e \in episodes : e \in 1..Len(log)
      /\ \A c \in closings : c[1] \in 1..Len(log) /\ c[2] \in 1..Len(log)
      /\ Len(log) \in Nat /\ committed \in Nat /\ Len(log') \in Nat /\ committed' \in Nat
  BY EpisodeTypes DEF DurableInv, TypeInv, TypeOK
<1>2. Written' = Written /\ \A e : IsOpen(e)' <=> IsOpen(e)
  BY DEF Written, IsOpen
<1>3. \A o \in 1..committed' : o \in Written'
  <2>1. ASSUME NEW o \in 1..committed' PROVE o \in Written'
    <3>1. Stored(o)' /\ o \in 1..Len(log')
      BY <1>1 DEF DurableInv
    <3>2. log'[o].kind \in FrameKind
      <4>1. log' \in Seq(Frames)
        BY DEF DurableInv, TypeInv, TypeOK
      <4> QED BY <3>1, <4>1
    <3> QED BY <3>1, <3>2 DEF Stored, Written, FrameKind
  <2> QED BY <2>1
<1>4. \A o \in Written' : o <= Len(log') /\ o <= committed' + MaxBatch
  BY <1>1, <1>2 DEF EpisodesInv, TableInv, LogGrows
<1>5. \A e \in episodes' : e \in Written' /\ Founded(e)'
  BY <1>1, <1>2, FoundedStays DEF EpisodesInv, TableInv
<1>6. ASSUME NEW c \in closings'
      PROVE  /\ c[1] \in episodes' /\ c[2] \in Written' /\ c[1] < c[2]
             /\ EndsAt(c[1], c[2])' /\ Unbroken(c[1], c[1], c[2] - 1)'
  <2>1. /\ c[1] \in episodes /\ c[2] \in Written /\ c[1] < c[2]
        /\ EndsAt(c[1], c[2]) /\ Unbroken(c[1], c[1], c[2] - 1)
    BY DEF EpisodesInv, TableInv
  <2>2. c[1] \in 1..Len(log) /\ c[2] \in 1..Len(log)
    BY <1>1
  <2>3. c[1] \in Nat /\ c[2] - 1 \in Int /\ c[2] - 1 <= Len(log)
    BY <1>1, <2>2
  <2> QED BY <1>2, <2>1, <2>2, <2>3, EndsStay, UnbrokenStays
<1>7. \A e \in episodes' : IsOpen(e)' => \A o \in Written' : o > e => ~EndsAt(e, o)'
  BY <1>1, <1>2, EndsStay DEF EpisodesInv, TableInv
<1>8. OneOpenEpisode'
  BY <1>2 DEF EpisodesInv, TableInv, OneOpenEpisode
<1> QED BY <1>3, <1>4, <1>5, <1>6, <1>7, <1>8 DEF TableInv

(* The owner goes on, or puts its batch down before it is published.       *)
GoesOn(i) == pc'[i] = pc[i] /\ batch'[i] = batch[i]
PutsDown(i) == pc'[i] = "idle" /\ pc[i] # "commit" /\ (pc[i] = "send" => attempts'[i] > 0)

(* For its memory it is the same place.                                    *)
SamePlace(i) ==
  /\ pc'[i] = "commit" <=> pc[i] = "commit"
  /\ pc[i] = "commit" => batch'[i] = batch[i]
  /\ pc[i] = "send" => pc'[i] = "send" \/ attempts'[i] > 0

LEMMA PlaceOf ==
  ASSUME NEW i \in Instances, GoesOn(i) \/ PutsDown(i)
  PROVE  SamePlace(i)
BY DEF GoesOn, PutsDown, SamePlace

LEMMA MemStays ==
  ASSUME EpisodesInv, LogGrows, UNCHANGED <<episodes, closings>>, NEW i \in Instances,
         owned[i] = "yes", mem'[i] = mem[i], pos'[i] = pos[i],
         attempts[i] > 0 => attempts'[i] > 0, SamePlace(i)
  PROVE  MemInv(i)'
<1>1. /\ MemInv(i) /\ Len(log) \in Nat /\ committed \in Nat
      /\ \A e \in episodes : e \in 1..Len(log)
  BY EpisodeTypes DEF OwnerInv
<1>2. At(i)' = At(i)
  BY DEF At, SamePlace
<1>3. At(i) \in Nat /\ At(i) <= Len(log)
  BY <1>1, OwnerTypes DEF At, EpisodesInv, DurableInv
<1>4. \A e : IsOpen(e)' <=> IsOpen(e)
  BY DEF IsOpen
<1> DEFINE a == At(i)
           m == mem[i]
<1>5. Knows(m, a)'
  <2>1. Knows(m, a) /\ (m.raised => m.raisedAt \in 1..Len(log))
    BY <1>1 DEF MemInv
  <2>2. \A x, k : Knows(x, k) /\ k \in Nat /\ k <= Len(log)
                    /\ (x.raised => x.raisedAt \in 1..Len(log)) => Knows(x, k)'
    BY KnowsStays
  <2>3. m' = m /\ a' = a
    BY <1>2
  <2> HIDE DEF m, a
  <2> QED BY <1>3, <2>1, <2>2, <2>3 DEF a
<1>6. m.raised => /\ m.raisedAt \in episodes
                  /\ IsOpen(m.raisedAt)' \/ Unbroken(m.raisedAt, a, m.raisedAt)'
  <2> SUFFICES ASSUME m.raised
               PROVE  m.raisedAt \in episodes
                        /\ (IsOpen(m.raisedAt)' \/ Unbroken(m.raisedAt, a, m.raisedAt)')
    OBVIOUS
  <2>1. m.raisedAt \in episodes /\ (IsOpen(m.raisedAt) \/ Unbroken(m.raisedAt, a, m.raisedAt))
    BY <1>1 DEF MemInv
  <2>2. \A e \in 1..Len(log), k \in Nat : Unbroken(e, k, e) => Unbroken(e, k, e)'
    BY <1>1, UnbrokenStays
  <2>3. m' = m /\ a' = a
    BY <1>2
  <2> QED BY <1>1, <1>3, <1>4, <2>1, <2>2, <2>3
<1>7. ASSUME NEW e \in episodes, IsOpen(e) PROVE Expects(i, e)'
  <2>1. Expects(i, e) /\ e \in 1..Len(log)
    BY <1>1, <1>7 DEF MemInv
  <2>2. CASE On(m, e)
    BY <2>2 DEF Expects, On
  <2>3. CASE ~On(m, e)
    <3>1. /\ attempts[i] > 0 \/ pc[i] = "send"
          /\ pc[i] # "commit" /\ Leads(m, pos[i], e)
      BY <2>1, <2>3 DEF Expects
    <3>2. \A x, k : k \in Nat /\ Leads(x, k, e) => Leads(x, k, e)'
      BY <2>1, LeadsStays
    <3>3. Leads(m, pos[i], e)'
      BY <3>1, <3>2, OwnerTypes
    <3>4. (attempts'[i] > 0 \/ pc'[i] = "send") /\ pc'[i] # "commit"
      BY <3>1 DEF SamePlace
    <3> QED BY <3>3, <3>4 DEF Expects
  <2> QED BY <2>2, <2>3
<1> QED BY <1>4, <1>5, <1>6, <1>7 DEF MemInv

LEMMA BatchStays ==
  ASSUME EpisodesInv, LogGrows, UNCHANGED <<readings, quarantine, episodes, closings>>,
         NEW i \in Instances, owned[i] = "yes", mem'[i] = mem[i], pos'[i] = pos[i], GoesOn(i)
  PROVE  BatchInv(i)'
<1>1. /\ MemInv(i) /\ BatchInv(i) /\ Len(log) \in Nat
      /\ \A e \in episodes : e \in 1..Len(log)
  BY EpisodeTypes DEF OwnerInv
<1>2. (\A e : IsOpen(e)' <=> IsOpen(e)) /\ Written' = Written
  BY DEF IsOpen, Written
<1> DEFINE m == mem[i]
           p == pos[i]
           d == batch[i]
<1>3. /\ m \in AlarmMemory /\ p \in Nat /\ d \in Draft /\ d.next \in Nat
      /\ m.raised => m.raisedAt \in 1..Len(log)
  BY <1>1, OwnerTypes DEF MemInv
<1>4. pc[i] \in {"draft", "write", "send"} => p < d.next /\ d.next - 1 <= Len(log) /\ d.next > 0
  BY <1>1, <1>3, OwnerTypes DEF BatchInv
<1>5. pc[i] \in {"draft", "write", "send"} => DraftInv(m, p, d)'
  <2>1. \A x \in AlarmMemory, k \in Nat, y \in Draft :
          /\ x.raised => x.raisedAt \in 1..Len(log)
          /\ k < y.next /\ y.next - 1 <= Len(log) /\ DraftInv(x, k, y)
          => DraftInv(x, k, y)'
    BY DraftStays
  <2>2. m' = m /\ p' = p /\ d' = d
    BY DEF GoesOn
  <2>3. pc[i] \in {"draft", "write", "send"} => DraftInv(m, p, d)
    BY <1>1 DEF BatchInv
  <2> HIDE DEF m, p, d
  <2> QED BY <1>3, <1>4, <2>1, <2>2, <2>3
<1>6. ASSUME pc[i] \in {"draft", "write"}, NEW e \in episodes, IsOpen(e) PROVE Finds(m, d, e)'
  <2>1. Finds(m, d, e) /\ e \in 1..Len(log)
    BY <1>1, <1>6 DEF BatchInv
  <2>2. \A x : \A y \in Draft : y.next > 0 /\ Finds(x, y, e) => Finds(x, y, e)'
    BY <2>1, FindsStays
  <2>3. m' = m /\ d' = d
    BY DEF GoesOn
  <2> HIDE DEF m, d
  <2> QED BY <1>3, <1>4, <1>6, <2>1, <2>2, <2>3
<1>7. \A e : On(d.mem, e)' <=> On(d.mem, e)
  BY DEF On, GoesOn
<1> QED BY <1>1, <1>2, <1>5, <1>6, <1>7 DEF BatchInv, GoesOn

(* Whoever holds the device and does nothing of account keeps all.         *)
LEMMA OwnerStays ==
  ASSUME EpisodesInv, LogGrows, UNCHANGED <<readings, quarantine, episodes, closings>>,
         NEW i \in Instances, owned'[i] = "yes" => owned[i] = "yes",
         mem'[i] = mem[i], pos'[i] = pos[i], attempts[i] > 0 => attempts'[i] > 0,
         GoesOn(i) \/ PutsDown(i)
  PROVE  OwnerInv(i)'
<1> SUFFICES ASSUME owned'[i] = "yes" PROVE (MemInv(i) /\ BatchInv(i))'
  BY DEF OwnerInv
<1>1. MemInv(i)'
  BY MemStays, PlaceOf
<1>2. GoesOn(i) => BatchInv(i)'
  BY BatchStays
<1>3. PutsDown(i) => BatchInv(i)'
  BY DEF PutsDown, BatchInv
<1> QED BY <1>1, <1>2, <1>3

LEMMA NewDraft ==
  ASSUME LogGrows, NEW i \in Instances, NEW m \in AlarmMemory, NEW p \in Nat, NEW d \in Draft,
         m.raised => m.raisedAt \in 1..Len(log), p < d.next, d.next - 1 <= Len(log),
         DraftInv(m, p, d), mem'[i] = m, pos'[i] = p, batch'[i] = d
  PROVE  DraftInv(mem[i], pos[i], batch[i])'
<1>1. \A x, k, y : x = m /\ k = p /\ y = d => DraftInv(x, k, y)'
  BY DraftStays
<1> QED BY <1>1

LEMMA NewFinds ==
  ASSUME LogGrows, NEW i \in Instances, NEW m, NEW d \in Draft, d.next > 0,
         NEW e \in 1..Len(log), Finds(m, d, e), mem'[i] = m, batch'[i] = d
  PROVE  Finds(mem[i], batch[i], e)'
<1>1. \A x, y : x = m /\ y = d => Finds(x, y, e)'
  BY FindsStays
<1> QED BY <1>1

LEMMA NewKnows ==
  ASSUME LogGrows, NEW i \in Instances, NEW m, NEW k \in Nat, k <= Len(log),
         m.raised => m.raisedAt \in 1..Len(log), Knows(m, k), mem'[i] = m, At(i)' = k
  PROVE  Knows(mem[i], At(i))'
<1>1. \A x, a : x = m /\ a = k => Knows(x, a)'
  BY KnowsStays
<1> QED BY <1>1

(* A fetch begins a draft with the memory of the owner.                    *)
LEMMA FetchOwner ==
  ASSUME EpisodesInv, LogGrows, NEW i \in Instances, Fetch(i)
  PROVE  OwnerInv(i)'
<1> DEFINE m == mem[i]
           p == pos[i]
           d == [next |-> p + 1, last |-> Smaller(Len(log), p + MaxBatch), mem |-> m, out |-> {}]
<1>1. /\ owned[i] = "yes" /\ pc[i] = "idle" /\ pc'[i] = "draft" /\ batch'[i] = d
      /\ UNCHANGED <<log, database, memory, pos, attempts>> /\ p < Len(log)
  BY EpisodeTypes DEF Fetch, Step, TypeOK
<1>2. /\ MemInv(i) /\ Len(log) \in Nat /\ committed \in Nat /\ p = committed
      /\ \A e \in episodes : e \in 1..Len(log)
      /\ m \in AlarmMemory /\ p \in Nat
  BY <1>1, EpisodeTypes, OwnerTypes DEF OwnerInv
<1>3. d.next = p + 1 /\ d.mem = m /\ d.out = {} /\ d.last = Smaller(Len(log), p + MaxBatch)
      /\ d.next - 1 = p
  BY <1>2
<1>4. d.last \in Nat /\ d.last <= p + MaxBatch /\ (d.last = Len(log) \/ d.last = p + MaxBatch)
  BY <1>2, <1>3 DEF Smaller
<1>5. d \in Draft
  <2>1. batch' \in [Instances -> Draft]
    BY DEF LogGrows, TypeInv, TypeOK
  <2>2. batch'[i] = d
    BY <1>1
  <2> HIDE DEF d
  <2> QED BY <2>1, <2>2
<1> HIDE DEF d
<1>6. Openings(d.out) = {} /\ Closings(d.out) = {}
  BY <1>3 DEF Openings, Closings
<1>7. Knows(m, p) /\ (m.raised => m.raisedAt \in 1..Len(log))
  BY <1>1, <1>2 DEF MemInv, At
<1>8. DraftInv(m, p, d)
  <2>1. Reaches(m, p, d.mem, d.next - 1)
    BY <1>2, <1>3, ReachesSelf
  <2>2. DraftOpens(m, p, d) /\ DraftCloses(m, p, d)
    BY <1>6 DEF DraftOpens, DraftCloses
  <2>3. DraftKeeps(m, p, d)
    BY <1>2, <1>3 DEF DraftKeeps, On, Unbroken
  <2> QED BY <1>3, <1>7, <2>1, <2>2, <2>3 DEF DraftInv
<1>9. DraftInv(mem[i], pos[i], batch[i])'
  <2>1. mem'[i] = m /\ pos'[i] = p
    BY <1>1 DEF memory
  <2>2. p < d.next /\ d.next - 1 <= Len(log)
    BY <1>1, <1>2, <1>3
  <2> QED BY <1>1, <1>2, <1>5, <1>7, <1>8, <2>1, <2>2, NewDraft
<1>10. ASSUME NEW e \in episodes, IsOpen(e) PROVE Finds(mem[i], batch[i], e)'
  <2>1. Finds(m, d, e)
    BY <1>1, <1>2, <1>3, <1>10 DEF MemInv, Expects, Finds
  <2>2. mem'[i] = m /\ d.next > 0 /\ e \in 1..Len(log)
    BY <1>1, <1>2, <1>3 DEF memory
  <2> QED BY <1>1, <1>5, <2>1, <2>2, NewFinds
<1>11. \A o \in Written : o <= d.last
  BY <1>2, <1>4 DEF EpisodesInv, TableInv
<1>12. BatchInv(i)'
  <2>1. Written' = Written /\ episodes' = episodes /\ \A e : IsOpen(e)' <=> IsOpen(e)
    BY <1>1 DEF database, Written, IsOpen
  <2>2. pos'[i] = p
    BY <1>1
  <2> QED BY <1>1, <1>4, <1>9, <1>10, <1>11, <2>1, <2>2 DEF BatchInv
<1>13. MemInv(i)'
  <2>1. SamePlace(i)
    BY <1>1 DEF SamePlace
  <2> QED BY <1>1, <2>1, MemStays DEF database, memory
<1> QED BY <1>12, <1>13 DEF OwnerInv

(* The loop goes to the next message.                                      *)
LEMMA DraftOwner ==
  ASSUME EpisodesInv, LogGrows, NEW i \in Instances, DraftMessage(i)
  PROVE  OwnerInv(i)'
<1> DEFINE m == mem[i]
           p == pos[i]
           d == batch[i]
           n == Next1(d)
<1>1. /\ pc[i] = "draft" /\ pc'[i] = IF d.next = d.last THEN "write" ELSE "draft"
      /\ UNCHANGED <<log, database, memory, pos, attempts>>
      /\ batch'[i] = Drafted(d, log[d.next], log[d.next].mode \in known[i])
  BY EpisodeTypes DEF DraftMessage, Step, TypeOK
<1>2. batch'[i] = n
  BY <1>1 DEF Next1, Ruled, EpisodesInv, Calm
<1>3. /\ owned[i] = "yes" /\ MemInv(i) /\ BatchInv(i) /\ Len(log) \in Nat
      /\ \A e \in episodes : e \in 1..Len(log)
      /\ m \in AlarmMemory /\ p \in Nat /\ d \in Draft /\ d.last \in Nat /\ d.next \in Nat
      /\ d.next \in p + 1 .. d.last /\ d.last <= Len(log)
  BY <1>1, EpisodeTypes, OwnerTypes DEF OwnerInv
<1>4. TypeInv /\ d.next \in 1..Len(log) /\ p < d.next /\ DraftInv(m, p, d)
  BY <1>1, <1>3, EpisodeTypes DEF BatchInv
<1>5. DraftInv(m, p, n)
  BY <1>3, <1>4, DraftStep
<1>6. n.next = d.next + 1 /\ n.last = d.last
  BY <1>3, <1>4, DraftedParts DEF Next1, Drafted
<1>7. n \in Draft
  <2>1. batch' \in [Instances -> Draft]
    BY DEF LogGrows, TypeInv, TypeOK
  <2> QED BY <1>2, <2>1
<1>8. mem'[i] = m /\ pos'[i] = p /\ (m.raised => m.raisedAt \in 1..Len(log))
  BY <1>1, <1>3 DEF memory, MemInv
<1> HIDE DEF n
<1>9. DraftInv(mem[i], pos[i], batch[i])'
  <2>1. p < n.next /\ n.next - 1 <= Len(log)
    BY <1>3, <1>6
  <2> QED BY <1>2, <1>3, <1>5, <1>7, <1>8, <2>1, NewDraft
<1>10. ASSUME NEW e \in episodes, IsOpen(e) PROVE Finds(mem[i], batch[i], e)'
  <2>1. Finds(m, d, e) /\ e \in 1..Len(log) /\ e \in Nat
    BY <1>1, <1>3, <1>10 DEF BatchInv
  <2>2. Knows(d.mem, d.next - 1)
    BY <1>4 DEF DraftInv
  <2>3. Finds(m, n, e)
    BY <1>3, <1>4, <2>1, <2>2, FindsStep DEF n
  <2>4. n.next > 0
    BY <1>3, <1>6
  <2> QED BY <1>2, <1>7, <1>8, <2>1, <2>3, <2>4, NewFinds
<1>11. BatchInv(i)'
  <2>1. Written' = Written /\ episodes' = episodes /\ \A e : IsOpen(e)' <=> IsOpen(e)
    BY <1>1 DEF database, Written, IsOpen
  <2>2. (\A o \in Written : o <= n.last) /\ n.last <= p + MaxBatch
    BY <1>1, <1>3, <1>6 DEF BatchInv
  <2>3. pc'[i] = "write" => n.next = n.last + 1
    BY <1>1, <1>6
  <2>4. pc'[i] \in {"draft", "write"}
    BY <1>1
  <2> QED BY <1>2, <1>8, <1>9, <1>10, <2>1, <2>2, <2>3, <2>4 DEF BatchInv
<1>12. MemInv(i)'
  <2>1. SamePlace(i)
    BY <1>1 DEF SamePlace
  <2> QED BY <1>1, <1>3, <2>1, MemStays DEF database, memory
<1> QED BY <1>11, <1>12 DEF OwnerInv

(* What begins an episode does not end it: the thresholds and the return   *)
(* zone exclude each other.                                                *)
LEMMA NotItsOwnEnd ==
  ASSUME TypeInv, NEW e \in 1..Len(log), Founded(e)
  PROVE  ~EndsAt(e, e)
<1>1. log[e].value \in Int /\ Ruled(e) /\ Violation(e) # "none"
  BY FrameAt DEF Founded
<1>2. CASE Violation(e) = "max"
  <2>1. log[e].value > MaxValue
    BY <1>1, <1>2 DEF Violation, DetectViolation
  <2> QED BY <1>1, <1>2, <2>1 DEF EndsAt, IsBackToNormal
<1>3. CASE Violation(e) # "max"
  <2>1. log[e].value < MinValue
    BY <1>1, <1>3 DEF Violation, DetectViolation
  <2> QED BY <1>1, <1>3, <2>1 DEF EndsAt, IsBackToNormal
<1> QED BY <1>2, <1>3

(* The tables after the transaction of a batch.                            *)
Opened(d) == episodes \cup Openings(d.out)
Closed(d) == closings \cup ClosingRows(d.out)
StaysOpen(d, e) == e \in Opened(d) /\ ~\E c \in Closed(d) : c[1] = e

LEMMA AtWrite ==
  ASSUME EpisodesInv, NEW i \in Instances, pc[i] = "write"
  PROVE  LET m == mem[i]  p == pos[i]  d == batch[i]
         IN /\ owned[i] = "yes" /\ p = committed /\ p \in Nat /\ d.last \in Nat /\ p < d.last
            /\ d.last <= Len(log) /\ d.last <= p + MaxBatch /\ d.next = d.last + 1
            /\ d.next - 1 = d.last /\ d \in Draft /\ m \in AlarmMemory
            /\ Knows(m, p) /\ DraftInv(m, p, d) /\ Knows(d.mem, d.last)
            /\ m.raised => m.raisedAt \in episodes
            /\ m.raised => IsOpen(m.raisedAt) \/ Unbroken(m.raisedAt, p, m.raisedAt)
            /\ \A o \in Written : o \in 1..d.last
            /\ \A e \in episodes : IsOpen(e) => On(m, e) \/ e \in Openings(d.out)
            /\ \A e \in Openings(d.out) : e \in p + 1 .. d.last
            /\ \A c \in Closings(d.out) : c[2] \in p + 1 .. d.last
<1> DEFINE m == mem[i]
           p == pos[i]
           d == batch[i]
<1>1. /\ owned[i] = "yes" /\ p = committed /\ p \in Nat /\ d.last \in Nat /\ p < d.last
      /\ d.last <= Len(log) /\ d \in Draft /\ m \in AlarmMemory /\ d.next \in Nat
  BY OwnerTypes
<1>2. MemInv(i) /\ BatchInv(i)
  BY <1>1, EpisodeTypes DEF OwnerInv
<1>3. /\ d.last <= p + MaxBatch /\ d.next = d.last + 1 /\ DraftInv(m, p, d)
      /\ \A o \in Written : o <= d.last
      /\ \A e \in episodes : IsOpen(e) => Finds(m, d, e)
  BY <1>2 DEF BatchInv
<1>4. /\ Knows(m, p)
      /\ m.raised => m.raisedAt \in episodes
      /\ m.raised => IsOpen(m.raisedAt) \/ Unbroken(m.raisedAt, p, m.raisedAt)
  BY <1>2 DEF MemInv, At
<1>5. d.next - 1 = d.last
  BY <1>1, <1>3
<1>6. Knows(d.mem, d.last)
  BY <1>3, <1>5 DEF DraftInv
<1>7. \A o \in Written : o \in 1..d.last
  BY <1>1, <1>3, EpisodeTypes
<1>8. \A e \in episodes : IsOpen(e) => On(m, e) \/ e \in Openings(d.out)
  <2>1. \A e \in episodes : e \in 1..d.last
    BY <1>7, EpisodeTypes
  <2>2. \A e \in 1..d.last : ~Leads(d.mem, d.next - 1, e)
    BY <1>1, <1>5 DEF Leads
  <2> QED BY <1>3, <2>1, <2>2 DEF Finds
<1>9. \A e \in Openings(d.out) : e \in p + 1 .. d.last
  <2>1. \A e \in Openings(d.out) : e \in Nat
    BY <1>1 DEF Openings, Draft, Transition, Offsets
  <2>2. \A e \in Openings(d.out) : p < e /\ e < d.next
    BY <1>3 DEF DraftInv, DraftOpens
  <2> QED BY <1>1, <1>3, <2>1, <2>2
<1>10. \A c \in Closings(d.out) : c[2] \in p + 1 .. d.last
  <2>1. \A c \in Closings(d.out) : c[2] \in Nat
    BY <1>1 DEF Closings, Draft, Transition, Offsets
  <2>2. \A c \in Closings(d.out) : p < c[2] /\ c[2] < d.next
    BY <1>3 DEF DraftInv, DraftCloses
  <2> QED BY <1>1, <1>3, <2>1, <2>2
<1> HIDE DEF m, p, d
<1> QED BY <1>1, <1>3, <1>4, <1>5, <1>6, <1>7, <1>8, <1>9, <1>10 DEF m, p, d

(* What is still open after the transaction is what the draft remembers.   *)
LEMMA WriteOpens ==
  ASSUME EpisodesInv, NEW i \in Instances, pc[i] = "write", NEW e, StaysOpen(batch[i], e)
  PROVE  /\ On(batch[i].mem, e)
         /\ On(mem[i], e) \/ Leads(mem[i], pos[i], e)
<1> DEFINE m == mem[i]
           p == pos[i]
           d == batch[i]
<1>1. /\ DraftOpens(m, p, d) /\ DraftKeeps(m, p, d)
      /\ \A x \in episodes : IsOpen(x) => On(m, x) \/ x \in Openings(d.out)
  BY AtWrite DEF DraftInv
<1>2. e \in Opened(d) /\ (\A c \in closings : c[1] # e)
      /\ (\A c \in ClosingRows(d.out) : c[1] # e)
  BY DEF StaysOpen, Closed
<1>3. ASSUME NEW c \in Closings(d.out), c[1] = e PROVE FALSE
  BY <1>2, <1>3 DEF ClosingRows, Opened
<1> HIDE DEF m, p, d
<1>4. CASE e \in Openings(d.out)
  BY <1>1, <1>3, <1>4 DEF DraftOpens, m, p, d
<1>5. CASE e \notin Openings(d.out)
  <2>1. e \in episodes /\ IsOpen(e)
    BY <1>2, <1>5 DEF Opened, IsOpen
  <2>2. On(m, e)
    BY <1>1, <1>5, <2>1
  <2>3. m.raised /\ m.raisedAt = e
    BY <2>2 DEF On
  <2>4. On(d.mem, e)
    BY <1>1, <1>3, <2>3 DEF DraftKeeps
  <2> QED BY <2>2, <2>4 DEF m, d
<1> QED BY <1>4, <1>5

(* A transaction that the constraint lets through closes an episode where  *)
(* it ends for the first time.                                             *)
LEMMA WriteCloses ==
  ASSUME EpisodesInv, NEW i \in Instances, pc[i] = "write", ConstraintHolds(batch[i].out),
         NEW c \in ClosingRows(batch[i].out)
  PROVE  /\ c[1] \in Opened(batch[i]) /\ c[2] \in BatchOf(i) /\ c[1] < c[2]
         /\ EndsAt(c[1], c[2]) /\ Unbroken(c[1], c[1], c[2] - 1)
<1> DEFINE m == mem[i]
           p == pos[i]
           d == batch[i]
<1>1. /\ DraftOpens(m, p, d) /\ DraftCloses(m, p, d) /\ d.last \in Nat /\ d.last <= Len(log)
      /\ \A e \in Openings(d.out) : e \in p + 1 .. d.last
      /\ \A x \in Closings(d.out) : x[2] \in p + 1 .. d.last
      /\ p \in Nat
  BY AtWrite DEF DraftInv
<1>2. c \in Closings(d.out) /\ c[1] \in Opened(d) /\ c[1] <= c[2]
  BY DEF ClosingRows, Opened, ConstraintHolds
<1>3. EndsAt(c[1], c[2]) /\ Unbroken(c[1], c[1], c[2] - 1)
  BY <1>1, <1>2 DEF DraftCloses
<1>4. c[1] \in 1..Len(log) /\ Founded(c[1])
  <2>1. CASE c[1] \in Openings(d.out)
    <3>1. c[1] \in p + 1 .. d.last /\ Founded(c[1])
      BY <1>1, <2>1 DEF DraftOpens
    <3> QED BY <1>1, <3>1, EpisodeTypes
  <2>2. CASE c[1] \in episodes
    BY <2>2, EpisodeTypes DEF EpisodesInv, TableInv
  <2> QED BY <1>2, <2>1, <2>2 DEF Opened
<1>5. c[1] # c[2]
  BY <1>3, <1>4, NotItsOwnEnd, EpisodeTypes
<1>6. c[2] \in p + 1 .. d.last
  BY <1>1, <1>2
<1>7. c[1] < c[2]
  BY <1>1, <1>2, <1>4, <1>5, <1>6
<1> QED BY <1>2, <1>3, <1>6, <1>7 DEF BatchOf

(* The tables after the transaction, in the words of TableInv.             *)
Held(i) == Written \cup BatchOf(i)

LEMMA WriteTables ==
  ASSUME EpisodesInv, NEW i \in Instances, pc[i] = "write", ConstraintHolds(batch[i].out)
  PROVE  LET d == batch[i]
         IN /\ \A o \in Held(i) : o \in 1..d.last
            /\ \A e \in Opened(d) : e \in Held(i) /\ Founded(e)
            /\ \A c \in Closed(d) : /\ c[1] \in Opened(d) /\ c[2] \in Held(i) /\ c[1] < c[2]
                                    /\ EndsAt(c[1], c[2]) /\ Unbroken(c[1], c[1], c[2] - 1)
            /\ \A e \in Opened(d) : StaysOpen(d, e) =>
                 \A o \in Held(i) : o > e => ~EndsAt(e, o)
<1> DEFINE p == pos[i]
           d == batch[i]
<1>1. /\ p \in Nat /\ d.last \in Nat /\ p < d.last /\ DraftOpens(mem[i], p, d)
      /\ Knows(d.mem, d.last) /\ \A o \in Written : o \in 1..d.last
      /\ \A e \in Openings(d.out) : e \in p + 1 .. d.last
  BY AtWrite DEF DraftInv
<1>2. BatchOf(i) = p + 1 .. d.last
  BY DEF BatchOf
<1>3. \A o \in Held(i) : o \in 1..d.last
  BY <1>1, <1>2 DEF Held
<1>4. \A e \in Opened(d) : e \in Held(i) /\ Founded(e)
  <2>1. \A e \in episodes : e \in Written /\ Founded(e)
    BY DEF EpisodesInv, TableInv
  <2>2. \A e \in Openings(d.out) : Founded(e)
    BY <1>1 DEF DraftOpens
  <2> QED BY <1>1, <1>2, <2>1, <2>2 DEF Held, Opened
<1>5. ASSUME NEW c \in Closed(d)
      PROVE  /\ c[1] \in Opened(d) /\ c[2] \in Held(i) /\ c[1] < c[2]
             /\ EndsAt(c[1], c[2]) /\ Unbroken(c[1], c[1], c[2] - 1)
  <2>1. CASE c \in closings
    BY <2>1 DEF EpisodesInv, TableInv, Opened, Held
  <2>2. CASE c \in ClosingRows(d.out)
    BY <2>2, WriteCloses DEF Held
  <2> QED BY <2>1, <2>2 DEF Closed
<1>6. ASSUME NEW e \in Opened(d), StaysOpen(d, e), NEW o \in Held(i), o > e
      PROVE  ~EndsAt(e, o)
  <2>1. On(d.mem, e)
    BY <1>6, WriteOpens
  <2>2. Unbroken(e, e, d.last)
    BY <1>1, <2>1 DEF Knows, On
  <2>3. o \in e + 1 .. d.last
    BY <1>1, <1>3, <1>4, <1>6
  <2> QED BY <2>2, <2>3 DEF Unbroken
<1> HIDE DEF p, d
<1> QED BY <1>3, <1>4, <1>5, <1>6 DEF d

(* The steps of Write as the lemmas above name them.                       *)
LEMMA WriteStep ==
  ASSUME EpisodesInv, TypeInv', NEW i \in Instances, Write(i)
  PROVE  /\ pc[i] = "write" /\ pc'[i] = "send" /\ ConstraintHolds(batch[i].out)
         /\ UNCHANGED <<log, committed, rules, memory, pos, batch, attempts>>
         /\ LogGrows
         /\ Written' = Held(i) /\ episodes' = Opened(batch[i]) /\ closings' = Closed(batch[i])
         /\ \A e : IsOpen(e)' <=> StaysOpen(batch[i], e)
<1>1. /\ pc[i] = "write" /\ pc'[i] = "send" /\ ConstraintHolds(batch[i].out)
      /\ UNCHANGED <<log, committed, rules, memory, pos, batch, attempts>>
      /\ readings' = readings \cup OfKind({"live", "copy"}, BatchOf(i))
      /\ quarantine' = quarantine \cup OfKind({"poison"}, BatchOf(i))
      /\ episodes' = Opened(batch[i]) /\ closings' = Closed(batch[i])
  BY EpisodeTypes DEF Write, Step, TypeOK, group, Opened, Closed
<1>2. LogGrows
  BY <1>1, EpisodeTypes DEF LogGrows
<1>3. Written' = Held(i)
  <2>1. \A o \in BatchOf(i) : log[o].kind \in {"live", "copy", "poison"}
    <3>1. BatchOf(i) \subseteq 1..Len(log)
      BY <1>1, EpisodeTypes, BatchOffsets
    <3>2. \A o \in 1..Len(log) : log[o] \in Frames
      BY FrameAt, EpisodeTypes
    <3> QED BY <3>1, <3>2 DEF FrameKind
  <2> QED BY <1>1, <2>1 DEF Written, Held, OfKind
<1>4. \A e : IsOpen(e)' <=> StaysOpen(batch[i], e)
  BY <1>1 DEF IsOpen, StaysOpen
<1> QED BY <1>1, <1>2, <1>3, <1>4

LEMMA WriteTable ==
  ASSUME EpisodesInv, TypeInv', NEW i \in Instances, Write(i)
  PROVE  TableInv'
<1> DEFINE d == batch[i]
<1>1. /\ LogGrows /\ log' = log /\ committed' = committed
      /\ Written' = Held(i) /\ episodes' = Opened(d) /\ closings' = Closed(d)
      /\ \A e : IsOpen(e)' <=> StaysOpen(d, e)
  BY WriteStep
<1>2. /\ pc[i] = "write" /\ ConstraintHolds(d.out)
      /\ d.last \in Nat /\ d.last <= Len(log) /\ d.last <= committed + MaxBatch
      /\ committed \in Nat /\ Len(log) \in Nat
  BY WriteStep, AtWrite, EpisodeTypes
<1>3. /\ \A o \in Held(i) : o \in 1..d.last
      /\ \A e \in Opened(d) : e \in Held(i) /\ Founded(e)
      /\ \A c \in Closed(d) : /\ c[1] \in Opened(d) /\ c[2] \in Held(i) /\ c[1] < c[2]
                              /\ EndsAt(c[1], c[2]) /\ Unbroken(c[1], c[1], c[2] - 1)
      /\ \A e \in Opened(d) : StaysOpen(d, e) =>
           \A o \in Held(i) : o > e => ~EndsAt(e, o)
  BY <1>2, WriteTables
<1> HIDE DEF d
<1>4. \A o \in Held(i) : o \in 1..Len(log) /\ o <= committed + MaxBatch
  BY <1>2, <1>3
<1>5. \A o \in 1..committed : o \in Written'
  BY <1>1 DEF EpisodesInv, TableInv, Held
<1>6. \A e \in episodes' : e \in Written' /\ Founded(e)'
  BY <1>1, <1>3, <1>4, FoundedStays
<1>7. ASSUME NEW c \in closings'
      PROVE  /\ c[1] \in episodes' /\ c[2] \in Written' /\ c[1] < c[2]
             /\ EndsAt(c[1], c[2])' /\ Unbroken(c[1], c[1], c[2] - 1)'
  <2>1. /\ c[1] \in Opened(d) /\ c[2] \in Held(i) /\ c[1] < c[2]
        /\ EndsAt(c[1], c[2]) /\ Unbroken(c[1], c[1], c[2] - 1)
    BY <1>1, <1>3
  <2>2. c[1] \in 1..Len(log) /\ c[2] \in 1..Len(log)
    BY <1>3, <1>4, <2>1
  <2>3. c[1] \in Nat /\ c[2] - 1 \in Int /\ c[2] - 1 <= Len(log)
    BY <1>2, <2>2
  <2> QED BY <1>1, <2>1, <2>2, <2>3, EndsStay, UnbrokenStays
<1>8. \A e \in episodes' : IsOpen(e)' => \A o \in Written' : o > e => ~EndsAt(e, o)'
  BY <1>1, <1>3, <1>4, EndsStay
<1>9. OneOpenEpisode'
  <2>1. \A e : StaysOpen(d, e) => On(d.mem, e)
    BY <1>2, WriteOpens DEF d
  <2> QED BY <1>1, <2>1 DEF OneOpenEpisode, On
<1> QED BY <1>1, <1>4, <1>5, <1>6, <1>7, <1>8, <1>9 DEF TableInv

(* A memory whose episode the transaction closes knows that it goes on     *)
(* beyond its beginning: the constraint let the closing through.           *)
LEMMA WriteRemembers ==
  ASSUME EpisodesInv, NEW i \in Instances, pc[i] = "write", ConstraintHolds(batch[i].out),
         mem[i].raised
  PROVE  LET e == mem[i].raisedAt
         IN e \in Opened(batch[i]) /\ (StaysOpen(batch[i], e) \/ Unbroken(e, pos[i], e))
<1> DEFINE m == mem[i]
           p == pos[i]
           d == batch[i]
           e == m.raisedAt
<1>1. /\ IsOpen(e) \/ Unbroken(e, p, e)
      /\ DraftKeeps(m, p, d) /\ d.next - 1 = d.last /\ d.last \in Nat /\ p \in Nat
      /\ \A c \in Closings(d.out) : c[2] \in p + 1 .. d.last
  BY AtWrite DEF DraftInv
<1>2. e \in episodes /\ e \in 1..d.last
  BY AtWrite, EpisodeTypes
<1>3. CASE ~IsOpen(e)
  BY <1>1, <1>2, <1>3 DEF Opened
<1>4. CASE IsOpen(e) /\ On(d.mem, e) /\ Unbroken(e, p, d.next - 1)
  BY <1>1, <1>2, <1>4 DEF Opened, Unbroken
<1>5. CASE /\ IsOpen(e)
           /\ \E c \in Closings(d.out) : c[1] = e /\ Unbroken(c[1], p, c[2] - 1)
  <2>1. PICK c \in Closings(d.out) : c[1] = e /\ Unbroken(c[1], p, c[2] - 1)
    BY <1>5
  <2>2. c \in ClosingRows(d.out)
    BY <1>2, <1>5, <2>1 DEF ClosingRows, IsOpen
  <2>3. c[1] < c[2]
    BY <2>2, WriteCloses
  <2>4. e <= c[2] - 1
    BY <1>1, <1>2, <2>1, <2>3
  <2>5. c[2] - 1 \in Int
    BY <1>1
  <2>6. Unbroken(e, p, e)
    BY <1>1, <1>2, <2>1, <2>4, <2>5 DEF Unbroken
  <2> QED BY <1>2, <2>6 DEF Opened
<1>6. \/ On(d.mem, e) /\ Unbroken(e, p, d.next - 1)
      \/ \E c \in Closings(d.out) : c[1] = e /\ Unbroken(c[1], p, c[2] - 1)
  BY <1>1 DEF DraftKeeps
<1> QED BY <1>3, <1>4, <1>5, <1>6

LEMMA WriteOwner ==
  ASSUME EpisodesInv, TypeInv', NEW i \in Instances, Write(i)
  PROVE  OwnerInv(i)'
<1> DEFINE m == mem[i]
           p == pos[i]
           d == batch[i]
<1>1. /\ pc[i] = "write" /\ pc'[i] = "send" /\ ConstraintHolds(d.out) /\ LogGrows
      /\ Written' = Held(i) /\ episodes' = Opened(d)
      /\ \A e : IsOpen(e)' <=> StaysOpen(d, e)
  BY WriteStep
<1>2. mem'[i] = m /\ pos'[i] = p /\ batch'[i] = d
  BY WriteStep DEF memory
<1>3. /\ p \in Nat /\ d.last \in Nat /\ p < d.last /\ d.last <= Len(log)
      /\ d.last <= p + MaxBatch /\ d.next = d.last + 1 /\ d.next - 1 = d.last
      /\ d \in Draft /\ m \in AlarmMemory /\ Knows(m, p) /\ DraftInv(m, p, d)
  BY <1>1, AtWrite
<1>4. m.raised => m.raisedAt \in episodes /\ m.raisedAt \in 1..Len(log)
  BY <1>1, AtWrite, EpisodeTypes
<1>5. /\ Len(log) \in Nat
      /\ \A e \in Opened(d) : e \in Held(i)
      /\ \A o \in Held(i) : o \in 1..d.last
  BY <1>1, WriteTables, EpisodeTypes
<1>6. \A e \in Opened(d) : e \in 1..Len(log)
  BY <1>3, <1>5
<1> HIDE DEF m, p, d
<1>7. DraftInv(mem[i], pos[i], batch[i])'
  <2>1. p < d.next /\ d.next - 1 <= Len(log)
    BY <1>3
  <2> QED BY <1>1, <1>2, <1>3, <1>4, <2>1, NewDraft
<1>8. At(i)' = p /\ p <= Len(log)
  BY <1>1, <1>2, <1>3, <1>5 DEF At
<1>9. Knows(mem[i], At(i))'
  BY <1>1, <1>2, <1>3, <1>4, <1>8, NewKnows
<1>10. m.raised => /\ m.raisedAt \in episodes'
                   /\ IsOpen(m.raisedAt)' \/ Unbroken(m.raisedAt, p, m.raisedAt)'
  <2> SUFFICES ASSUME m.raised
               PROVE  /\ m.raisedAt \in episodes'
                      /\ IsOpen(m.raisedAt)' \/ Unbroken(m.raisedAt, p, m.raisedAt)'
    OBVIOUS
  <2>1. /\ m.raisedAt \in Opened(d)
        /\ StaysOpen(d, m.raisedAt) \/ Unbroken(m.raisedAt, p, m.raisedAt)
    BY <1>1, WriteRemembers DEF m, p, d
  <2>2. \A e \in 1..Len(log) : Unbroken(e, p, e) => Unbroken(e, p, e)'
    <3>1. \A e \in 1..Len(log), k \in Nat : Unbroken(e, k, e) => Unbroken(e, k, e)'
      BY <1>1, <1>5, UnbrokenStays
    <3>2. p' = p
      BY <1>2 DEF p
    <3> QED BY <1>3, <3>1, <3>2
  <2>3. m' = m
    BY <1>2 DEF m
  <2> QED BY <1>1, <1>4, <2>1, <2>2, <2>3
<1>11. ASSUME NEW e, StaysOpen(d, e) PROVE Expects(i, e)' /\ On(d.mem, e)
  <2>1. On(d.mem, e) /\ (On(m, e) \/ Leads(m, p, e)) /\ e \in 1..Len(log)
    BY <1>1, <1>6, <1>11, WriteOpens DEF m, p, d, StaysOpen
  <2>2. Leads(m, p, e) => Leads(mem[i], pos[i], e)'
    <3>1. \A x, k : x = m /\ k = p /\ Leads(x, k, e) => Leads(x, k, e)'
      BY <1>1, <1>3, <2>1, LeadsStays
    <3> QED BY <1>2, <3>1
  <2>3. On(m, e) => On(mem[i], e)'
    BY <1>2 DEF On
  <2> QED BY <1>1, <2>1, <2>2, <2>3 DEF Expects
<1>12. MemInv(i)'
  <2>1. m' = m /\ p' = p /\ m' = mem'[i]
    BY <1>2 DEF m, p
  <2>2. mem'[i].raised => /\ mem'[i].raisedAt \in episodes'
                          /\ \/ IsOpen(mem[i].raisedAt)'
                             \/ Unbroken(mem[i].raisedAt, At(i), mem[i].raisedAt)'
    <3>1. \A x, k :
            /\ x = m.raisedAt /\ k = p
            /\ IsOpen(m.raisedAt)' \/ Unbroken(m.raisedAt, p, m.raisedAt)'
            => (IsOpen(x)' \/ Unbroken(x, k, x)')
      BY <2>1
    <3>2. mem'[i].raisedAt = m.raisedAt /\ mem'[i].raised = m.raised
      BY <2>1
    <3> QED BY <1>8, <1>10, <3>1, <3>2
  <2>3. \A e \in episodes' : IsOpen(e)' => Expects(i, e)'
    BY <1>1, <1>11
  <2> QED BY <1>9, <2>2, <2>3 DEF MemInv
<1>13. BatchInv(i)'
  <2>1. \A o \in Written' : o <= d.last
    BY <1>1, <1>3, <1>5
  <2>2. \A e \in episodes' : IsOpen(e)' => On(batch'[i].mem, e)
    BY <1>1, <1>2, <1>11
  <2>3. batch'[i].mem.raised => batch'[i].mem.raisedAt \in episodes'
    <3>1. DraftKeeps(m, p, d)
      BY <1>3 DEF DraftInv
    <3>2. d.mem.raised => d.mem.raisedAt \in Openings(d.out) \/ On(m, d.mem.raisedAt)
      BY <3>1 DEF DraftKeeps
    <3> QED BY <1>1, <1>2, <1>4, <3>2 DEF Opened, On
  <2>4. \A e : On(batch[i].mem, e)' <=> On(batch'[i].mem, e)
    BY DEF On
  <2> QED BY <1>1, <1>2, <1>3, <1>7, <2>1, <2>2, <2>3, <2>4 DEF BatchInv
<1> QED BY <1>12, <1>13 DEF OwnerInv

(* A memory that has the open episode, and a place it has come to.         *)
LEMMA SettledMem ==
  ASSUME EpisodesInv, LogGrows, UNCHANGED <<episodes, closings>>, NEW i \in Instances,
         NEW m, NEW k \in Nat, k <= Len(log), Knows(m, k), mem'[i] = m, At(i)' = k,
         m.raised => m.raisedAt \in episodes /\ (IsOpen(m.raisedAt) \/ m.raisedAt <= k),
         \A e \in episodes : IsOpen(e) => On(m, e)
  PROVE  MemInv(i)'
<1>1. \A e : IsOpen(e)' <=> IsOpen(e)
  BY DEF IsOpen
<1>2. m.raised => m.raisedAt \in 1..Len(log)
  BY EpisodeTypes
<1>3. Knows(mem[i], At(i))'
  BY <1>2, NewKnows
<1>4. ASSUME mem'[i].raised
      PROVE  /\ mem'[i].raisedAt \in episodes'
             /\ IsOpen(mem[i].raisedAt)' \/ Unbroken(mem[i].raisedAt, At(i), mem[i].raisedAt)'
  <2>1. CASE m.raisedAt <= k
    <3>1. m.raisedAt \in Int
      BY <1>2, <1>4
    <3>2. k + 1 .. m.raisedAt = {}
      BY <2>1, <3>1
    <3>3. At(i)' + 1 .. mem'[i].raisedAt = {}
      BY <3>2
    <3> QED BY <1>4, <3>3 DEF Unbroken
  <2>2. CASE IsOpen(m.raisedAt)
    <3>1. mem'[i].raisedAt = m.raisedAt
      OBVIOUS
    <3> QED BY <1>1, <1>4, <2>2, <3>1
  <2> QED BY <1>4, <2>1, <2>2
<1>5. \A e \in episodes' : IsOpen(e)' => Expects(i, e)'
  <2>1. \A e : On(m, e) => On(mem[i], e)'
    BY DEF On
  <2> QED BY <1>1, <2>1 DEF Expects
<1> QED BY <1>3, <1>4, <1>5 DEF MemInv

LEMMA PublishOwner ==
  ASSUME EpisodesInv, LogGrows, NEW i \in Instances, Publish(i)
  PROVE  OwnerInv(i)'
<1> DEFINE d == batch[i]
<1>1. /\ pc[i] = "send" /\ pc'[i] = "commit"
      /\ UNCHANGED <<database, batch, pos>>
  BY EpisodeTypes DEF Publish, Step, TypeOK
<1>2. /\ owned[i] = "yes" /\ d.last \in Nat /\ d.last <= Len(log) /\ d.next \in Nat
      /\ BatchInv(i)
  BY <1>1, EpisodeTypes, OwnerTypes DEF OwnerInv
<1>3. mem'[i] = d.mem
  BY <1>2, EpisodeTypes DEF Publish, TypeOK
<1>4. /\ DraftInv(mem[i], pos[i], d) /\ d.next = d.last + 1
      /\ \A o \in Written : o <= d.last
      /\ d.last <= pos[i] + MaxBatch
      /\ \A e \in episodes : IsOpen(e) => On(d.mem, e)
      /\ d.mem.raised => d.mem.raisedAt \in episodes
  BY <1>1, <1>2 DEF BatchInv
<1>5. Knows(d.mem, d.last)
  <2>1. d.next - 1 = d.last
    BY <1>2, <1>4
  <2> QED BY <1>4, <2>1 DEF DraftInv
<1>6. At(i)' = d.last
  BY <1>1 DEF At
<1>7. d.mem.raised => d.mem.raisedAt <= d.last
  BY <1>4, EpisodeTypes
<1>8. MemInv(i)'
  <2>1. UNCHANGED <<episodes, closings>>
    BY <1>1 DEF database
  <2> HIDE DEF d
  <2> QED BY <1>2, <1>3, <1>4, <1>5, <1>6, <1>7, <2>1, SettledMem
<1>9. BatchInv(i)'
  BY <1>1, <1>4 DEF BatchInv, database, Written
<1> QED BY <1>8, <1>9 DEF OwnerInv

LEMMA CommitOwner ==
  ASSUME EpisodesInv, LogGrows, NEW i \in Instances, Commit(i)
  PROVE  OwnerInv(i)'
<1> DEFINE m == mem[i]
           k == batch[i].last
<1>1. /\ pc[i] = "commit" /\ pc'[i] = "idle" /\ pos'[i] = k
      /\ UNCHANGED <<database, memory>>
  BY EpisodeTypes DEF Commit, Step, TypeOK
<1>2. /\ owned[i] = "yes" /\ k \in Nat /\ k <= Len(log) /\ MemInv(i) /\ BatchInv(i)
  BY <1>1, EpisodeTypes, OwnerTypes DEF OwnerInv
<1>3. At(i) = k /\ At(i)' = k
  BY <1>1 DEF At
<1>4. Knows(m, k) /\ \A e \in episodes : IsOpen(e) => On(m, e)
  BY <1>1, <1>2, <1>3 DEF MemInv, Expects
<1>5. m.raised => m.raisedAt \in episodes /\ m.raisedAt <= k
  <2>1. \A o \in Written : o <= k
    BY <1>1, <1>2 DEF BatchInv
  <2> QED BY <1>2, <2>1, EpisodeTypes DEF MemInv
<1>6. MemInv(i)'
  <2>1. UNCHANGED <<episodes, closings>> /\ mem'[i] = m
    BY <1>1 DEF database, memory
  <2> HIDE DEF m, k
  <2> QED BY <1>2, <1>3, <1>4, <1>5, <2>1, SettledMem
<1>7. BatchInv(i)'
  BY <1>1 DEF BatchInv
<1> QED BY <1>6, <1>7 DEF OwnerInv

(* What adopt reads from the tables is the open episode, if there is one.  *)
LEMMA AdoptOwner ==
  ASSUME EpisodesInv, LogGrows, NEW i \in Instances, Adopt(i)
  PROVE  OwnerInv(i)'
<1>1. /\ owned[i] = "adopting" /\ UNCHANGED <<database, pos, pc, batch, attempts>>
  BY DEF Adopt
<1>2. PICK m \in Restored : mem'[i] = m
  BY EpisodeTypes DEF Adopt, TypeOK
<1>3. pc[i] = "idle" /\ pos[i] = committed /\ committed \in Nat /\ committed <= Len(log)
  BY <1>1, EpisodeTypes, OwnerTypes DEF EpisodesInv, DurableInv
<1>4. At(i)' = committed
  BY <1>1, <1>3 DEF At
<1>5. OneOpenEpisode
  BY DEF EpisodesInv, TableInv
<1>6. ASSUME NEW e \in episodes, IsOpen(e) PROVE e \in LatestOpen
  <2>1. \A x \in episodes : IsOpen(x) => x = e
    BY <1>5, <1>6 DEF OneOpenEpisode
  <2>2. e <= e
    BY EpisodeTypes
  <2> QED BY <1>6, <2>1, <2>2 DEF LatestOpen
<1>7. CASE LatestOpen = {}
  <2>1. m = IdleAlarm
    BY <1>2, <1>7 DEF Restored
  <2>2. Knows(m, committed) /\ ~m.raised
    BY <2>1, IdleKnows
  <2>3. \A e \in episodes : IsOpen(e) => On(m, e)
    BY <1>6, <1>7
  <2>4. MemInv(i)'
    BY <1>1, <1>2, <1>3, <1>4, <2>2, <2>3, SettledMem DEF database
  <2> QED BY <1>1, <1>3, <2>4 DEF OwnerInv, BatchInv
<1>8. CASE LatestOpen # {}
  <2>1. PICK e \in LatestOpen : m = RaisedAlarm(DetectViolation(log[e].value), e)
    BY <1>2, <1>8 DEF Restored
  <2>2. m.raised /\ m.raisedAt = e /\ m.boundary = Violation(e)
    BY <2>1 DEF RaisedAlarm, Violation
  <2>3. e \in episodes /\ IsOpen(e) /\ Founded(e) /\ e \in 1..Len(log)
    BY EpisodeTypes DEF LatestOpen, EpisodesInv, TableInv
  <2>4. Unbroken(e, e, committed)
    <3>1. \A o \in Written : o > e => ~EndsAt(e, o)
      BY <2>3 DEF EpisodesInv, TableInv
    <3>2. \A o \in e + 1 .. committed : o \in 1..committed /\ o > e
      BY <1>3, <2>3
    <3>3. \A o \in 1..committed : o \in Written
      BY DEF EpisodesInv, TableInv
    <3> QED BY <3>1, <3>2, <3>3 DEF Unbroken
  <2>5. Knows(m, committed)
    BY <2>2, <2>3, <2>4 DEF Knows
  <2>6. \A x \in episodes : IsOpen(x) => On(m, x)
    BY <1>5, <2>2, <2>3 DEF OneOpenEpisode, On
  <2>7. MemInv(i)'
    BY <1>1, <1>2, <1>3, <1>4, <2>2, <2>3, <2>5, <2>6, SettledMem DEF database
  <2> QED BY <1>1, <1>3, <2>7 DEF OwnerInv, BatchInv
<1> QED BY <1>7, <1>8

-------------------------------------------------------------------------------
(* Steps. *)

(* Whoever has to do with the device is alone with it.                     *)
LEMMA OnlyOwner ==
  ASSUME EpisodesInv, NEW i \in Instances, owned[i] # "no", OwnerInv(i)',
         \A j \in Instances \ {i} : owned'[j] = owned[j]
  PROVE  \A j \in Instances : OwnerInv(j)'
<1>1. ASSUME NEW j \in Instances \ {i} PROVE owned[j] # "yes"
  <2>1. owner = i
    BY OwnerTypes
  <2>2. owned[j] = "yes" => owner = j
    BY OwnerTypes
  <2> QED BY <2>1, <2>2
<1> QED BY <1>1 DEF OwnerInv

(* A step that leaves the partition alone.                                 *)
LEMMA SameLog ==
  ASSUME EpisodesInv, TypeInv', UNCHANGED <<log, rules>>
  PROVE  LogGrows
BY EpisodeTypes DEF LogGrows

LEMMA CalmStays ==
  ASSUME Calm, UNCHANGED <<rules, member>>, up \subseteq up',
         \A j \in Instances : known'[j] \in {known[j], rules},
         \A j \in Instances : owned'[j] # "no" => owned[j] # "no"
  PROVE  Calm'
BY DEF Calm

LEMMA HandleEpisodes ==
  ASSUME EpisodesInv, DurableInv', NEW i \in Instances, Handle(i), ~WriteRejected(i)
  PROVE  EpisodesInv'
<1>1. TypeInv' /\ TypeOK
  BY EpisodeTypes DEF DurableInv
<1>2. pc[i] # "idle" => member[i] = "current" /\ owned[i] = "yes"
  BY OwnerTypes
<1>3. ~CommitFenced(i)
  BY <1>2 DEF CommitFenced, Step
<1>4. /\ UNCHANGED <<log, rules, up, member, owned, known>> /\ owned[i] = "yes"
  <2>1. CASE Fetch(i) \/ DraftMessage(i) \/ Write(i)
    BY <1>2, <2>1 DEF Fetch, DraftMessage, Write, Step, memory
  <2>2. CASE Publish(i) \/ Commit(i)
    BY <1>2, <2>2 DEF Publish, Commit, Step, memory
  <2> QED BY <1>3, <2>1, <2>2 DEF Handle
<1>5. LogGrows
  BY <1>1, <1>4, SameLog
<1>6. Calm'
  BY <1>4, CalmStays DEF EpisodesInv
<1>7. OwnerInv(i)'
  BY <1>1, <1>3, <1>5, FetchOwner, DraftOwner, WriteOwner, PublishOwner, CommitOwner DEF Handle
<1>8. \A j \in Instances : OwnerInv(j)'
  BY <1>4, <1>7, OnlyOwner
<1>9. TableInv'
  <2>1. CASE Write(i)
    BY <1>1, <2>1, WriteTable
  <2>2. CASE ~Write(i)
    <3>1. UNCHANGED <<readings, quarantine, episodes, closings>>
      BY <1>3, <2>2 DEF Handle, Fetch, DraftMessage, Publish, Commit, database
    <3>2. committed <= committed'
      <4>1. CASE Commit(i)
        <5>1. /\ committed' = batch[i].last /\ pc[i] = "commit"
          BY <4>1 DEF Commit, Step
        <5>2. committed = pos[i] /\ pos[i] < batch[i].last
              /\ batch[i].last \in Nat /\ pos[i] \in Nat
          BY <5>1, OwnerTypes
        <5> QED BY <5>1, <5>2
      <4>2. CASE ~Commit(i)
        <5>1. committed' = committed
          BY <1>3, <2>2, <4>2 DEF Handle, Fetch, DraftMessage, Publish, group
        <5> QED BY <5>1, EpisodeTypes
      <4> QED BY <4>1, <4>2
    <3> QED BY <1>5, <3>1, <3>2, TableStays
  <2> QED BY <2>1, <2>2
<1> QED BY <1>6, <1>8, <1>9 DEF EpisodesInv

(* A batch given back, with or without the process.                        *)
LEMMA GiveBackEpisodes ==
  ASSUME EpisodesInv, DurableInv', NEW i \in Instances,
         Stop(i) \/ (GiveBack(i) /\ pc[i] \in {"write", "send"}),
         UNCHANGED <<log, group, rules, database, known>>
  PROVE  EpisodesInv'
<1>1. TypeInv' /\ TypeOK
  BY EpisodeTypes DEF DurableInv
<1>2. LogGrows
  BY <1>1, SameLog
<1>3. TableInv'
  BY <1>2, EpisodeTypes, TableStays DEF group, database
<1>4. \A j \in Instances \ {i} :
        /\ mem'[j] = mem[j] /\ pos'[j] = pos[j] /\ pc'[j] = pc[j] /\ batch'[j] = batch[j]
        /\ attempts'[j] = attempts[j] /\ owned'[j] = owned[j] /\ member'[j] = member[j]
        /\ j \in up => j \in up'
  BY <1>1 DEF GiveBack, Stop, TypeOK
<1>5. \A j \in Instances \ {i} : OwnerInv(j)'
  BY <1>2, <1>4, OwnerStays DEF database, GoesOn
<1>6. CASE Stop(i)
  <2>1. owned'[i] = "no" /\ member'[i] = "out"
    BY <1>1, <1>6 DEF Stop, TypeOK
  <2>2. OwnerInv(i)'
    BY <2>1 DEF OwnerInv
  <2>3. Calm'
    BY <1>4, <2>1 DEF EpisodesInv, Calm
  <2> QED BY <1>3, <1>5, <2>2, <2>3 DEF EpisodesInv
<1>7. CASE ~Stop(i)
  <2>1. /\ pc[i] \in {"write", "send"} /\ pc'[i] = "idle" /\ attempts'[i] = attempts[i] + 1
        /\ UNCHANGED <<up, member, owned, mem, pos>>
    BY <1>1, <1>7 DEF GiveBack, TypeOK
  <2>2. attempts'[i] > 0
    BY <2>1, OwnerTypes
  <2>3. OwnerInv(i)'
    BY <1>2, <2>1, <2>2, OwnerStays DEF database, PutsDown
  <2>4. Calm'
    BY <2>1, CalmStays DEF EpisodesInv
  <2> QED BY <1>3, <1>5, <2>3, <2>4 DEF EpisodesInv
<1> QED BY <1>6, <1>7

(* Only the owner that keeps the partition keeps its memory, and it is at  *)
(* the confirmed position.                                                 *)
LEMMA RebalanceEpisodes ==
  ASSUME EpisodesInv, DurableInv', Rebalance
  PROVE  EpisodesInv'
<1> DEFINE ready == {j \in up : pc[j] = "idle"}
<1>1. TypeInv' /\ TypeOK /\ up \subseteq Instances
  BY EpisodeTypes DEF DurableInv, TypeOK
<1>2. PICK o \in ready : JoinGroup(o, ready)
  BY DEF Rebalance
<1>3. Current \subseteq ready
  BY DEF Rebalance
<1>4. LogGrows
  BY <1>1, <1>2, SameLog DEF JoinGroup
<1>5. TableInv'
  BY <1>2, <1>4, EpisodeTypes, TableStays DEF JoinGroup, database
<1>6. ASSUME NEW j \in Instances
      PROVE  /\ j \in ready => member'[j] = "current"
             /\ j \notin ready => /\ member'[j] = member[j] /\ member[j] # "current"
                                  /\ owned'[j] = owned[j] /\ owned[j] = "no"
  <2>1. j \notin ready => member[j] # "current"
    BY <1>3 DEF EpisodesInv, Calm, Current
  <2>2. j \notin ready => owned[j] = "no"
    BY <2>1 DEF EpisodesInv, Calm
  <2> QED BY <1>2, <2>1, <2>2 DEF JoinGroup
<1>7. Calm'
  <2>1. UNCHANGED <<rules, up, known>>
    BY <1>2 DEF JoinGroup
  <2> QED BY <1>6, <2>1 DEF EpisodesInv, Calm
<1>8. ASSUME NEW j \in Instances PROVE OwnerInv(j)'
  <2> SUFFICES ASSUME owned'[j] = "yes" PROVE OwnerInv(j)'
    BY DEF OwnerInv
  <2>1. j \in ready
    BY <1>6
  <2>2. j = o /\ Keeps(j) /\ owned[j] = "yes" /\ mem'[j] = mem[j] /\ pos'[j] = committed
    BY <1>2, <2>1 DEF JoinGroup
  <2>3. pos[j] = committed
    BY <2>2, OwnerTypes
  <2>4. UNCHANGED <<pc, batch, attempts, database>>
    BY <1>2 DEF JoinGroup
  <2> QED BY <1>4, <2>2, <2>3, <2>4, OwnerStays DEF database, GoesOn
<1> QED BY <1>5, <1>7, <1>8 DEF EpisodesInv

LEMMA NextEpisodes ==
  ASSUME Faults \subseteq EpisodeFaults, EpisodesInv, [Next]_vars
  PROVE  EpisodesInv'
<1>1. DurableInv' /\ TypeInv' /\ TypeOK
  BY EpisodeTypes, NextDurable DEF EpisodesInv, DurableInv
<1>2. ASSUME NEW i \in Instances, Handle(i), ~WriteRejected(i) PROVE EpisodesInv'
  BY <1>1, <1>2, HandleEpisodes
<1>3. ASSUME NEW i \in Instances,
             WriteRejected(i) \/ WriteFailed(i) \/ PublishFailed(i) \/ Crash(i)
      PROVE  EpisodesInv'
  BY <1>1, <1>3, GiveBackEpisodes DEF WriteRejected, WriteFailed, PublishFailed, Crash
<1>4. ASSUME NEW i \in Instances, Adopt(i) PROVE EpisodesInv'
  <2>1. /\ owned[i] = "adopting" /\ UNCHANGED <<log, rules, database, up, member, known, committed>>
        /\ \A j \in Instances \ {i} : owned'[j] = owned[j]
        /\ \A j \in Instances : owned'[j] # "no" => owned[j] # "no"
    BY <1>1, <1>4 DEF Adopt, TypeOK, group
  <2>2. LogGrows
    BY <1>1, <2>1, SameLog
  <2>3. OwnerInv(i)'
    BY <1>4, <2>2, AdoptOwner
  <2>4. \A j \in Instances : OwnerInv(j)'
    BY <2>1, <2>3, OnlyOwner
  <2>5. Calm'
    BY <2>1, CalmStays DEF EpisodesInv
  <2>6. TableInv'
    BY <1>1, <2>1, <2>2, EpisodeTypes, TableStays DEF database
  <2> QED BY <1>1, <2>4, <2>5, <2>6 DEF EpisodesInv
<1>5. ASSUME LogGrows, UNCHANGED <<group, database, member, owned, mem, pos, pc, batch, attempts>>,
             up \subseteq up', \A j \in Instances : known'[j] \in {known[j], rules}
      PROVE  EpisodesInv'
  <2>1. TableInv'
    BY <1>1, <1>5, EpisodeTypes, TableStays DEF database, group
  <2>2. Calm'
    BY <1>5, CalmStays DEF EpisodesInv, LogGrows
  <2>3. ASSUME NEW j \in Instances PROVE OwnerInv(j)'
    BY <1>5, OwnerStays DEF database, GoesOn
  <2> QED BY <1>1, <2>1, <2>2, <2>3 DEF EpisodesInv
<1>6. CASE Produce
  <2>1. PICK f \in Frames : log' = Append(log, f)
    BY <1>6 DEF Produce
  <2>2. LogGrows
    BY <1>1, <1>6, <2>1, EpisodeTypes DEF LogGrows, Produce
  <2> QED BY <1>5, <1>6, <2>2 DEF Produce, memory
<1>7. ASSUME NEW i \in Instances, Restart(i) \/ RefreshRules(i) PROVE EpisodesInv'
  <2>1. /\ UNCHANGED <<log, rules, group, database, member, owned, mem, pos, pc, batch, attempts>>
        /\ up \subseteq up' /\ \A j \in Instances : known'[j] \in {known[j], rules}
    BY <1>1, <1>7 DEF Restart, RefreshRules, TypeOK
  <2>2. LogGrows
    BY <1>1, <2>1, SameLog
  <2> QED BY <1>5, <2>1, <2>2
<1>8. CASE UNCHANGED vars
  <2>1. LogGrows
    BY <1>1, <1>8, SameLog DEF vars
  <2> QED BY <1>5, <1>8, <2>1 DEF vars, memory
<1>9. ~Evict /\ ~EditRules
  BY DEF Evict, EditRules, Fault, EpisodeFaults
<1>10. \A i \in Instances : ~AdoptBlind(i) /\ ~CommitRefused(i) /\ ~RestartUnloaded(i)
  BY DEF AdoptBlind, CommitRefused, RestartUnloaded, Fault, EpisodeFaults
<1>11. CASE Rebalance
  BY <1>1, <1>11, RebalanceEpisodes
<1> QED BY <1>2, <1>3, <1>4, <1>6, <1>7, <1>8, <1>9, <1>10, <1>11 DEF Next

LEMMA InitEpisodes == Init => EpisodesInv
<1> SUFFICES ASSUME Init PROVE EpisodesInv
  OBVIOUS
<1>1. DurableInv
  BY InitDurable
<1>2. Written = {} /\ episodes = {} /\ closings = {} /\ committed = 0
  BY DEF Init, Written
<1>3. TableInv
  BY <1>2 DEF TableInv, OneOpenEpisode
<1>4. Calm /\ \A i \in Instances : OwnerInv(i)
  BY DEF Init, Calm, OwnerInv
<1> QED BY <1>1, <1>3, <1>4 DEF EpisodesInv

(* A metric never has two open episodes, and no episode is open that the   *)
(* owner of the device has forgotten: adopt, evaluateDeviceAlarms and the  *)
(* transaction together.                                                   *)
THEOREM IngestEpisodes ==
  ASSUME Faults \subseteq EpisodeFaults
  PROVE  Spec => []EpisodesAreSound
<1>1. EpisodesInv => EpisodesAreSound
  <2> SUFFICES ASSUME EpisodesInv PROVE EpisodesAreSound
    OBVIOUS
  <2>1. OneOpenEpisode
    BY DEF EpisodesInv, TableInv
  <2>2. ASSUME NEW i \in Instances, Settled(i), NEW e \in episodes, IsOpen(e)
        PROVE  mem[i].raised /\ mem[i].raisedAt = e
    <3>1. owned[i] = "yes" /\ pc[i] = "idle" /\ attempts[i] = 0
      BY <2>2 DEF Settled
    <3>2. Expects(i, e)
      BY <2>2, <3>1, EpisodeTypes DEF OwnerInv, MemInv
    <3> QED BY <3>1, <3>2 DEF Expects, On
  <2> QED BY <2>1, <2>2 DEF EpisodesAreSound, NoOrphanEpisode
<1>2. EpisodesInv /\ [Next]_vars => EpisodesInv'
  BY NextEpisodes
<1> QED BY InitEpisodes, <1>1, <1>2, PTL DEF Spec

(* An episode opens after Debounce violating cycles in a row, whatever was *)
(* delivered again: the debounce of evaluateDeviceAlarms.                  *)
THEOREM IngestDebounced ==
  ASSUME Faults \subseteq EpisodeFaults
  PROVE  Spec => []DebouncedRaise
<1>1. EpisodesInv => DebouncedRaise
  BY DEF EpisodesInv, TableInv, DebouncedRaise, Founded, Streak
<1>2. EpisodesInv /\ [Next]_vars => EpisodesInv'
  BY NextEpisodes
<1> QED BY InitEpisodes, <1>1, <1>2, PTL DEF Spec

(* An episode is closed by a sample past the return zone or by a mode      *)
(* without a setpoint: isBackToNormal, and the rows closeAlarmEvents finds. *)
THEOREM IngestClosings ==
  ASSUME Faults \subseteq EpisodeFaults
  PROVE  Spec => []ClosedForReason
<1>1. EpisodesInv => ClosedForReason
  BY DEF EpisodesInv, TableInv, ClosedForReason, EndsAt, Ruled, IsBackToNormal
<1>2. EpisodesInv /\ [Next]_vars => EpisodesInv'
  BY NextEpisodes
<1> QED BY InitEpisodes, <1>1, <1>2, PTL DEF Spec
===============================================================================
