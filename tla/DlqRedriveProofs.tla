--------------------------- MODULE DlqRedriveProofs ---------------------------
(***************************************************************************)
(* Proofs about the second life of dead letters, for every number of       *)
(* instances, messages, requests, attempts and faults: no letter is lost   *)
(* between the queue and the topic, its failures form one chain of rows, a *)
(* row is sent once for every failure on the way, and the outcome of a     *)
(* request is written once.                                                *)
(*                                                                         *)
(* The argument: a row points back, to the row its copy was made of, so    *)
(* the rows of a message form a chain that ends in its newest row.  A row  *)
(* is resolved only when its copy has been met or is still ahead in the    *)
(* topic, and what was met has left a newer row or its readings.  Two open *)
(* transactions share neither a row nor a request, so what one of them     *)
(* does to its own cannot touch the other's.                               *)
(***************************************************************************)
EXTENDS DlqRedrive, FiniteSetTheorems, SequenceTheorems, WellFoundedInduction, TLAPS

(* What the constants may be. *)
DlqConstants ==
  /\ Messages \in Nat /\ MaxRequests \in Nat /\ MaxFaults \in Nat
  /\ FinalAttempts \in Nat \ {0}

Turns == {"idle", "sending", "marking", "failing"}
Tx == [at : Turns, request : Requests \cup {0}, due : SUBSET Nat, spent : SUBSET Nat]

Held(i) == tx[i].due \cup tx[i].spent

(* A message of the topic is itself or a copy of a row that has attempts   *)
(* left.                                                                   *)
CopyInv(o) ==
  LET m == topic[o]
  IN /\ m.of = 0 => m.message = o /\ m.attempts = 0
     /\ m.of # 0 => /\ m.of \in DOMAIN rows
                    /\ m.message = rows[m.of].message
                    /\ m.attempts = rows[m.of].attempts
                    /\ rows[m.of].attempts < FinalAttempts

(* A row is a failure of a message of the topic and newer than the row     *)
(* that message is a copy of.                                              *)
RowInv(r) ==
  LET m == topic[rows[r].offset]
  IN /\ rows[r].offset \in DOMAIN topic
     /\ rows[r].message = m.message /\ rows[r].of = m.of
     /\ rows[r].attempts = m.attempts + 1
     /\ rows[r].of < r

(* A message has one row, and a row one successor.                         *)
RowsDiffer ==
  \A r, s \in DOMAIN rows :
    r # s => /\ rows[r].offset # rows[s].offset
             /\ rows[r].of = rows[s].of => rows[r].of = 0

(* What a row was sent for has come to something or is still ahead.        *)
Passed(r) ==
  \/ rows[r].message \in stored
  \/ \E s \in DOMAIN rows : rows[s].of = r
  \/ \E o \in DOMAIN topic : o > handled /\ topic[o].of = r

PassedInv ==
  /\ \A r \in DOMAIN rows : rows[r].state = "resolved" => Passed(r)
  /\ \A i \in Instances : tx[i].at = "marking" => \A r \in tx[i].due : Passed(r)

(* What an open transaction holds is as it was claimed, and no other has   *)
(* claimed it.                                                             *)
OwnLocks(i) ==
  /\ Open(i) => /\ tx[i].request \in Requests /\ requests[tx[i].request] = "queued"
                /\ \A r \in tx[i].due : ~Spent(r)
                /\ tx[i].due \cap tx[i].spent = {}
  /\ tx[i].at = "failing" => tx[i].request \in Requests
  /\ Held(i) \subseteq Waiting(rows)
  /\ ~Open(i) => Held(i) = {}

Apart(i, j) == tx[i].request # tx[j].request /\ Held(i) \cap Held(j) = {}

LockInv ==
  /\ \A i \in Instances : OwnLocks(i)
  /\ \A i, j \in Instances : i # j /\ Open(i) /\ Open(j) => Apart(i, j)

Sent(r) == {o \in DOMAIN topic : topic[o].of = r}

(* A row that waits and is not about to be marked has been sent once for   *)
(* every failure at most.                                                  *)
BeingMarked(r) == \E i \in Instances : tx[i].at = "marking" /\ r \in tx[i].due
SentInv(r) ==
  Cardinality(Sent(r)) <= IF r \in Waiting(rows) /\ ~BeingMarked(r) THEN faults ELSE 1 + faults

LetterInv ==
  /\ TypeOK
  /\ tx \in [Instances -> Tx]
  /\ \A o \in DOMAIN topic : CopyInv(o)
  /\ \A r \in DOMAIN rows : RowInv(r)
  /\ RowsDiffer
  /\ ChainDoesNotBranch
  /\ PassedInv
  /\ LockInv
  /\ \A r \in DOMAIN rows : SentInv(r)

-------------------------------------------------------------------------------
(* What the parts of the state look like. *)
LEMMA ItemsTyped == \A S : \A s \in Seq(S) : \A k \in DOMAIN s : s[k] \in S
  OBVIOUS

LEMMA TopicTyped ==
  ASSUME TypeOK
  PROVE  /\ Len(topic) \in Nat /\ DOMAIN topic = 1..Len(topic)
         /\ handled \in Nat /\ handled <= Len(topic)
         /\ \A o \in DOMAIN topic : /\ topic[o] \in TopicMessage
                                    /\ topic[o].message \in 1..Messages
                                    /\ topic[o].of \in Nat
                                    /\ topic[o].attempts \in 0..FinalAttempts
<1>1. topic \in Seq(TopicMessage) /\ handled \in 0..Len(topic)
  BY DEF TypeOK
<1>2. Len(topic) \in Nat /\ DOMAIN topic = 1..Len(topic)
  BY <1>1
<1>3. \A o \in DOMAIN topic : topic[o] \in TopicMessage
  BY <1>1, ItemsTyped
<1>4. \A m \in TopicMessage : /\ m.message \in 1..Messages /\ m.of \in Nat
                              /\ m.attempts \in 0..FinalAttempts
  BY DEF TopicMessage
<1>5. QED
  BY <1>1, <1>2, <1>3, <1>4

LEMMA RowsTyped ==
  ASSUME TypeOK
  PROVE  /\ Len(rows) \in Nat /\ DOMAIN rows = 1..Len(rows)
         /\ \A r \in DOMAIN rows : /\ rows[r] \in TableRow
                                   /\ rows[r].offset \in Nat \ {0}
                                   /\ rows[r].message \in 1..Messages
                                   /\ rows[r].of \in Nat
                                   /\ rows[r].attempts \in 1..FinalAttempts
                                   /\ rows[r].state \in {"waiting", "resolved", "rejected"}
<1>1. rows \in Seq(TableRow)
  BY DEF TypeOK
<1>2. Len(rows) \in Nat /\ DOMAIN rows = 1..Len(rows)
  BY <1>1
<1>3. \A r \in DOMAIN rows : rows[r] \in TableRow
  BY <1>1, ItemsTyped
<1>4. \A r \in TableRow : /\ r.offset \in Nat \ {0} /\ r.message \in 1..Messages /\ r.of \in Nat
                          /\ r.attempts \in 1..FinalAttempts
                          /\ r.state \in {"waiting", "resolved", "rejected"}
  BY DEF TableRow
<1>5. QED
  BY <1>2, <1>3, <1>4

LEMMA TxTyped ==
  ASSUME LetterInv, NEW i \in Instances
  PROVE  /\ tx[i] \in Tx /\ tx[i].at \in Turns /\ tx[i].request \in Requests \cup {0}
         /\ tx[i].due \subseteq Waiting(rows) /\ tx[i].spent \subseteq Waiting(rows)
<1>1. tx[i] \in Tx
  BY DEF LetterInv
<1>2. tx[i].at \in Turns /\ tx[i].request \in Requests \cup {0}
  BY <1>1 DEF Tx
<1>3. tx[i].due \cup tx[i].spent \subseteq Waiting(rows)
  BY DEF LetterInv, LockInv, OwnLocks, Held
<1>4. QED
  BY <1>1, <1>2, <1>3

LEMMA SentIsFinite ==
  ASSUME TypeOK, NEW r
  PROVE  IsFiniteSet(Sent(r)) /\ Cardinality(Sent(r)) \in Nat
<1>1. IsFiniteSet(1..Len(topic))
  BY TopicTyped, FS_Interval
<1>2. Sent(r) \subseteq 1..Len(topic)
  BY TopicTyped DEF Sent
<1>3. QED
  BY <1>1, <1>2, FS_Subset, FS_CardinalityType

(* Nothing has failed and nobody redrives. *)
LEMMA LettersInit == ASSUME DlqConstants PROVE Init => LetterInv
<1> SUFFICES ASSUME Init PROVE LetterInv
  OBVIOUS
<1>1. /\ DOMAIN topic = 1..Messages /\ topic \in Seq(TopicMessage) /\ Len(topic) = Messages
      /\ \A o \in DOMAIN topic : topic[o] = [message |-> o, of |-> 0, attempts |-> 0]
  <2>1. \A m \in 1..Messages : [message |-> m, of |-> 0, attempts |-> 0] \in TopicMessage
    BY DEF TopicMessage, DlqConstants
  <2>2. topic \in [1..Messages -> TopicMessage]
    BY <2>1 DEF Init
  <2>3. topic \in Seq(TopicMessage) /\ Len(topic) = Messages
    BY <2>2 DEF DlqConstants
  <2>4. QED
    BY <2>2, <2>3 DEF Init
<1>2. rows = <<>> /\ DOMAIN rows = {} /\ rows \in Seq(TableRow)
  BY DEF Init
<1>3. \A i \in Instances : tx[i] = NoTx
  BY DEF Init
<1>4. tx \in [Instances -> Tx]
  BY DEF Init, NoTx, Tx, Turns
<1>5. requests \in [Requests -> {"none", "queued", "running", "done", "failed"}]
  BY DEF Init
<1>6. TypeOK
  <2>1. handled \in 0..Len(topic) /\ stored \subseteq 1..Messages
    BY <1>1 DEF Init, DlqConstants
  <2>2. recovered \subseteq Instances /\ faults \in 0..MaxFaults
    BY DEF Init, DlqConstants
  <2>3. QED
    BY <1>1, <1>2, <1>3, <1>5, <2>1, <2>2 DEF TypeOK, NoTx
<1>7. \A o \in DOMAIN topic : CopyInv(o)
  BY <1>1 DEF CopyInv
<1>8. RowsDiffer /\ ChainDoesNotBranch
  BY <1>2 DEF RowsDiffer, ChainDoesNotBranch
<1>9. PassedInv
  BY <1>2, <1>3 DEF PassedInv, NoTx
<1>10. LockInv
  BY <1>3 DEF LockInv, OwnLocks, Open, NoTx, Held
<1>11. QED
  BY <1>2, <1>4, <1>6, <1>7, <1>8, <1>9, <1>10 DEF LetterInv

-------------------------------------------------------------------------------
(* A step of the service that leaves table and topic alone: what has to be  *)
(* shown of it.                                                            *)
LEMMA QuietStep ==
  ASSUME LetterInv, UNCHANGED <<topic, handled, rows, stored>>,
         tx' \in [Instances -> Tx],
         requests' \in [Requests -> {"none", "queued", "running", "done", "failed"}],
         recovered' \subseteq Instances,
         faults' \in 0..MaxFaults,
         \A i \in Instances : tx'[i].at = "marking" => tx[i].at = "marking" /\ tx'[i].due = tx[i].due,
         LockInv',
         \A r \in DOMAIN rows : SentInv(r)'
  PROVE  LetterInv'
<1>1. TypeOK'
  <2>1. \A i \in Instances : /\ tx'[i].at \in Turns /\ tx'[i].request \in Requests \cup {0}
                             /\ tx'[i].due \cup tx'[i].spent \subseteq DOMAIN rows
    BY DEF Tx, LockInv, OwnLocks, Held, Waiting
  <2>2. QED
    BY <2>1 DEF LetterInv, TypeOK, Turns
<1>2. (\A o \in DOMAIN topic : CopyInv(o))'
  BY DEF LetterInv, CopyInv
<1>3. (\A r \in DOMAIN rows : RowInv(r))'
  BY DEF LetterInv, RowInv
<1>4. RowsDiffer' /\ ChainDoesNotBranch'
  BY DEF LetterInv, RowsDiffer, ChainDoesNotBranch
<1>5. PassedInv'
  <2>1. \A r : Passed(r)' <=> Passed(r)
    BY DEF Passed
  <2>2. QED
    BY <2>1 DEF LetterInv, PassedInv
<1>6. QED
  BY <1>1, <1>2, <1>3, <1>4, <1>5 DEF LetterInv

(* A row is sent no more often; a failure may have come.                    *)
LEMMA SentStands ==
  ASSUME LetterInv, UNCHANGED <<topic, rows>>,
         faults' \in Nat,
         \/ faults' = faults /\ (\A r : BeingMarked(r) => BeingMarked(r)')
         \/ faults' = faults + 1
  PROVE  \A r \in DOMAIN rows : SentInv(r)'
<1> TAKE r \in DOMAIN rows
<1>1. Sent(r)' = Sent(r) /\ (r \in Waiting(rows))' = (r \in Waiting(rows))
  BY DEF Sent, Waiting
<1>2. SentInv(r) /\ TypeOK /\ faults \in Nat
  BY DEF LetterInv, TypeOK
<1>3. Cardinality(Sent(r)) \in Nat
  BY <1>2, SentIsFinite
<1>4. QED
  BY <1>1, <1>2, <1>3 DEF SentInv

LEMMA FaultCounts ==
  ASSUME DlqConstants, LetterInv, NEW kind
  PROVE  /\ faults \in Nat /\ faults \in 0..MaxFaults
         /\ Fault(kind) => faults' = faults + 1 /\ faults' \in 0..MaxFaults /\ faults' \in Nat
  BY DEF LetterInv, TypeOK, Fault, DlqConstants

LEMMA RequestsTyped ==
  LetterInv => /\ requests \in [Requests -> {"none", "queued", "running", "done", "failed"}]
               /\ recovered \subseteq Instances
               /\ tx \in [Instances -> Tx]
  BY DEF LetterInv, TypeOK

(* Requests that are not held may change; the rest of the locks stand.      *)
LEMMA RequestsStep ==
  ASSUME DlqConstants, LetterInv, UNCHANGED <<topic, handled, rows, stored, tx, faults>>,
         requests' \in [Requests -> {"none", "queued", "running", "done", "failed"}],
         recovered' \subseteq Instances,
         \A q \in Requests : requests[q] = "queued" => requests'[q] = "queued"
  PROVE  LetterInv'
<1>1. LockInv'
  BY DEF LetterInv, LockInv, OwnLocks, Apart, Open, Held, Waiting, Spent
<1>2. \A r \in DOMAIN rows : SentInv(r)'
  BY FaultCounts, SentStands DEF BeingMarked
<1>3. QED
  BY <1>1, <1>2, FaultCounts, RequestsTyped, QuietStep

LEMMA AskStep == ASSUME DlqConstants PROVE LetterInv /\ Ask => LetterInv'
<1> SUFFICES ASSUME LetterInv, Ask PROVE LetterInv'
  OBVIOUS
<1>1. PICK q \in Requests :
        /\ \A p \in Requests : (p < q) <=> (requests[p] # "none")
        /\ requests' = [requests EXCEPT ![q] = "queued"]
  BY DEF Ask
<1>2. requests' \in [Requests -> {"none", "queued", "running", "done", "failed"}]
  BY <1>1, RequestsTyped
<1>3. \A p \in Requests : requests[p] = "queued" => requests'[p] = "queued"
  BY <1>1, RequestsTyped
<1>4. QED
  BY <1>2, <1>3, RequestsTyped, RequestsStep DEF Ask

LEMMA RecoverStep ==
  ASSUME DlqConstants, NEW i \in Instances PROVE LetterInv /\ Recover(i) => LetterInv'
<1> SUFFICES ASSUME LetterInv, Recover(i) PROVE LetterInv'
  OBVIOUS
<1>1. /\ requests' \in [Requests -> {"none", "queued", "running", "done", "failed"}]
      /\ \A p \in Requests : requests[p] = "queued" => requests'[p] = "queued"
  BY RequestsTyped DEF Recover, Unstuck
<1>2. recovered' \subseteq Instances
  BY RequestsTyped DEF Recover
<1>3. QED
  BY <1>1, <1>2, RequestsStep DEF Recover

(* A transaction ends without a trace in the table: its locks go, and what  *)
(* becomes of its request nobody else holds.                               *)
LEMMA LocksLetGo ==
  ASSUME LetterInv,
         NEW i \in Instances, NEW t \in Tx,
         t.at \in {"idle", "failing"}, t.due = {}, t.spent = {},
         t.at = "failing" => t.request \in Requests,
         tx' = [tx EXCEPT ![i] = t],
         \A r \in DOMAIN rows : rows'[r].attempts = rows[r].attempts,
         \A j \in Instances : j # i => Held(j) \subseteq Waiting(rows)',
         \A j \in Instances : j # i /\ Open(j) => requests'[tx[j].request] = requests[tx[j].request]
  PROVE  LockInv' /\ tx' \in [Instances -> Tx]
<1>1. tx' \in [Instances -> Tx] /\ tx'[i] = t /\ \A j \in Instances : j # i => tx'[j] = tx[j]
  BY RequestsTyped
<1>2. ~Open(i)' /\ Held(i)' = {} /\ \A j \in Instances : j # i => (Open(j)' <=> Open(j)) /\ Held(j)' = Held(j)
  BY <1>1 DEF Open, Held
<1>3. LockInv
  BY DEF LetterInv
<1>4. (\A j \in Instances : OwnLocks(j))'
  <2> SUFFICES ASSUME NEW j \in Instances PROVE OwnLocks(j)'
    OBVIOUS
  <2>1. CASE j = i
    BY <1>1, <1>2, <2>1 DEF OwnLocks
  <2>2. CASE j # i
    <3>1. OwnLocks(j) /\ tx'[j] = tx[j] /\ Held(j)' \subseteq Waiting(rows)'
      BY <1>1, <1>2, <1>3, <2>2 DEF LockInv
    <3>2. \A r \in tx[j].due : r \in DOMAIN rows
      BY TxTyped DEF Waiting
    <3>3. QED
      BY <1>2, <2>2, <3>1, <3>2 DEF OwnLocks, Spent
  <2>3. QED
    BY <2>1, <2>2
<1>5. (\A j, k \in Instances : j # k /\ Open(j) /\ Open(k) => Apart(j, k))'
  BY <1>1, <1>2, <1>3 DEF LockInv, Apart
<1>6. QED
  BY <1>1, <1>4, <1>5 DEF LockInv

LEMMA LetGoStep ==
  ASSUME DlqConstants, LetterInv, UNCHANGED <<topic, handled, rows, stored>>,
         NEW i \in Instances, NEW t \in Tx,
         t.at \in {"idle", "failing"}, t.due = {}, t.spent = {},
         t.at = "failing" => t.request \in Requests,
         tx' = [tx EXCEPT ![i] = t],
         requests' \in [Requests -> {"none", "queued", "running", "done", "failed"}],
         \A j \in Instances : j # i /\ Open(j) => requests'[tx[j].request] = requests[tx[j].request],
         recovered' \subseteq Instances,
         faults' \in 0..MaxFaults,
         faults' = faults + 1 \/ (faults' = faults /\ tx[i].at # "marking")
  PROVE  LetterInv'
<1>1. tx' \in [Instances -> Tx] /\ tx'[i] = t /\ \A j \in Instances : j # i => tx'[j] = tx[j]
  BY RequestsTyped
<1>2. LockInv'
  <2>1. \A j \in Instances : Held(j) \subseteq Waiting(rows)'
    BY DEF LetterInv, LockInv, OwnLocks, Waiting
  <2>2. QED
    BY <2>1, LocksLetGo
<1>3. \A r \in DOMAIN rows : SentInv(r)'
  <2>1. faults' = faults => \A r : BeingMarked(r) => BeingMarked(r)'
    BY <1>1, FaultCounts DEF BeingMarked
  <2>2. faults' \in Nat
    BY FaultCounts
  <2>3. QED
    BY <2>1, <2>2, SentStands
<1>4. \A j \in Instances : tx'[j].at = "marking" => tx[j].at = "marking" /\ tx'[j].due = tx[j].due
  BY <1>1
<1>5. QED
  BY <1>1, <1>2, <1>3, <1>4, QuietStep

LEMMA FailTx ==
  ASSUME LetterInv, NEW i \in Instances
  PROVE  /\ NoTx \in Tx
         /\ tx[i].at \in {"sending", "marking", "failing"} => tx[i].request \in Requests
         /\ [at |-> "failing", request |-> tx[i].request, due |-> {}, spent |-> {}] \in Tx
  BY TxTyped DEF NoTx, Tx, Turns, LetterInv, LockInv, OwnLocks, Open

LEMMA FailStep ==
  ASSUME DlqConstants, NEW i \in Instances PROVE LetterInv /\ Fail(i) => LetterInv'
<1> SUFFICES ASSUME LetterInv, Fail(i) PROVE LetterInv'
  OBVIOUS
<1> DEFINE q == tx[i].request
<1>1. tx[i].at = "failing" /\ q \in Requests
  BY FailTx DEF Fail
<1>2. requests' = [requests EXCEPT ![q] = IF MayFinish(@) THEN "failed" ELSE @]
  BY DEF Fail
<1>3. requests' \in [Requests -> {"none", "queued", "running", "done", "failed"}]
  BY <1>2, RequestsTyped
<1>4. \A j \in Instances : j # i /\ Open(j) => requests'[tx[j].request] = requests[tx[j].request]
  <2>1. \A j \in Instances : Open(j) => tx[j].request # q
    BY DEF Fail, HeldRequests
  <2>2. QED
    BY <1>2, <2>1, RequestsTyped DEF LetterInv, LockInv, OwnLocks
<1>5. QED
  BY <1>1, <1>3, <1>4, FailTx, FaultCounts, RequestsTyped, LetGoStep DEF Fail, NoTx

LEMMA FailLostStep ==
  ASSUME DlqConstants, NEW i \in Instances PROVE LetterInv /\ FailLost(i) => LetterInv'
  BY FailTx, FaultCounts, RequestsTyped, LetGoStep DEF FailLost, NoTx

LEMMA CommitFailsStep ==
  ASSUME DlqConstants, NEW i \in Instances PROVE LetterInv /\ CommitFails(i) => LetterInv'
<1> SUFFICES ASSUME LetterInv, CommitFails(i) PROVE LetterInv'
  OBVIOUS
<1> DEFINE t == [at |-> "failing", request |-> tx[i].request, due |-> {}, spent |-> {}]
<1>1. tx' = [tx EXCEPT ![i] = t] /\ t \in Tx /\ t.request \in Requests
  BY FailTx DEF CommitFails, FailsAfter
<1>2. faults' = faults + 1 /\ faults' \in 0..MaxFaults
  BY FaultCounts DEF CommitFails
<1>3. t.at = "failing" /\ t.due = {} /\ t.spent = {}
  OBVIOUS
<1> HIDE DEF t
<1>4. QED
  BY <1>1, <1>2, <1>3, RequestsTyped, LetGoStep DEF CommitFails

LEMMA CrashStep ==
  ASSUME DlqConstants, NEW i \in Instances PROVE LetterInv /\ Crash(i) => LetterInv'
<1> SUFFICES ASSUME LetterInv, Crash(i) PROVE LetterInv'
  OBVIOUS
<1>1. recovered' \subseteq Instances
  BY RequestsTyped DEF Crash
<1>2. faults' = faults + 1 /\ faults' \in 0..MaxFaults
  BY FaultCounts DEF Crash
<1>3. QED
  BY <1>1, <1>2, FailTx, RequestsTyped, LetGoStep DEF Crash, NoTx

(* A claim takes a request and rows that nobody holds.                      *)
LEMMA BeginStep ==
  ASSUME DlqConstants, NEW i \in Instances PROVE LetterInv /\ Begin(i) => LetterInv'
<1> SUFFICES ASSUME LetterInv, Begin(i) PROVE LetterInv'
  OBVIOUS
<1> DEFINE due == {r \in Selected : ~Spent(r)}
           spent == {r \in Selected : Spent(r)}
<1>1. PICK q \in Requests :
        /\ Claimable(q)
        /\ tx' = [tx EXCEPT ![i] = [at |-> "sending", request |-> q, due |-> due, spent |-> spent]]
  BY DEF Begin
<1>2. /\ UNCHANGED <<topic, handled, rows, stored, requests, recovered, faults>>
      /\ tx[i].at = "idle"
  BY DEF Begin
<1>3. Selected \subseteq Waiting(rows) \ HeldRows
  BY DEF Selected
<1>4. due \subseteq Nat /\ spent \subseteq Nat /\ due \cap spent = {} /\ due \cup spent = Selected
  <2>1. Waiting(rows) \subseteq Nat
    BY RowsTyped DEF Waiting, LetterInv
  <2>2. QED
    BY <1>3, <2>1
<1>5. \A r \in due : ~Spent(r)
  OBVIOUS
<1> DEFINE t == [at |-> "sending", request |-> q, due |-> due, spent |-> spent]
<1>6. t \in Tx
  BY <1>4 DEF Tx, Turns
<1>7. t.at = "sending" /\ t.request = q /\ t.due = due /\ t.spent = spent
  OBVIOUS
<1>8. tx' = [tx EXCEPT ![i] = t]
  BY <1>1
<1> HIDE DEF t, due, spent
<1>9. tx' \in [Instances -> Tx] /\ tx'[i] = t /\ \A j \in Instances : j # i => tx'[j] = tx[j]
  BY <1>6, <1>8, RequestsTyped
<1>10. /\ Open(i)' /\ Held(i)' = Selected
       /\ \A j \in Instances : j # i => (Open(j)' <=> Open(j)) /\ Held(j)' = Held(j)
  BY <1>4, <1>7, <1>9 DEF Open, Held
<1>11. LockInv'
  <2>1. LockInv
    BY DEF LetterInv
  <2>2. (\A j \in Instances : OwnLocks(j))'
    <3> SUFFICES ASSUME NEW j \in Instances PROVE OwnLocks(j)'
      OBVIOUS
    <3>1. CASE j = i
      <4>1. requests[q] = "queued"
        BY <1>1 DEF Claimable
      <4>2. \A r \in due : ~Spent(r)'
        BY <1>2, <1>5 DEF Spent
      <4>3. Selected \subseteq Waiting(rows)'
        BY <1>2, <1>3 DEF Waiting
      <4>4. QED
        BY <1>2, <1>4, <1>7, <1>9, <1>10, <3>1, <4>1, <4>2, <4>3 DEF OwnLocks
    <3>2. CASE j # i
      BY <1>2, <1>9, <1>10, <2>1, <3>2 DEF LockInv, OwnLocks, Waiting, Spent
    <3>3. QED
      BY <3>1, <3>2
  <2>3. \A j \in Instances : Open(j) => tx[j].request # q /\ Held(j) \cap Selected = {}
    <3>1. \A j \in Instances : Open(j) => tx[j].request # q
      BY <1>1 DEF Claimable, HeldRequests
    <3>2. \A j \in Instances : Open(j) => Held(j) \subseteq HeldRows
      BY DEF HeldRows, Held
    <3>3. QED
      BY <1>3, <3>1, <3>2
  <2>4. (\A j, k \in Instances : j # k /\ Open(j) /\ Open(k) => Apart(j, k))'
    BY <1>7, <1>9, <1>10, <2>1, <2>3 DEF LockInv, Apart
  <2>5. QED
    BY <2>2, <2>4 DEF LockInv
<1>12. \A r \in DOMAIN rows : SentInv(r)'
  <2>1. \A r : BeingMarked(r) => BeingMarked(r)'
    BY <1>2, <1>9 DEF BeingMarked
  <2>2. QED
    BY <1>2, <2>1, FaultCounts, SentStands
<1>13. \A j \in Instances : tx'[j].at = "marking" => tx[j].at = "marking" /\ tx'[j].due = tx[j].due
  BY <1>7, <1>9
<1>14. QED
  BY <1>2, <1>9, <1>11, <1>12, <1>13, FaultCounts, RequestsTyped, QuietStep

-------------------------------------------------------------------------------
(* A claim in the order of id has every row of it once.                     *)
LEMMA OrderCovers ==
  ASSUME NEW some, IsFiniteSet(some), NEW order \in InOrder(some)
  PROVE  /\ order \in Seq(some) /\ DOMAIN order = 1..Len(order)
         /\ \A r \in some : \E k \in DOMAIN order : order[k] = r
         /\ \A j, k \in DOMAIN order : order[j] = order[k] => j = k
<1>1. Cardinality(some) \in Nat
  BY FS_CardinalityType
<1>2. order \in [1..Cardinality(some) -> some]
  BY DEF SetToSeqs, InOrder
<1>3. order \in Seq(some) /\ DOMAIN order = 1..Len(order) /\ Len(order) = Cardinality(some)
  BY <1>1, <1>2
<1>4. order \in Injection(1..Cardinality(some), some)
  BY <1>2 DEF SetToSeqs, InOrder, Injection, IsInjective
<1>5. IsFiniteSet(1..Cardinality(some)) /\ Cardinality(1..Cardinality(some)) = Cardinality(some)
  BY <1>1, FS_Interval
<1>6. order \in Surjection(1..Cardinality(some), some)
  BY <1>4, <1>5, FS_Injection
<1>7. \A j, k \in DOMAIN order : order[j] = order[k] => j = k
  BY <1>2 DEF SetToSeqs, InOrder
<1>8. QED
  BY <1>2, <1>3, <1>6, <1>7 DEF Surjection

LEMMA ConcatHas ==
  ASSUME NEW S, NEW s \in Seq(S), NEW t \in Seq(S)
  PROVE  /\ s \o t \in Seq(S) /\ Len(s) \in Nat /\ Len(s \o t) = Len(s) + Len(t)
         /\ DOMAIN s = 1..Len(s) /\ DOMAIN (s \o t) = 1..Len(s) + Len(t)
         /\ \A k \in 1..Len(s) + Len(t) :
              (s \o t)[k] = IF k <= Len(s) THEN s[k] ELSE t[k - Len(s)]
  OBVIOUS

(* What the topic has after copies of some rows: what it had, and behind it *)
(* one copy of each of them.                                               *)
LEMMA TopicGrows ==
  ASSUME DlqConstants, LetterInv, NEW some, some \subseteq Waiting(rows),
         \A r \in some : ~Spent(r),
         \E copies \in Copies(some) : topic' = topic \o copies
  PROVE  /\ topic' \in Seq(TopicMessage) /\ Len(topic) <= Len(topic')
         /\ \A o \in DOMAIN topic : o \in DOMAIN topic' /\ topic'[o] = topic[o]
         /\ \A o \in DOMAIN topic' :
              o \notin DOMAIN topic =>
                /\ o > Len(topic) /\ topic'[o].of \in some
                /\ topic'[o].message = rows[topic'[o].of].message
                /\ topic'[o].attempts = rows[topic'[o].of].attempts
         /\ \A r \in some : \E o \in DOMAIN topic' : o > Len(topic) /\ topic'[o].of = r
         /\ \A o, p \in DOMAIN topic' :
              o \notin DOMAIN topic /\ p \notin DOMAIN topic /\ topic'[o].of = topic'[p].of => o = p
<1>0. TypeOK
  BY DEF LetterInv
<1>1. some \subseteq DOMAIN rows /\ IsFiniteSet(some)
  <2>1. some \subseteq DOMAIN rows
    BY DEF Waiting
  <2>2. DOMAIN rows = 1..Len(rows) /\ Len(rows) \in Nat
    BY <1>0, RowsTyped
  <2>3. IsFiniteSet(1..Len(rows))
    BY <2>2, FS_Interval
  <2>4. QED
    BY <2>1, <2>2, <2>3, FS_Subset
<1> DEFINE C(order) == [k \in DOMAIN order |->
                          [message |-> rows[order[k]].message, of |-> order[k],
                           attempts |-> rows[order[k]].attempts]]
<1>2. PICK order \in InOrder(some) : topic' = topic \o C(order)
  BY DEF Copies
<1>3. /\ order \in Seq(some) /\ DOMAIN order = 1..Len(order)
      /\ \A r \in some : \E k \in DOMAIN order : order[k] = r
      /\ \A j, k \in DOMAIN order : order[j] = order[k] => j = k
  BY <1>1, OrderCovers
<1>4. \A k \in DOMAIN order : order[k] \in some
  BY <1>3
<1>5. \A k \in DOMAIN order : C(order)[k] \in TopicMessage
  <2> SUFFICES ASSUME NEW k \in DOMAIN order PROVE C(order)[k] \in TopicMessage
    OBVIOUS
  <2>1. order[k] \in DOMAIN rows /\ order[k] \in Nat
    BY <1>0, <1>1, <1>4, RowsTyped
  <2>2. rows[order[k]].message \in 1..Messages /\ rows[order[k]].attempts \in 0..FinalAttempts
    BY <1>0, <2>1, RowsTyped DEF DlqConstants
  <2>3. QED
    BY <2>1, <2>2 DEF TopicMessage
<1>6. /\ C(order) \in Seq(TopicMessage) /\ Len(C(order)) = Len(order) /\ Len(order) \in Nat
      /\ \A k \in DOMAIN order : C(order)[k].of = order[k]
                                 /\ C(order)[k].message = rows[order[k]].message
                                 /\ C(order)[k].attempts = rows[order[k]].attempts
  <2>1. Len(order) \in Nat
    BY <1>3
  <2>2. QED
    BY <1>3, <1>5, <2>1, IsASeq
<1> DEFINE copies == C(order)
<1>7. topic \in Seq(TopicMessage) /\ copies \in Seq(TopicMessage) /\ topic' = topic \o copies
  BY <1>0, <1>2, <1>6 DEF TypeOK
<1>8. copies \in Seq(TopicMessage) /\ Len(copies) \in Nat /\ Len(copies) = Len(order)
  BY <1>6
<1>9. \A k \in 1..Len(copies) : copies[k].of = order[k] /\ copies[k].message = rows[order[k]].message
                                 /\ copies[k].attempts = rows[order[k]].attempts
  BY <1>3, <1>6
<1> HIDE DEF copies, C
<1>10. /\ topic' \in Seq(TopicMessage) /\ Len(topic) \in Nat /\ Len(topic') = Len(topic) + Len(copies)
       /\ DOMAIN topic = 1..Len(topic) /\ DOMAIN topic' = 1..Len(topic) + Len(copies)
       /\ \A o \in 1..Len(topic) + Len(copies) :
            topic'[o] = IF o <= Len(topic) THEN topic[o] ELSE copies[o - Len(topic)]
  <2> DEFINE whole == topic \o copies
  <2>1. /\ whole \in Seq(TopicMessage) /\ Len(topic) \in Nat /\ Len(whole) = Len(topic) + Len(copies)
        /\ DOMAIN topic = 1..Len(topic) /\ DOMAIN whole = 1..Len(topic) + Len(copies)
        /\ \A o \in 1..Len(topic) + Len(copies) :
             whole[o] = IF o <= Len(topic) THEN topic[o] ELSE copies[o - Len(topic)]
    BY <1>7, ConcatHas
  <2>2. topic' = whole
    BY <1>7
  <2> HIDE DEF whole
  <2>3. QED
    BY <2>1, <2>2
<1>11. \A o \in DOMAIN topic' :
         o \notin DOMAIN topic => /\ o > Len(topic) /\ o - Len(topic) \in 1..Len(copies)
                                  /\ topic'[o] = copies[o - Len(topic)]
  BY <1>8, <1>10
<1>12. \A r \in some : \E o \in DOMAIN topic' : o > Len(topic) /\ topic'[o].of = r
  <2> SUFFICES ASSUME NEW r \in some PROVE \E o \in DOMAIN topic' : o > Len(topic) /\ topic'[o].of = r
    OBVIOUS
  <2>1. PICK k \in 1..Len(copies) : order[k] = r
    BY <1>3, <1>8
  <2>2. Len(topic) + k \in DOMAIN topic' /\ Len(topic) + k > Len(topic)
        /\ topic'[Len(topic) + k] = copies[k]
    BY <1>8, <1>10
  <2>3. QED
    BY <1>9, <2>1, <2>2
<1>13. \A o \in DOMAIN topic : o \in DOMAIN topic' /\ topic'[o] = topic[o]
  BY <1>8, <1>10
<1>14. \A o \in DOMAIN topic' :
         o \notin DOMAIN topic => /\ topic'[o].of = order[o - Len(topic)]
                                  /\ topic'[o].message = rows[topic'[o].of].message
                                  /\ topic'[o].attempts = rows[topic'[o].of].attempts
  BY <1>9, <1>11
<1>15. \A o, p \in DOMAIN topic' :
         o \notin DOMAIN topic /\ p \notin DOMAIN topic /\ topic'[o].of = topic'[p].of => o = p
  <2> SUFFICES ASSUME NEW o \in DOMAIN topic', NEW p \in DOMAIN topic',
                      o \notin DOMAIN topic, p \notin DOMAIN topic, topic'[o].of = topic'[p].of
               PROVE  o = p
    OBVIOUS
  <2>1. o - Len(topic) \in DOMAIN order /\ p - Len(topic) \in DOMAIN order
    BY <1>3, <1>8, <1>11
  <2>2. o - Len(topic) = p - Len(topic)
    BY <1>3, <1>14, <2>1
  <2>3. QED
    BY <1>10, <2>2
<1>16. Len(topic) <= Len(topic')
  BY <1>8, <1>10
<1>17. \A o \in DOMAIN topic' :
         o \notin DOMAIN topic => o > Len(topic) /\ topic'[o].of \in some
  BY <1>3, <1>4, <1>8, <1>11, <1>14
<1>18. QED
  BY <1>10, <1>12, <1>13, <1>14, <1>15, <1>16, <1>17

(* What copies of waiting rows leave as it was.                             *)
LEMMA CopiesKeep ==
  ASSUME DlqConstants, LetterInv, UNCHANGED <<handled, rows, stored>>,
         NEW some, some \subseteq Waiting(rows), \A r \in some : ~Spent(r),
         \E copies \in Copies(some) : topic' = topic \o copies
  PROVE  /\ topic' \in Seq(TopicMessage) /\ handled' \in 0..Len(topic')
         /\ (\A o \in DOMAIN topic : CopyInv(o))'
         /\ (\A r \in DOMAIN rows : RowInv(r))'
         /\ RowsDiffer' /\ ChainDoesNotBranch'
         /\ \A r : Passed(r) => Passed(r)'
         /\ \A r \in some : Passed(r)'
<1>0. TypeOK
  BY DEF LetterInv
<1>1. /\ topic' \in Seq(TopicMessage) /\ Len(topic) <= Len(topic')
      /\ \A o \in DOMAIN topic : o \in DOMAIN topic' /\ topic'[o] = topic[o]
      /\ \A o \in DOMAIN topic' :
           o \notin DOMAIN topic => /\ o > Len(topic) /\ topic'[o].of \in some
                                    /\ topic'[o].message = rows[topic'[o].of].message
                                    /\ topic'[o].attempts = rows[topic'[o].of].attempts
      /\ \A r \in some : \E o \in DOMAIN topic' : o > Len(topic) /\ topic'[o].of = r
  BY TopicGrows
<1>2. Len(topic') \in Nat
  BY <1>1
<1>3. handled' \in 0..Len(topic')
  BY <1>0, <1>1, <1>2, TopicTyped
<1>4. (\A o \in DOMAIN topic : CopyInv(o))'
  <2> SUFFICES ASSUME NEW o \in DOMAIN topic' PROVE CopyInv(o)'
    OBVIOUS
  <2>1. CASE o \in DOMAIN topic
    <3>1. CopyInv(o)
      BY <2>1 DEF LetterInv
    <3>2. QED
      BY <1>1, <2>1, <3>1 DEF CopyInv
  <2>2. CASE o \notin DOMAIN topic
    <3>1. topic'[o].of \in Waiting(rows) /\ ~Spent(topic'[o].of)
      BY <1>1, <2>2
    <3>2. topic'[o].of \in DOMAIN rows /\ topic'[o].of # 0
      BY <1>0, <3>1, RowsTyped DEF Waiting
    <3>3. rows[topic'[o].of].attempts < FinalAttempts
      BY <1>0, <3>1, <3>2, RowsTyped DEF Spent, DlqConstants
    <3>4. QED
      BY <1>1, <2>2, <3>2, <3>3 DEF CopyInv
  <2>3. QED
    BY <2>1, <2>2
<1>5. (\A r \in DOMAIN rows : RowInv(r))'
  BY <1>1 DEF LetterInv, RowInv
<1>6. RowsDiffer' /\ ChainDoesNotBranch'
  BY DEF LetterInv, RowsDiffer, ChainDoesNotBranch
<1>7. \A r : Passed(r) => Passed(r)'
  BY <1>1 DEF Passed
<1>8. \A r \in some : Passed(r)'
  <2> SUFFICES ASSUME NEW r \in some PROVE Passed(r)'
    OBVIOUS
  <2>1. PICK o \in DOMAIN topic' : o > Len(topic) /\ topic'[o].of = r
    BY <1>1
  <2>2. o > handled
    BY <1>0, <1>1, <2>1, TopicTyped
  <2>3. QED
    BY <2>1, <2>2 DEF Passed
<1>9. QED
  BY <1>1, <1>3, <1>4, <1>5, <1>6, <1>7, <1>8

(* A row among the copies has been sent once more, any other row not.       *)
LEMMA CopiesCount ==
  ASSUME DlqConstants, LetterInv, UNCHANGED rows,
         NEW some, some \subseteq Waiting(rows), \A r \in some : ~Spent(r),
         \E copies \in Copies(some) : topic' = topic \o copies
  PROVE  \A r \in DOMAIN rows :
           Cardinality(Sent(r))' = Cardinality(Sent(r)) + IF r \in some THEN 1 ELSE 0
<1> SUFFICES ASSUME NEW r \in DOMAIN rows
             PROVE  Cardinality(Sent(r))' = Cardinality(Sent(r)) + IF r \in some THEN 1 ELSE 0
  OBVIOUS
<1>0. TypeOK
  BY DEF LetterInv
<1>1. IsFiniteSet(Sent(r)) /\ Cardinality(Sent(r)) \in Nat
  BY <1>0, SentIsFinite
<1>2. /\ \A o \in DOMAIN topic : o \in DOMAIN topic' /\ topic'[o] = topic[o]
      /\ \A o \in DOMAIN topic' : o \notin DOMAIN topic => o > Len(topic) /\ topic'[o].of \in some
      /\ \A q \in some : \E o \in DOMAIN topic' : o > Len(topic) /\ topic'[o].of = q
      /\ \A o, p \in DOMAIN topic' :
           o \notin DOMAIN topic /\ p \notin DOMAIN topic /\ topic'[o].of = topic'[p].of => o = p
  BY TopicGrows
<1>3. CASE r \in some
  <2>1. PICK o \in DOMAIN topic' : o > Len(topic) /\ topic'[o].of = r
    BY <1>2, <1>3
  <2>2. o \notin DOMAIN topic
    BY <1>0, <2>1, TopicTyped
  <2>3. Sent(r)' = Sent(r) \cup {o} /\ o \notin Sent(r)
    BY <1>2, <2>1, <2>2 DEF Sent
  <2>4. Cardinality(Sent(r) \cup {o}) = Cardinality(Sent(r)) + 1
    BY <1>1, <2>3, FS_AddElement
  <2>5. QED
    BY <1>3, <2>3, <2>4
<1>4. CASE r \notin some
  <2>1. Sent(r)' = Sent(r)
    BY <1>2, <1>4 DEF Sent
  <2>2. QED
    BY <1>1, <1>4, <2>1
<1>5. QED
  BY <1>3, <1>4

LEMMA SendStep ==
  ASSUME DlqConstants, NEW i \in Instances PROVE LetterInv /\ Send(i) => LetterInv'
<1> SUFFICES ASSUME LetterInv, Send(i) PROVE LetterInv'
  OBVIOUS
<1> DEFINE due == tx[i].due
<1>0. /\ tx[i].at = "sending" /\ Open(i) /\ tx' = [tx EXCEPT ![i].at = "marking"]
      /\ UNCHANGED <<handled, rows, stored, requests, recovered, faults>>
      /\ \E copies \in Copies(due) : topic' = topic \o copies
  BY DEF Send, Open
<1>1. due \subseteq Waiting(rows) /\ \A r \in due : ~Spent(r)
  BY <1>0, TxTyped DEF LetterInv, LockInv, OwnLocks
<1>2. /\ topic' \in Seq(TopicMessage) /\ handled' \in 0..Len(topic')
      /\ (\A o \in DOMAIN topic : CopyInv(o))'
      /\ (\A r \in DOMAIN rows : RowInv(r))'
      /\ RowsDiffer' /\ ChainDoesNotBranch'
      /\ \A r : Passed(r) => Passed(r)'
      /\ \A r \in due : Passed(r)'
  BY <1>0, <1>1, CopiesKeep
<1>3. \A r \in DOMAIN rows : Cardinality(Sent(r))' = Cardinality(Sent(r)) + IF r \in due THEN 1 ELSE 0
  BY <1>0, <1>1, CopiesCount
<1>4. /\ tx' \in [Instances -> Tx] /\ tx'[i].at = "marking" /\ tx'[i].due = due
      /\ tx'[i].spent = tx[i].spent /\ tx'[i].request = tx[i].request
      /\ \A j \in Instances : j # i => tx'[j] = tx[j]
  <2>1. tx \in [Instances -> Tx] /\ tx[i] \in Tx
    BY RequestsTyped, TxTyped
  <2>2. [tx[i] EXCEPT !.at = "marking"] \in Tx
    BY <2>1 DEF Tx, Turns
  <2>3. tx'[i] = [tx[i] EXCEPT !.at = "marking"]
    BY <1>0, <2>1
  <2>4. QED
    BY <1>0, <2>1, <2>2, <2>3 DEF Tx
<1>5. \A j \in Instances : (Open(j)' <=> Open(j)) /\ Held(j)' = Held(j) /\ tx'[j].request = tx[j].request
                           /\ tx'[j].due = tx[j].due /\ tx'[j].spent = tx[j].spent
                           /\ (tx'[j].at = "failing" => tx[j].at = "failing")
  BY <1>0, <1>4 DEF Open, Held
<1>6. LockInv'
  BY <1>0, <1>5 DEF LetterInv, LockInv, OwnLocks, Apart, Waiting, Spent
<1>7. PassedInv'
  BY <1>0, <1>2, <1>4 DEF LetterInv, PassedInv
<1>8. (\A r \in DOMAIN rows : SentInv(r))'
  <2> SUFFICES ASSUME NEW r \in DOMAIN rows PROVE SentInv(r)'
    BY <1>0
  <2>1. SentInv(r) /\ faults \in Nat /\ Cardinality(Sent(r)) \in Nat
    BY FaultCounts, SentIsFinite DEF LetterInv
  <2>2. (r \in Waiting(rows))' <=> r \in Waiting(rows)
    BY <1>0 DEF Waiting
  <2>3. CASE r \in due
    <3>1. ~BeingMarked(r)
      <4> SUFFICES ASSUME NEW j \in Instances, tx[j].at = "marking", r \in tx[j].due PROVE FALSE
        BY DEF BeingMarked
      <4>1. j # i /\ Open(j)
        BY <1>0 DEF Open
      <4>2. Held(i) \cap Held(j) = {}
        BY <1>0, <4>1 DEF LetterInv, LockInv, Apart
      <4>3. QED
        BY <2>3, <4>2 DEF Held
    <3>2. Cardinality(Sent(r)) <= faults
      BY <1>1, <2>1, <2>3, <3>1 DEF SentInv
    <3>3. BeingMarked(r)'
      BY <1>4, <2>3 DEF BeingMarked
    <3>4. Cardinality(Sent(r))' = Cardinality(Sent(r)) + 1
      BY <1>3, <2>3
    <3>5. QED
      BY <1>0, <2>1, <3>2, <3>3, <3>4 DEF SentInv
  <2>4. CASE r \notin due
    <3>1. BeingMarked(r)' <=> BeingMarked(r)
      BY <1>0, <1>4, <2>4 DEF BeingMarked
    <3>2. Cardinality(Sent(r))' = Cardinality(Sent(r))
      BY <1>3, <2>1, <2>4
    <3>3. QED
      BY <1>0, <2>1, <2>2, <3>1, <3>2 DEF SentInv
  <2>5. QED
    BY <2>3, <2>4
<1>9. TypeOK'
  <2>1. \A j \in Instances : /\ tx'[j].at \in Turns /\ tx'[j].request \in Requests \cup {0}
                             /\ tx'[j].due \cup tx'[j].spent \subseteq DOMAIN rows
    BY <1>4, <1>5, TxTyped DEF Tx, Waiting
  <2>2. QED
    BY <1>0, <1>2, <2>1 DEF LetterInv, TypeOK, Turns
<1>10. QED
  BY <1>2, <1>4, <1>6, <1>7, <1>8, <1>9 DEF LetterInv

(* Copies have gone out and the transaction has not come through.           *)
LEMMA SendFailsStep ==
  ASSUME DlqConstants, NEW i \in Instances PROVE LetterInv /\ SendFails(i) => LetterInv'
<1> SUFFICES ASSUME LetterInv, SendFails(i) PROVE LetterInv'
  OBVIOUS
<1> DEFINE t == [at |-> "failing", request |-> tx[i].request, due |-> {}, spent |-> {}]
<1>0. /\ tx[i].at = "sending" /\ Open(i) /\ tx' = [tx EXCEPT ![i] = t]
      /\ UNCHANGED <<handled, rows, stored, requests, recovered>>
      /\ \E some \in SUBSET tx[i].due : \E copies \in Copies(some) : topic' = topic \o copies
  BY DEF SendFails, Open, FailsAfter
<1> PICK some \in SUBSET tx[i].due : \E copies \in Copies(some) : topic' = topic \o copies
  BY <1>0
<1>1. some \subseteq Waiting(rows) /\ \A r \in some : ~Spent(r)
  BY <1>0, TxTyped DEF LetterInv, LockInv, OwnLocks
<1>2. /\ topic' \in Seq(TopicMessage) /\ handled' \in 0..Len(topic')
      /\ (\A o \in DOMAIN topic : CopyInv(o))'
      /\ (\A r \in DOMAIN rows : RowInv(r))'
      /\ RowsDiffer' /\ ChainDoesNotBranch'
      /\ \A r : Passed(r) => Passed(r)'
  BY <1>0, <1>1, CopiesKeep
<1>3. \A r \in DOMAIN rows : Cardinality(Sent(r))' = Cardinality(Sent(r)) + IF r \in some THEN 1 ELSE 0
  BY <1>0, <1>1, CopiesCount
<1>4. t \in Tx /\ t.at = "failing" /\ t.due = {} /\ t.spent = {} /\ t.request \in Requests
  BY <1>0, FailTx
<1> HIDE DEF t
<1>5. LockInv' /\ tx' \in [Instances -> Tx]
  <2>1. \A j \in Instances : Held(j) \subseteq Waiting(rows)'
    BY <1>0 DEF LetterInv, LockInv, OwnLocks, Waiting
  <2>2. QED
    BY <1>0, <1>4, <2>1, LocksLetGo
<1>6. tx'[i] = t /\ \A j \in Instances : j # i => tx'[j] = tx[j]
  BY <1>0, RequestsTyped
<1>7. PassedInv'
  BY <1>0, <1>2, <1>4, <1>6 DEF LetterInv, PassedInv
<1>8. faults' = faults + 1 /\ faults' \in 0..MaxFaults /\ faults' \in Nat /\ faults \in Nat
  BY FaultCounts DEF SendFails
<1>9. (\A r \in DOMAIN rows : SentInv(r))'
  <2> SUFFICES ASSUME NEW r \in DOMAIN rows PROVE SentInv(r)'
    BY <1>0
  <2>1. SentInv(r) /\ Cardinality(Sent(r)) \in Nat
    BY SentIsFinite DEF LetterInv
  <2>2. (r \in Waiting(rows))' <=> r \in Waiting(rows)
    BY <1>0 DEF Waiting
  <2>3. \A j \in Instances : tx[j].at = "marking" => tx'[j] = tx[j]
    BY <1>0, <1>6
  <2>4. BeingMarked(r) => BeingMarked(r)'
    BY <2>3 DEF BeingMarked
  <2>5. r \in some => ~BeingMarked(r)
    <3> SUFFICES ASSUME r \in some, NEW j \in Instances, tx[j].at = "marking", r \in tx[j].due PROVE FALSE
      BY DEF BeingMarked
    <3>1. j # i /\ Open(j)
      BY <1>0 DEF Open
    <3>2. Held(i) \cap Held(j) = {}
      BY <1>0, <3>1 DEF LetterInv, LockInv, Apart
    <3>3. QED
      BY <3>2 DEF Held
  <2>6. Cardinality(Sent(r))' = Cardinality(Sent(r)) + IF r \in some THEN 1 ELSE 0
    BY <1>3
  <2>7. QED
    BY <1>1, <1>8, <2>1, <2>2, <2>4, <2>5, <2>6 DEF SentInv
<1>10. TypeOK'
  <2>1. \A j \in Instances : /\ tx'[j].at \in Turns /\ tx'[j].request \in Requests \cup {0}
                             /\ tx'[j].due \cup tx'[j].spent \subseteq DOMAIN rows
    BY <1>4, <1>6, TxTyped DEF Tx, Waiting
  <2>2. QED
    BY <1>0, <1>2, <1>8, <2>1 DEF LetterInv, TypeOK, Turns
<1>11. QED
  BY <1>2, <1>5, <1>7, <1>9, <1>10 DEF LetterInv

-------------------------------------------------------------------------------
(* What COMMIT makes of the table: the rows sent are resolved, those with   *)
(* no attempt left are refused, and nothing else changes.                  *)
LEMMA CommittedTable ==
  ASSUME LetterInv, NEW i \in Instances, Open(i), Committed(i)
  PROVE  /\ rows' \in Seq(TableRow) /\ DOMAIN rows' = DOMAIN rows
         /\ \A r \in DOMAIN rows :
              /\ rows'[r].offset = rows[r].offset /\ rows'[r].message = rows[r].message
              /\ rows'[r].of = rows[r].of /\ rows'[r].attempts = rows[r].attempts
              /\ r \in tx[i].due => rows'[r].state = "resolved"
              /\ r \in tx[i].spent => rows'[r].state = "rejected"
              /\ r \notin Held(i) => rows'[r] = rows[r]
<1>0. TypeOK
  BY DEF LetterInv
<1>1. tx[i].due \subseteq Waiting(rows) /\ tx[i].spent \subseteq Waiting(rows) /\ tx[i].due \cap tx[i].spent = {}
  BY TxTyped DEF LetterInv, LockInv, OwnLocks
<1> DEFINE middle == Resolved(rows, tx[i].due)
<1>2. DOMAIN middle = DOMAIN rows
      /\ \A r \in DOMAIN rows : middle[r] = IF r \in tx[i].due THEN [rows[r] EXCEPT !.state = "resolved"]
                                            ELSE rows[r]
  BY <1>1 DEF Resolved
<1>3. rows' = Rejected(middle, tx[i].spent)
  BY DEF Committed
<1> HIDE DEF middle
<1>4. rows' = [r \in DOMAIN rows |-> IF r \in tx[i].spent THEN [middle[r] EXCEPT !.state = "rejected"]
                                     ELSE middle[r]]
  BY <1>2, <1>3 DEF Rejected
<1>5. \A r \in DOMAIN rows : /\ rows'[r] \in TableRow
                             /\ rows'[r].offset = rows[r].offset /\ rows'[r].message = rows[r].message
                             /\ rows'[r].of = rows[r].of /\ rows'[r].attempts = rows[r].attempts
                             /\ r \in tx[i].due => rows'[r].state = "resolved"
                             /\ r \in tx[i].spent => rows'[r].state = "rejected"
                             /\ r \notin Held(i) => rows'[r] = rows[r]
  <2> SUFFICES ASSUME NEW r \in DOMAIN rows
               PROVE  /\ rows'[r] \in TableRow
                      /\ rows'[r].offset = rows[r].offset /\ rows'[r].message = rows[r].message
                      /\ rows'[r].of = rows[r].of /\ rows'[r].attempts = rows[r].attempts
                      /\ r \in tx[i].due => rows'[r].state = "resolved"
                      /\ r \in tx[i].spent => rows'[r].state = "rejected"
                      /\ r \notin Held(i) => rows'[r] = rows[r]
    OBVIOUS
  <2>1. rows[r] \in TableRow
    BY <1>0, RowsTyped
  <2>2. CASE r \in tx[i].due
    <3>1. rows'[r] = [rows[r] EXCEPT !.state = "resolved"]
      BY <1>1, <1>2, <1>4, <2>2
    <3>2. QED
      BY <1>1, <2>1, <2>2, <3>1 DEF TableRow, Held
  <2>3. CASE r \in tx[i].spent
    <3>1. rows'[r] = [rows[r] EXCEPT !.state = "rejected"]
      BY <1>1, <1>2, <1>4, <2>3
    <3>2. QED
      BY <1>1, <2>1, <2>3, <3>1 DEF TableRow, Held
  <2>4. CASE r \notin Held(i)
    <3>1. rows'[r] = rows[r]
      BY <1>2, <1>4, <2>4 DEF Held
    <3>2. QED
      BY <2>1, <2>4, <3>1 DEF Held
  <2>5. QED
    BY <2>2, <2>3, <2>4 DEF Held
<1>6. rows' \in Seq(TableRow) /\ DOMAIN rows' = DOMAIN rows
  <2>1. DOMAIN rows = 1..Len(rows) /\ Len(rows) \in Nat
    BY <1>0, RowsTyped
  <2>2. rows' \in [1..Len(rows) -> TableRow]
    BY <1>4, <1>5, <2>1
  <2>3. QED
    BY <2>1, <2>2
<1>7. QED
  BY <1>5, <1>6

(* Where only states of rows change, the chain of rows is as it was.        *)
LEMMA StatesOnly ==
  ASSUME LetterInv, UNCHANGED topic, DOMAIN rows' = DOMAIN rows,
         \A r \in DOMAIN rows :
           /\ rows'[r].offset = rows[r].offset /\ rows'[r].message = rows[r].message
           /\ rows'[r].of = rows[r].of /\ rows'[r].attempts = rows[r].attempts
  PROVE  /\ (\A o \in DOMAIN topic : CopyInv(o))'
         /\ (\A r \in DOMAIN rows : RowInv(r))'
         /\ RowsDiffer' /\ ChainDoesNotBranch'
<1>1. (\A o \in DOMAIN topic : CopyInv(o))'
  BY DEF LetterInv, CopyInv
<1>2. (\A r \in DOMAIN rows : RowInv(r))'
  BY DEF LetterInv, RowInv
<1>3. RowsDiffer' /\ ChainDoesNotBranch'
  BY DEF LetterInv, RowsDiffer, ChainDoesNotBranch
<1>4. QED
  BY <1>1, <1>2, <1>3

(* COMMIT, whether its answer arrives or not.                               *)
LEMMA CommittedStep ==
  ASSUME DlqConstants, LetterInv, UNCHANGED <<topic, handled, stored, recovered>>,
         NEW i \in Instances, tx[i].at = "marking", Committed(i), NEW t \in Tx,
         t.at \in {"idle", "failing"}, t.due = {}, t.spent = {},
         t.at = "failing" => t.request \in Requests,
         tx' = [tx EXCEPT ![i] = t],
         faults' \in 0..MaxFaults, faults' \in {faults, faults + 1}
  PROVE  LetterInv'
<1>0. TypeOK /\ Open(i)
  BY DEF LetterInv, Open
<1>1. /\ rows' \in Seq(TableRow) /\ DOMAIN rows' = DOMAIN rows
      /\ \A r \in DOMAIN rows :
           /\ rows'[r].offset = rows[r].offset /\ rows'[r].message = rows[r].message
           /\ rows'[r].of = rows[r].of /\ rows'[r].attempts = rows[r].attempts
           /\ r \in tx[i].due => rows'[r].state = "resolved"
           /\ r \in tx[i].spent => rows'[r].state = "rejected"
           /\ r \notin Held(i) => rows'[r] = rows[r]
  BY <1>0, CommittedTable
<1>2. /\ (\A o \in DOMAIN topic : CopyInv(o))'
      /\ (\A r \in DOMAIN rows : RowInv(r))'
      /\ RowsDiffer' /\ ChainDoesNotBranch'
  BY <1>1, StatesOnly
<1>3. \A j \in Instances : j # i => Held(j) \cap Held(i) = {}
  BY <1>0 DEF LetterInv, LockInv, OwnLocks, Apart
<1>4. \A j \in Instances : j # i => Held(j) \subseteq Waiting(rows)'
  BY <1>1, <1>3 DEF LetterInv, LockInv, OwnLocks, Waiting
<1>5. /\ requests' = [requests EXCEPT ![tx[i].request] = "done"]
      /\ requests' \in [Requests -> {"none", "queued", "running", "done", "failed"}]
  BY <1>0, RequestsTyped DEF Committed, LetterInv, LockInv, OwnLocks
<1>6. \A j \in Instances : j # i /\ Open(j) => requests'[tx[j].request] = requests[tx[j].request]
  BY <1>0, <1>5, RequestsTyped DEF LetterInv, LockInv, OwnLocks, Apart
<1>7. LockInv' /\ tx' \in [Instances -> Tx]
  BY <1>1, <1>4, <1>6, LocksLetGo
<1>8. tx'[i] = t /\ \A j \in Instances : j # i => tx'[j] = tx[j]
  BY RequestsTyped
<1>9. \A r \in DOMAIN rows : Passed(r) => Passed(r)'
  <2> SUFFICES ASSUME NEW r \in DOMAIN rows, Passed(r) PROVE Passed(r)'
    OBVIOUS
  <2>1. CASE rows[r].message \in stored
    BY <1>1, <2>1 DEF Passed
  <2>2. CASE \E s \in DOMAIN rows : rows[s].of = r
    BY <1>1, <2>2 DEF Passed
  <2>3. CASE \E o \in DOMAIN topic : o > handled /\ topic[o].of = r
    BY <2>3 DEF Passed
  <2>4. QED
    BY <2>1, <2>2, <2>3 DEF Passed
<1>10. PassedInv'
  <2>1. \A r \in DOMAIN rows : rows'[r].state = "resolved" => Passed(r)
    <3> SUFFICES ASSUME NEW r \in DOMAIN rows, rows'[r].state = "resolved" PROVE Passed(r)
      OBVIOUS
    <3>1. CASE r \in tx[i].due
      BY <3>1 DEF LetterInv, PassedInv
    <3>2. CASE r \notin tx[i].due
      BY <1>1, <3>2 DEF LetterInv, PassedInv, Held
    <3>3. QED
      BY <3>1, <3>2
  <2>2. \A j \in Instances : tx'[j].at = "marking" => \A r \in tx'[j].due : r \in DOMAIN rows /\ Passed(r)
    BY <1>8, TxTyped DEF LetterInv, PassedInv, Waiting
  <2>3. QED
    BY <1>1, <1>9, <2>1, <2>2 DEF PassedInv
<1>11. (\A r \in DOMAIN rows : SentInv(r))'
  <2> SUFFICES ASSUME NEW r \in DOMAIN rows PROVE SentInv(r)'
    BY <1>1
  <2>1. SentInv(r) /\ Cardinality(Sent(r)) \in Nat /\ faults \in Nat /\ faults' \in Nat
    BY <1>0, FaultCounts, SentIsFinite DEF LetterInv
  <2>2. Sent(r)' = Sent(r)
    BY DEF Sent
  <2>3. r \in Waiting(rows)' => r \in Waiting(rows) /\ r \notin tx[i].due
    BY <1>1 DEF Waiting, Held
  <2>4. r \notin tx[i].due /\ BeingMarked(r) => BeingMarked(r)'
    BY <1>8 DEF BeingMarked
  <2>5. QED
    BY <2>1, <2>2, <2>3, <2>4 DEF SentInv
<1>12. TypeOK'
  <2>1. \A j \in Instances : /\ tx'[j].at \in Turns /\ tx'[j].request \in Requests \cup {0}
                             /\ tx'[j].due \cup tx'[j].spent \subseteq DOMAIN rows'
    BY <1>1, <1>8, TxTyped DEF Tx, Waiting
  <2>2. QED
    BY <1>0, <1>1, <1>5, <2>1 DEF TypeOK, Turns
<1>13. QED
  BY <1>2, <1>7, <1>10, <1>11, <1>12 DEF LetterInv

LEMMA CommitStep ==
  ASSUME DlqConstants, NEW i \in Instances PROVE LetterInv /\ Commit(i) => LetterInv'
<1> SUFFICES ASSUME LetterInv, Commit(i) PROVE LetterInv'
  OBVIOUS
<1>1. NoTx \in Tx /\ NoTx.at = "idle" /\ NoTx.due = {} /\ NoTx.spent = {}
  BY FailTx DEF NoTx
<1>2. faults' \in 0..MaxFaults /\ faults' \in {faults, faults + 1}
  BY FaultCounts DEF Commit
<1>3. QED
  BY <1>1, <1>2, CommittedStep DEF Commit

LEMMA CommitUnknownStep ==
  ASSUME DlqConstants, NEW i \in Instances PROVE LetterInv /\ CommitUnknown(i) => LetterInv'
<1> SUFFICES ASSUME LetterInv, CommitUnknown(i) PROVE LetterInv'
  OBVIOUS
<1> DEFINE t == [at |-> "failing", request |-> tx[i].request, due |-> {}, spent |-> {}]
<1>1. tx' = [tx EXCEPT ![i] = t] /\ t \in Tx /\ t.request \in Requests
  BY FailTx DEF CommitUnknown, FailsAfter
<1>2. faults' \in 0..MaxFaults /\ faults' \in {faults, faults + 1}
  BY FaultCounts DEF CommitUnknown
<1>3. t.at = "failing" /\ t.due = {} /\ t.spent = {}
  OBVIOUS
<1> HIDE DEF t
<1>4. QED
  BY <1>1, <1>2, <1>3, CommittedStep DEF CommitUnknown

-------------------------------------------------------------------------------
(* What the next message of the topic makes of the table: at most one row   *)
(* is new, at most the row it is a copy of is resolved, and after a failed *)
(* copy that row has a successor.                                          *)
NewRow(n) ==
  LET m == topic[handled + 1]
  IN /\ n = Len(rows) + 1
     /\ rows'[n] \in TableRow
     /\ rows'[n].offset = handled + 1 /\ rows'[n].message = m.message /\ rows'[n].of = m.of
     /\ rows'[n].attempts = m.attempts + 1 /\ rows'[n].state = "waiting"
     /\ \A r \in DOMAIN rows : /\ rows[r].offset # handled + 1
                               /\ m.of = 0 \/ rows[r].of # m.of

OldRow(r) ==
  /\ rows'[r] \in TableRow
  /\ rows'[r].offset = rows[r].offset /\ rows'[r].message = rows[r].message
  /\ rows'[r].of = rows[r].of /\ rows'[r].attempts = rows[r].attempts
  /\ \/ rows'[r].state = rows[r].state
     \/ /\ rows'[r].state = "resolved" /\ rows[r].state = "waiting"
        /\ r = topic[handled + 1].of /\ r \notin HeldRows

LEMMA NextMessage ==
  ASSUME DlqConstants, LetterInv, handled < Len(topic)
  PROVE  /\ handled + 1 \in DOMAIN topic
         /\ topic[handled + 1] \in TopicMessage
         /\ topic[handled + 1].message \in 1..Messages
         /\ topic[handled + 1].of \in DOMAIN rows \cup {0}
         /\ topic[handled + 1].attempts \in 0..FinalAttempts - 1
<1>1. TypeOK
  BY DEF LetterInv
<1>2. handled + 1 \in DOMAIN topic
  BY <1>1, TopicTyped
<1>3. CopyInv(handled + 1)
  BY <1>2 DEF LetterInv
<1>4. topic[handled + 1].of \in DOMAIN rows \cup {0}
  BY <1>3 DEF CopyInv
<1>5. topic[handled + 1].attempts \in 0..FinalAttempts - 1
  <2>1. CASE topic[handled + 1].of = 0
    BY <1>3, <2>1 DEF CopyInv, DlqConstants
  <2>2. CASE topic[handled + 1].of # 0
    BY <1>1, <1>3, <2>2, RowsTyped DEF CopyInv, DlqConstants
  <2>3. QED
    BY <2>1, <2>2
<1>6. QED
  BY <1>1, <1>2, <1>4, <1>5, TopicTyped

(* The table with the row of a failure, if it is one.                       *)
LEMMA RecordedTable ==
  ASSUME DlqConstants, LetterInv, handled < Len(topic), NEW ok \in BOOLEAN, NEW table,
         table = IF ok THEN rows ELSE RecordedFailure(rows, handled + 1, topic[handled + 1])
  PROVE  /\ table \in Seq(TableRow)
         /\ \/ /\ table = rows
               /\ ~ok => \E r \in DOMAIN rows :
                           \/ rows[r].offset = handled + 1
                           \/ topic[handled + 1].of # 0 /\ rows[r].of = topic[handled + 1].of
            \/ /\ ~ok /\ Len(table) = Len(rows) + 1 /\ DOMAIN table = 1..Len(rows) + 1
               /\ \A r \in DOMAIN rows : /\ table[r] = rows[r] /\ rows[r].offset # handled + 1
                                         /\ topic[handled + 1].of = 0 \/ rows[r].of # topic[handled + 1].of
               /\ table[Len(rows) + 1] = [offset |-> handled + 1, message |-> topic[handled + 1].message,
                                          of |-> topic[handled + 1].of,
                                          attempts |-> topic[handled + 1].attempts + 1,
                                          state |-> "waiting"]
               /\ table[Len(rows) + 1] \in TableRow
<1> DEFINE m == topic[handled + 1]
           new == [offset |-> handled + 1, message |-> m.message, of |-> m.of,
                   attempts |-> m.attempts + 1, state |-> "waiting"]
           known == \E r \in DOMAIN rows :
                      rows[r].offset = handled + 1 \/ (m.of # 0 /\ rows[r].of = m.of)
<1>1. rows \in Seq(TableRow) /\ Len(rows) \in Nat /\ DOMAIN rows = 1..Len(rows) /\ handled \in Nat
  BY RowsTyped, TopicTyped DEF LetterInv, TypeOK
<1>2. new \in TableRow
  <2>1. m.message \in 1..Messages /\ m.of \in Nat /\ m.attempts + 1 \in 1..FinalAttempts
    BY <1>1, NextMessage DEF DlqConstants
  <2>2. QED
    BY <1>1, <2>1 DEF TableRow
<1>3. CASE ok
  BY <1>1, <1>3
<1>4. CASE ~ok /\ known
  BY <1>1, <1>4 DEF RecordedFailure
<1>5. CASE ~ok /\ ~known
  <2>1. table = Append(rows, new)
    BY <1>5 DEF RecordedFailure
  <2> HIDE DEF new
  <2>2. /\ table \in Seq(TableRow) /\ Len(table) = Len(rows) + 1 /\ DOMAIN table = 1..Len(rows) + 1
        /\ table[Len(rows) + 1] = new
        /\ \A r \in 1..Len(rows) : table[r] = rows[r]
    BY <1>1, <1>2, <2>1
  <2>3. QED
    BY <1>1, <1>2, <1>5, <2>2 DEF new
<1>6. QED
  BY <1>3, <1>4, <1>5

LEMMA HandledTable ==
  ASSUME DlqConstants, LetterInv, NEW ok \in BOOLEAN, HandleNext(ok)
  PROVE  /\ rows' \in Seq(TableRow) /\ DOMAIN rows \subseteq DOMAIN rows'
         /\ \A r \in DOMAIN rows : OldRow(r)
         /\ \A n \in DOMAIN rows' : n \notin DOMAIN rows => NewRow(n)
         /\ ~ok /\ topic[handled + 1].of # 0 =>
              \E s \in DOMAIN rows' : rows'[s].of = topic[handled + 1].of
<1> DEFINE m == topic[handled + 1]
           table == IF ok THEN rows ELSE RecordedFailure(rows, handled + 1, m)
<1>0. TypeOK /\ handled < Len(topic)
  BY DEF LetterInv, HandleNext
<1>1. rows' = ClosedByCopy(table, m)
  BY DEF HandleNext
<1>2. /\ rows \in Seq(TableRow) /\ Len(rows) \in Nat /\ DOMAIN rows = 1..Len(rows)
      /\ \A r \in DOMAIN rows : rows[r] \in TableRow
  BY <1>0, RowsTyped DEF TypeOK
<1>3. /\ table \in Seq(TableRow)
      /\ \/ /\ table = rows
            /\ ~ok => \E r \in DOMAIN rows :
                        \/ rows[r].offset = handled + 1
                        \/ m.of # 0 /\ rows[r].of = m.of
         \/ /\ ~ok /\ Len(table) = Len(rows) + 1 /\ DOMAIN table = 1..Len(rows) + 1
            /\ \A r \in DOMAIN rows : /\ table[r] = rows[r] /\ rows[r].offset # handled + 1
                                      /\ m.of = 0 \/ rows[r].of # m.of
            /\ table[Len(rows) + 1] = [offset |-> handled + 1, message |-> m.message, of |-> m.of,
                                       attempts |-> m.attempts + 1, state |-> "waiting"]
            /\ table[Len(rows) + 1] \in TableRow
  BY <1>0, RecordedTable
<1>4. m.of \in DOMAIN rows \cup {0}
  BY <1>0, NextMessage
<1> HIDE DEF table
<1>5. DOMAIN rows \subseteq DOMAIN table /\ \A r \in DOMAIN rows : table[r] = rows[r]
  BY <1>2, <1>3
<1>6. /\ rows' \in Seq(TableRow) /\ DOMAIN rows' = DOMAIN table
      /\ \A r \in DOMAIN table :
           \/ rows'[r] = table[r]
           \/ /\ r = m.of /\ r \in Waiting(table) /\ r \notin HeldRows
              /\ rows'[r] = [table[r] EXCEPT !.state = "resolved"]
  <2>1. CASE m.of \in Waiting(table) \ HeldRows
    <3>1. rows' = [table EXCEPT ![m.of].state = "resolved"] /\ m.of \in DOMAIN table
      BY <1>1, <2>1 DEF ClosedByCopy, Waiting
    <3>2. [table[m.of] EXCEPT !.state = "resolved"] \in TableRow
      <4>1. table[m.of] \in TableRow
        BY <1>3, <3>1, ItemsTyped
      <4>2. QED
        BY <4>1 DEF TableRow
    <3>3. rows' = [table EXCEPT ![m.of] = [table[m.of] EXCEPT !.state = "resolved"]]
      BY <3>1
    <3>4. rows' \in Seq(TableRow) /\ DOMAIN rows' = DOMAIN table
      BY <1>3, <3>1, <3>2, <3>3, ExceptSeq
    <3>5. QED
      BY <2>1, <3>1, <3>3, <3>4
  <2>2. CASE m.of \notin Waiting(table) \ HeldRows
    BY <1>1, <1>3, <2>2 DEF ClosedByCopy
  <2>3. QED
    BY <2>1, <2>2
<1>7. \A r \in DOMAIN rows : OldRow(r)
  <2> SUFFICES ASSUME NEW r \in DOMAIN rows PROVE OldRow(r)
    OBVIOUS
  <2>1. rows[r] \in TableRow /\ table[r] = rows[r] /\ r \in DOMAIN table
    BY <1>2, <1>5
  <2>2. CASE rows'[r] = table[r]
    BY <2>1, <2>2 DEF OldRow
  <2>3. CASE /\ r = m.of /\ r \in Waiting(table) /\ r \notin HeldRows
             /\ rows'[r] = [table[r] EXCEPT !.state = "resolved"]
    BY <2>1, <2>3 DEF OldRow, TableRow, Waiting
  <2>4. QED
    BY <1>6, <2>1, <2>2, <2>3
<1>8. \A n \in DOMAIN rows' : n \notin DOMAIN rows => NewRow(n)
  <2> SUFFICES ASSUME NEW n \in DOMAIN rows', n \notin DOMAIN rows PROVE NewRow(n)
    OBVIOUS
  <2>1. n = Len(rows) + 1 /\ n # m.of
    BY <1>2, <1>3, <1>4, <1>6
  <2>2. rows'[n] = table[n] /\ table # rows
    BY <1>6, <2>1
  <2>3. /\ table[n] = [offset |-> handled + 1, message |-> m.message, of |-> m.of,
                       attempts |-> m.attempts + 1, state |-> "waiting"]
        /\ table[n] \in TableRow
        /\ \A r \in DOMAIN rows : rows[r].offset # handled + 1 /\ (m.of = 0 \/ rows[r].of # m.of)
    BY <1>3, <2>1, <2>2
  <2>4. QED
    BY <2>1, <2>2, <2>3 DEF NewRow
<1>9. ~ok /\ m.of # 0 => \E s \in DOMAIN rows' : rows'[s].of = m.of
  <2> SUFFICES ASSUME ~ok, m.of # 0 PROVE \E s \in DOMAIN rows' : rows'[s].of = m.of
    OBVIOUS
  <2>1. CASE table = rows
    <3>1. PICK r \in DOMAIN rows : rows[r].offset = handled + 1 \/ rows[r].of = m.of
      <4>1. Len(rows) \in Nat
        BY <1>2
      <4>2. Len(rows) # Len(rows) + 1
        BY <4>1
      <4>3. Len(table) = Len(rows)
        BY <2>1
      <4>4. QED
        BY <1>3, <4>2, <4>3
    <3>2. rows[r].of = m.of
      BY <3>1 DEF LetterInv, RowInv
    <3>3. QED
      BY <1>5, <1>6, <1>7, <3>2 DEF OldRow
  <2>2. CASE table # rows
    <3>1. Len(rows) + 1 \in DOMAIN rows' /\ Len(rows) + 1 \notin DOMAIN rows
      BY <1>2, <1>3, <1>6, <2>2
    <3>2. QED
      BY <1>8, <3>1 DEF NewRow
  <2>3. QED
    BY <2>1, <2>2
<1>10. QED
  BY <1>5, <1>6, <1>7, <1>8, <1>9

(* A row just written is the only one of its message and attempt: an older  *)
(* one would be a successor of the same row, or the failure of the same    *)
(* offset.                                                                 *)
LEMMA NewRowIsAlone ==
  ASSUME DlqConstants, LetterInv, handled < Len(topic), NEW n, NewRow(n), NEW r \in DOMAIN rows,
         rows[r].message = rows'[n].message, rows[r].attempts = rows'[n].attempts
  PROVE  FALSE
<1> DEFINE m == topic[handled + 1]
           p == rows[r].of
<1>0. TypeOK
  BY DEF LetterInv
<1>1. CopyInv(handled + 1) /\ handled + 1 \in DOMAIN topic
  BY NextMessage DEF LetterInv
<1>2. /\ rows'[n].message = m.message /\ rows'[n].attempts = m.attempts + 1
      /\ rows[r].offset # handled + 1 /\ (m.of = 0 \/ p # m.of)
  BY DEF NewRow
<1>3. /\ rows[r].offset \in DOMAIN topic /\ rows[r].message = topic[rows[r].offset].message
      /\ p = topic[rows[r].offset].of /\ rows[r].attempts = topic[rows[r].offset].attempts + 1
      /\ CopyInv(rows[r].offset)
  BY DEF LetterInv, RowInv
<1>4. /\ m.attempts \in Nat /\ topic[rows[r].offset].attempts \in Nat
      /\ topic[rows[r].offset].attempts = m.attempts
  <2>1. m.attempts \in Nat /\ topic[rows[r].offset].attempts \in Nat
    BY <1>0, <1>1, <1>3, TopicTyped
  <2>2. QED
    BY <1>2, <1>3, <2>1
<1>5. \A q \in DOMAIN rows : rows[q].attempts \in Nat \ {0}
  BY <1>0, RowsTyped
<1>6. CASE m.of = 0
  <2>1. m.message = handled + 1 /\ m.attempts = 0
    BY <1>1, <1>6 DEF CopyInv
  <2>2. p = 0
    BY <1>3, <1>4, <1>5, <2>1 DEF CopyInv
  <2>3. rows[r].message = rows[r].offset
    BY <1>3, <2>2 DEF CopyInv
  <2>4. QED
    BY <1>2, <2>1, <2>3
<1>7. CASE m.of # 0
  <2>1. m.of \in DOMAIN rows /\ m.message = rows[m.of].message /\ m.attempts = rows[m.of].attempts
    BY <1>1, <1>7 DEF CopyInv
  <2>2. p # 0
    BY <1>3, <1>4, <1>5, <2>1 DEF CopyInv
  <2>3. p \in DOMAIN rows /\ rows[p].message = rows[r].message /\ rows[p].attempts = m.attempts
    BY <1>3, <1>4, <2>2 DEF CopyInv
  <2>4. p = m.of
    BY <1>2, <2>1, <2>3 DEF LetterInv, ChainDoesNotBranch
  <2>5. QED
    BY <1>2, <1>7, <2>4
<1>8. QED
  BY <1>6, <1>7

LEMMA HandledStep ==
  ASSUME DlqConstants, LetterInv, NEW ok \in BOOLEAN, HandleNext(ok),
         handled' \in {handled, handled + 1},
         faults' \in 0..MaxFaults, faults' \in {faults, faults + 1}
  PROVE  LetterInv'
<1> DEFINE m == topic[handled + 1]
<1>0. /\ TypeOK /\ handled < Len(topic)
      /\ UNCHANGED <<topic, requests, tx, recovered>>
      /\ stored' = IF ok THEN stored \cup {m.message} ELSE stored
  BY DEF LetterInv, HandleNext
<1>1. /\ rows' \in Seq(TableRow) /\ DOMAIN rows \subseteq DOMAIN rows'
      /\ \A r \in DOMAIN rows : OldRow(r)
      /\ \A n \in DOMAIN rows' : n \notin DOMAIN rows => NewRow(n)
      /\ ~ok /\ m.of # 0 => \E s \in DOMAIN rows' : rows'[s].of = m.of
  BY HandledTable
<1>2. /\ handled + 1 \in DOMAIN topic /\ m.message \in 1..Messages
      /\ m.of \in DOMAIN rows \cup {0} /\ CopyInv(handled + 1)
  BY <1>0, NextMessage DEF LetterInv
<1>3. DOMAIN rows = 1..Len(rows) /\ Len(rows) \in Nat
  BY <1>0, RowsTyped
<1>4. TypeOK'
  <2>1. handled' \in 0..Len(topic)
    BY <1>0, TopicTyped
  <2>2. stored' \subseteq 1..Messages
    BY <1>0, <1>2 DEF TypeOK
  <2>3. \A j \in Instances : tx[j].due \cup tx[j].spent \subseteq DOMAIN rows'
    BY <1>1, TxTyped DEF Waiting
  <2>4. QED
    BY <1>0, <1>1, <2>1, <2>2, <2>3 DEF TypeOK
<1>5. (\A o \in DOMAIN topic : CopyInv(o))'
  BY <1>0, <1>1 DEF LetterInv, CopyInv, OldRow
<1>6. (\A r \in DOMAIN rows : RowInv(r))'
  <2> SUFFICES ASSUME NEW r \in DOMAIN rows' PROVE RowInv(r)'
    OBVIOUS
  <2>1. CASE r \in DOMAIN rows
    <3>1. RowInv(r) /\ OldRow(r)
      BY <1>1, <2>1 DEF LetterInv
    <3>2. QED
      BY <1>0, <3>1 DEF RowInv, OldRow
  <2>2. CASE r \notin DOMAIN rows
    <3>1. NewRow(r)
      BY <1>1, <2>2
    <3>2. m.of < r
      BY <1>2, <1>3, <3>1 DEF NewRow
    <3>3. QED
      BY <1>0, <1>2, <3>1, <3>2 DEF RowInv, NewRow
  <2>3. QED
    BY <2>1, <2>2
<1>7. \A r, s \in DOMAIN rows' : r \notin DOMAIN rows /\ s \notin DOMAIN rows => r = s
  BY <1>1 DEF NewRow
<1>8. RowsDiffer'
  <2> SUFFICES ASSUME NEW r \in DOMAIN rows', NEW s \in DOMAIN rows', r # s
               PROVE  /\ rows'[r].offset # rows'[s].offset
                      /\ rows'[r].of = rows'[s].of => rows'[r].of = 0
    BY DEF RowsDiffer
  <2>1. CASE r \in DOMAIN rows /\ s \in DOMAIN rows
    BY <1>1, <2>1 DEF LetterInv, RowsDiffer, OldRow
  <2>2. CASE r \notin DOMAIN rows /\ s \in DOMAIN rows
    BY <1>1, <2>2 DEF OldRow, NewRow
  <2>3. CASE r \in DOMAIN rows /\ s \notin DOMAIN rows
    BY <1>1, <2>3 DEF OldRow, NewRow
  <2>4. QED
    BY <1>7, <2>1, <2>2, <2>3
<1>9. ChainDoesNotBranch'
  <2> SUFFICES ASSUME NEW r \in DOMAIN rows', NEW s \in DOMAIN rows',
                      rows'[r].message = rows'[s].message, rows'[r].attempts = rows'[s].attempts
               PROVE  r = s
    BY DEF ChainDoesNotBranch
  <2>1. CASE r \in DOMAIN rows /\ s \in DOMAIN rows
    BY <1>1, <2>1 DEF LetterInv, ChainDoesNotBranch, OldRow
  <2>2. CASE r \notin DOMAIN rows /\ s \in DOMAIN rows
    <3>1. NewRow(r) /\ rows[s].message = rows'[r].message /\ rows[s].attempts = rows'[r].attempts
      BY <1>1, <2>2 DEF OldRow
    <3>2. QED
      BY <1>0, <2>2, <3>1, NewRowIsAlone
  <2>3. CASE r \in DOMAIN rows /\ s \notin DOMAIN rows
    <3>1. NewRow(s) /\ rows[r].message = rows'[s].message /\ rows[r].attempts = rows'[s].attempts
      BY <1>1, <2>3 DEF OldRow
    <3>2. QED
      BY <1>0, <2>3, <3>1, NewRowIsAlone
  <2>4. QED
    BY <1>7, <2>1, <2>2, <2>3
<1>10. \A r \in DOMAIN rows : Passed(r) => Passed(r)'
  <2> SUFFICES ASSUME NEW r \in DOMAIN rows, Passed(r) PROVE Passed(r)'
    OBVIOUS
  <2>0. OldRow(r)
    BY <1>1
  <2>1. CASE rows[r].message \in stored
    BY <1>0, <2>0, <2>1 DEF Passed, OldRow
  <2>2. CASE \E s \in DOMAIN rows : rows[s].of = r
    BY <1>1, <2>2 DEF Passed, OldRow
  <2>3. CASE \E o \in DOMAIN topic : o > handled /\ topic[o].of = r
    <3>1. PICK o \in DOMAIN topic : o > handled /\ topic[o].of = r
      BY <2>3
    <3>2. CASE o > handled'
      BY <1>0, <3>1, <3>2 DEF Passed
    <3>3. CASE ~(o > handled')
      <4>1. o = handled + 1
        BY <1>0, <3>1, <3>3, TopicTyped
      <4>2. m.of = r /\ r # 0
        BY <1>3, <3>1, <4>1
      <4>3. CASE ok
        BY <1>0, <1>2, <2>0, <4>2, <4>3 DEF Passed, CopyInv, OldRow
      <4>4. CASE ~ok
        BY <1>1, <4>2, <4>4 DEF Passed
      <4>5. QED
        BY <4>3, <4>4
    <3>4. QED
      BY <3>2, <3>3
  <2>4. QED
    BY <2>1, <2>2, <2>3 DEF Passed
<1>11. PassedInv'
  <2>1. ASSUME NEW r \in DOMAIN rows', rows'[r].state = "resolved" PROVE Passed(r)'
    <3>1. r \in DOMAIN rows
      BY <1>1, <2>1 DEF NewRow
    <3>2. CASE rows[r].state = "resolved"
      BY <1>10, <3>1, <3>2 DEF LetterInv, PassedInv
    <3>3. CASE rows[r].state # "resolved"
      <4>1. m.of = r
        BY <1>1, <2>1, <3>1, <3>3 DEF OldRow
      <4>2. Passed(r)
        <5>1. handled + 1 > handled
          BY <1>0, TopicTyped
        <5>2. QED
          BY <1>2, <4>1, <5>1 DEF Passed
      <4>3. QED
        BY <1>10, <3>1, <4>2
    <3>4. QED
      BY <3>2, <3>3
  <2>2. \A j \in Instances : tx'[j].at = "marking" => \A r \in tx'[j].due : Passed(r)'
    BY <1>0, <1>10, TxTyped DEF LetterInv, PassedInv, Waiting
  <2>3. QED
    BY <2>1, <2>2 DEF PassedInv
<1>12. LockInv'
  <2>1. \A j \in Instances : Open(j)' = Open(j) /\ Held(j)' = Held(j)
    BY <1>0 DEF Open, Held
  <2>2. \A j \in Instances : Held(j) \subseteq Waiting(rows)'
    <3> SUFFICES ASSUME NEW j \in Instances, NEW r \in Held(j) PROVE r \in Waiting(rows)'
      OBVIOUS
    <3>1. OwnLocks(j)
      BY DEF LetterInv, LockInv
    <3>2. r \in DOMAIN rows /\ rows[r].state = "waiting" /\ Open(j)
      BY <3>1 DEF OwnLocks, Waiting
    <3>3. r \in HeldRows
      BY <3>2 DEF HeldRows, Held
    <3>4. QED
      BY <1>1, <3>2, <3>3 DEF OldRow, Waiting
  <2>3. (\A j \in Instances : OwnLocks(j))'
    <3> SUFFICES ASSUME NEW j \in Instances PROVE OwnLocks(j)'
      OBVIOUS
    <3>1. OwnLocks(j)
      BY DEF LetterInv, LockInv
    <3>2. \A r \in tx[j].due : Spent(r)' <=> Spent(r)
      BY <1>1, TxTyped DEF Spent, OldRow, Waiting
    <3>3. QED
      BY <1>0, <2>1, <2>2, <3>1, <3>2 DEF OwnLocks
  <2>4. (\A j, k \in Instances : j # k /\ Open(j) /\ Open(k) => Apart(j, k))'
    BY <1>0, <2>1 DEF LetterInv, LockInv, Apart
  <2>5. QED
    BY <2>3, <2>4 DEF LockInv
<1>13. (\A r \in DOMAIN rows : SentInv(r))'
  <2> SUFFICES ASSUME NEW r \in DOMAIN rows' PROVE SentInv(r)'
    OBVIOUS
  <2>1. faults \in Nat /\ faults' \in Nat
    BY FaultCounts
  <2>2. Sent(r)' = Sent(r) /\ (BeingMarked(r)' <=> BeingMarked(r))
    BY <1>0 DEF Sent, BeingMarked
  <2>3. CASE r \in DOMAIN rows
    <3>1. SentInv(r) /\ Cardinality(Sent(r)) \in Nat
      BY <1>0, <2>3, SentIsFinite DEF LetterInv
    <3>2. (r \in Waiting(rows))' => r \in Waiting(rows)
      BY <1>1, <2>3 DEF Waiting, OldRow
    <3>3. QED
      BY <2>1, <2>2, <3>1, <3>2 DEF SentInv
  <2>4. CASE r \notin DOMAIN rows
    <3>1. r # 0 /\ \A o \in DOMAIN topic : topic[o].of \in DOMAIN rows \cup {0}
      <4>1. r # 0
        BY <1>1, <1>3, <2>4 DEF NewRow
      <4>2. QED
        BY <4>1 DEF LetterInv, CopyInv
    <3>2. Sent(r) = {}
      BY <2>4, <3>1 DEF Sent
    <3>3. Cardinality(Sent(r)') = 0
      BY <2>2, <3>2, FS_EmptySet
    <3>4. \A n \in Nat : 0 <= n /\ 0 <= 1 + n
      OBVIOUS
    <3>5. QED
      BY <2>1, <3>3, <3>4 DEF SentInv
  <2>5. QED
    BY <2>3, <2>4
<1>14. (tx \in [Instances -> Tx])'
  BY <1>0, RequestsTyped
<1>15. QED
  BY <1>4, <1>5, <1>6, <1>8, <1>9, <1>11, <1>12, <1>13, <1>14 DEF LetterInv

LEMMA HandleStep == ASSUME DlqConstants PROVE LetterInv /\ (Handle \/ HandleUnconfirmed) => LetterInv'
<1>1. ASSUME LetterInv, Handle PROVE LetterInv'
  <2>1. faults' \in 0..MaxFaults /\ faults' = faults /\ handled' = handled + 1
    BY <1>1, FaultCounts DEF Handle
  <2>2. QED
    BY <1>1, <2>1, HandledStep DEF Handle
<1>2. ASSUME LetterInv, HandleUnconfirmed PROVE LetterInv'
  <2>1. faults' \in 0..MaxFaults /\ faults' = faults + 1 /\ handled' = handled
    BY <1>2, FaultCounts DEF HandleUnconfirmed
  <2>2. QED
    BY <1>2, <2>1, HandledStep DEF HandleUnconfirmed
<1>3. QED
  BY <1>1, <1>2

-------------------------------------------------------------------------------
LEMMA LettersStep == ASSUME DlqConstants PROVE LetterInv /\ [Next]_vars => LetterInv'
<1> SUFFICES ASSUME LetterInv, [Next]_vars PROVE LetterInv'
  OBVIOUS
<1>1. CASE Handle \/ HandleUnconfirmed
  BY <1>1, HandleStep
<1>2. CASE Ask
  BY <1>2, AskStep
<1>3. ASSUME NEW i \in Instances, Tick(i) PROVE LetterInv'
  BY <1>3, RecoverStep, BeginStep, SendStep, CommitStep, FailStep DEF Tick
<1>4. ASSUME NEW i \in Instances,
             SendFails(i) \/ CommitFails(i) \/ CommitUnknown(i) \/ FailLost(i) \/ Crash(i)
      PROVE  LetterInv'
  BY <1>4, SendFailsStep, CommitFailsStep, CommitUnknownStep, FailLostStep, CrashStep
<1>5. CASE UNCHANGED vars
  <2>1. UNCHANGED <<topic, handled, rows, stored, requests, tx, recovered, faults>>
    BY <1>5 DEF vars
  <2>2. LockInv'
    BY <2>1 DEF LetterInv, LockInv, OwnLocks, Apart, Open, Held, Waiting, Spent
  <2>3. \A r \in DOMAIN rows : SentInv(r)'
    BY <2>1, FaultCounts, SentStands DEF BeingMarked
  <2>4. QED
    BY <2>1, <2>2, <2>3, FaultCounts, RequestsTyped, QuietStep
<1>6. QED
  BY <1>1, <1>2, <1>3, <1>4, <1>5 DEF Next

(* Among finitely many numbers one is the largest.                          *)
LEMMA Newest ==
  ASSUME NEW n \in Nat, NEW S \in SUBSET (1..n), S # {}
  PROVE  \E x \in S : \A y \in S : y <= x
<1> DEFINE T == {n - x : x \in S}
           R == OpToRel(<, Nat)
<1>1. T \subseteq Nat /\ T # {}
  <2>1. \A x \in S : x \in Nat /\ n - x \in Nat
    OBVIOUS
  <2>2. PICK x \in S : TRUE
    OBVIOUS
  <2>3. QED
    BY <2>1, <2>2
<1>2. PICK t \in T : \A u \in T : ~(<<u, t>> \in R)
  <2>1. IsWellFoundedOn(R, Nat)
    BY NatLessThanWellFounded
  <2> HIDE DEF T, R
  <2>2. QED
    BY <1>1, <2>1, WFMin
<1>3. \A u \in T : ~(u < t)
  BY <1>1, <1>2 DEF OpToRel
<1>4. PICK x \in S : t = n - x
  OBVIOUS
<1>5. ASSUME NEW y \in S PROVE y <= x
  <2>1. n - y \in T
    OBVIOUS
  <2>2. ~(n - y < n - x)
    BY <1>3, <1>4, <2>1
  <2>3. x \in Nat /\ y \in Nat
    BY ONLY x \in S, y \in S, S \in SUBSET (1..n), n \in Nat
  <2>4. QED
    BY ONLY n \in Nat, <2>2, <2>3
<1>6. QED
  BY <1>5

(* The newest row of a message has no successor: it waits, is refused, or   *)
(* what it was sent for is stored or still ahead.                          *)
LEMMA LettersAreKept == LetterInv => RowsAreKept
<1> SUFFICES ASSUME LetterInv PROVE RowsAreKept
  OBVIOUS
<1>1. TypeOK /\ ChainDoesNotBranch
  BY DEF LetterInv
<1>2. NothingLost
  <2> SUFFICES ASSUME NEW r \in DOMAIN rows
               PROVE  \/ rows[r].message \in stored
                      \/ \E s \in DOMAIN rows :
                           rows[s].message = rows[r].message /\ rows[s].state \in {"waiting", "rejected"}
                      \/ \E o \in handled + 1..Len(topic) : topic[o].message = rows[r].message
    BY DEF NothingLost
  <2> DEFINE S == {s \in DOMAIN rows : rows[s].message = rows[r].message}
  <2>1. PICK t \in S : \A s \in S : s <= t
    <3>1. S \in SUBSET (1..Len(rows)) /\ S # {} /\ Len(rows) \in Nat
      BY <1>1, RowsTyped
    <3> HIDE DEF S
    <3>2. QED
      BY <3>1, Newest
  <2>2. t \in DOMAIN rows /\ rows[t].message = rows[r].message
    OBVIOUS
  <2>3. rows[t].state \in {"waiting", "resolved", "rejected"}
    BY <1>1, <2>2, RowsTyped
  <2>4. CASE rows[t].state = "resolved"
    <3>1. Passed(t)
      BY <2>2, <2>4 DEF LetterInv, PassedInv
    <3>2. ~ \E s \in DOMAIN rows : rows[s].of = t
      <4> SUFFICES ASSUME NEW s \in DOMAIN rows, rows[s].of = t PROVE FALSE
        OBVIOUS
      <4>1. RowInv(s) /\ t < s /\ t # 0 /\ t \in Nat /\ s \in Nat
        BY <1>1, <2>2, RowsTyped DEF LetterInv, RowInv
      <4>2. CopyInv(rows[s].offset)
        BY <4>1 DEF LetterInv, RowInv
      <4>3. rows[s].message = rows[t].message
        BY <4>1, <4>2 DEF RowInv, CopyInv
      <4>4. s \in S
        BY <2>2, <4>3
      <4>5. QED
        BY <2>1, <4>1, <4>4
    <3>3. CASE rows[t].message \in stored
      BY <2>2, <3>3
    <3>4. CASE \E o \in DOMAIN topic : o > handled /\ topic[o].of = t
      <4>1. PICK o \in DOMAIN topic : o > handled /\ topic[o].of = t
        BY <3>4
      <4>2. o \in handled + 1..Len(topic) /\ CopyInv(o) /\ t # 0
        BY <1>1, <2>2, <4>1, TopicTyped, RowsTyped DEF LetterInv
      <4>3. topic[o].message = rows[r].message
        BY <2>2, <4>1, <4>2 DEF CopyInv
      <4>4. QED
        BY <4>2, <4>3
    <3>5. QED
      BY <3>1, <3>2, <3>3, <3>4 DEF Passed
  <2>5. QED
    BY <2>2, <2>3, <2>4
<1>3. QED
  BY <1>1, <1>2 DEF RowsAreKept

LEMMA LettersSentOnce == LetterInv => SentOncePerFailure
<1> SUFFICES ASSUME LetterInv, NEW r \in DOMAIN rows PROVE Cardinality(Sent(r)) <= 1 + faults
  BY DEF SentOncePerFailure, Sent
<1>1. SentInv(r) /\ Cardinality(Sent(r)) \in Nat /\ faults \in Nat
  BY SentIsFinite DEF LetterInv, TypeOK
<1>2. QED
  BY <1>1 DEF SentInv

(* Nobody writes to a request that has ended: the open transactions hold    *)
(* requests of the queue, and a failure is recorded only over those nobody *)
(* holds.                                                                  *)
LEMMA OutcomeStep ==
  LetterInv /\ [Next]_vars =>
    \A q \in Requests : requests[q] \in {"done", "failed"} => requests'[q] = requests[q]
<1> SUFFICES ASSUME LetterInv, [Next]_vars, NEW q \in Requests, requests[q] \in {"done", "failed"}
             PROVE  requests'[q] = requests[q]
  OBVIOUS
<1>1. requests \in [Requests -> {"none", "queued", "running", "done", "failed"}]
  BY RequestsTyped
<1>2. ASSUME NEW i \in Instances, Committed(i), tx[i].at = "marking" PROVE requests'[q] = requests[q]
  <2>1. requests[tx[i].request] = "queued"
    BY <1>2 DEF LetterInv, LockInv, OwnLocks, Open
  <2>2. QED
    BY <1>1, <1>2, <2>1 DEF Committed
<1>3. CASE Ask
  <2>1. PICK p \in Requests :
          /\ \A o \in Requests : (o < p) <=> (requests[o] # "none")
          /\ requests' = [requests EXCEPT ![p] = "queued"]
    BY <1>3 DEF Ask
  <2>2. requests[p] = "none"
    BY <2>1 DEF Requests
  <2>3. QED
    BY <1>1, <2>1, <2>2
<1>4. ASSUME NEW i \in Instances, Tick(i) PROVE requests'[q] = requests[q]
  <2>1. CASE Recover(i)
    BY <1>1, <2>1 DEF Recover, Unstuck
  <2>2. CASE Commit(i)
    BY <1>2, <2>2 DEF Commit
  <2>3. CASE Fail(i)
    BY <1>1, <2>3 DEF Fail, MayFinish
  <2>4. CASE Begin(i) \/ Send(i)
    BY <2>4 DEF Begin, Send
  <2>5. QED
    BY <1>4, <2>1, <2>2, <2>3, <2>4 DEF Tick
<1>5. ASSUME NEW i \in Instances, CommitUnknown(i) PROVE requests'[q] = requests[q]
  BY <1>2, <1>5 DEF CommitUnknown
<1>6. ASSUME NEW i \in Instances, SendFails(i) \/ CommitFails(i) \/ FailLost(i) \/ Crash(i)
      PROVE  requests'[q] = requests[q]
  BY <1>6 DEF SendFails, CommitFails, FailLost, Crash
<1>7. CASE Handle \/ HandleUnconfirmed
  <2>1. PICK ok \in BOOLEAN : HandleNext(ok)
    BY <1>7 DEF Handle, HandleUnconfirmed
  <2>2. QED
    BY <2>1 DEF HandleNext
<1>8. CASE UNCHANGED vars
  BY <1>8 DEF vars
<1>9. QED
  BY <1>3, <1>4, <1>5, <1>6, <1>7, <1>8 DEF Next

(* A dead letter is never lost, and its failures form one chain of rows:    *)
(* resolveDlqCopies, markDlqResolved and the transaction of execute.       *)
THEOREM LettersKept == ASSUME DlqConstants PROVE Spec => []RowsAreKept
<1>1. QED
  BY LettersInit, LettersStep, LettersAreKept, PTL DEF Spec

(* A row goes to the topic once, and once more for every failure on the     *)
(* way: FOR UPDATE SKIP LOCKED of selectDlqForRedrive.                     *)
THEOREM LettersSent == ASSUME DlqConstants PROVE Spec => []SentOncePerFailure
<1>1. QED
  BY LettersInit, LettersStep, LettersSentOnce, PTL DEF Spec

(* The outcome of a redrive is written once: finishDlqRedrive after a       *)
(* rollback and failStaleDlqRedrives never cover it.                       *)
THEOREM RedriveOutcomesStand == ASSUME DlqConstants PROVE Spec => OutcomeStands
<1>1. LetterInv /\ [Next]_vars =>
        [\A q \in Requests : requests[q] \in {"done", "failed"} => requests'[q] = requests[q]]_vars
  BY OutcomeStep
<1>2. QED
  BY <1>1, LettersInit, LettersStep, PTL DEF Spec, OutcomeStands
===============================================================================
