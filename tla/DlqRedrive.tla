------------------------------ MODULE DlqRedrive ------------------------------
(***************************************************************************)
(* The second life of undecodable messages: an engineer asks for a redrive *)
(* of core.dlq_message, instances of stream-processor send copies back to  *)
(* the raw topic inside the transaction that claimed the request, and the  *)
(* batch handler closes the row of every copy it meets.                    *)
(*                                                                         *)
(* A row is known by its place in the table, a message by its number.      *)
(* What a transaction has written and not committed is kept in tx; the     *)
(* rows and the request it holds are locked.                               *)
(*                                                                         *)
(* Sources: dlq/dlq-redrive.service.ts, packages/db dlq.ts and state.ts,   *)
(* and the part of raw-batch.service.ts that handles failures and copies.  *)
(***************************************************************************)
EXTENDS Integers, Sequences, FiniteSets, SequencesExt

CONSTANTS
  Instances,      \* processes of stream-processor
  Messages,       \* number of messages in the raw topic at the start
  FinalAttempts,  \* FINAL_ATTEMPTS
  Limit,          \* max_messages of a request
  MaxRequests,    \* bound: requests
  Faults,         \* kinds of faults in this instance of the model
  MaxFaults       \* bound: faults in a behaviour

FaultKinds == {"send", "commit", "unknown", "fail", "crash", "redelivery"}

Requests == 1..MaxRequests

VARIABLES
  topic,      \* the raw topic: a message, the row it is a copy of (0: the
              \* message itself) and x-dlq-attempt
  handled,    \* messages of the topic confirmed by the group
  rows,       \* core.dlq_message, in the order of id
  stored,     \* messages whose readings are in the database
  requests,   \* core.dlq_redrive: status of each request
  tx,         \* the redrive each instance is in
  recovered,  \* instances that have looked for abandoned requests
  faults      \* faults so far, only bounds the model

vars == <<topic, handled, rows, stored, requests, tx, recovered, faults>>

Waiting(table) == {r \in DOMAIN table : table[r].state = "waiting"}

NoTx == [at |-> "idle", request |-> 0, due |-> {}, spent |-> {}]

Init ==
  /\ topic = [m \in 1..Messages |-> [message |-> m, of |-> 0, attempts |-> 0]]
  /\ handled = 0
  /\ rows = <<>> /\ stored = {}
  /\ requests \in {[q \in Requests |-> "none"],
                   [q \in Requests |-> IF q = 1 THEN "running" ELSE "none"]}
  /\ tx = [i \in Instances |-> NoTx]
  /\ recovered = {}
  /\ faults = 0

Fault(kind) ==
  /\ kind \in Faults
  /\ faults < MaxFaults
  /\ faults' = faults + 1

Open(i) == tx[i].at \in {"sending", "marking"}

(* Mutant: FOR UPDATE without SKIP LOCKED is no lock at all. *)
HeldNothing == {}

(* What FOR UPDATE ... SKIP LOCKED passes over. *)
HeldRows == UNION {tx[i].due \cup tx[i].spent : i \in {j \in Instances : Open(j)}}
HeldRequests == {tx[i].request : i \in {j \in Instances : Open(j)}}

-------------------------------------------------------------------------------
(* The batch handler, for the next message of the topic. *)

(* recordDlqMessages: neither the same offset nor a second copy of one row  *)
(* gives a new row.                                                        *)
RecordedFailure(table, offset, m) ==
  IF \E r \in DOMAIN table :
       table[r].offset = offset \/ (m.of # 0 /\ table[r].of = m.of)
  THEN table
  ELSE Append(table, [offset |-> offset, message |-> m.message, of |-> m.of,
                      attempts |-> m.attempts + 1, state |-> "waiting"])

(* resolveDlqCopies: a row that a redrive holds is passed over. *)
ClosedByCopy(table, m) ==
  IF m.of \in Waiting(table) \ HeldRows
  THEN [table EXCEPT ![m.of].state = "resolved"]
  ELSE table

HandleNext(ok) ==
  LET m == topic[handled + 1]
  IN /\ handled < Len(topic)
     /\ stored' = IF ok THEN stored \cup {m.message} ELSE stored
     /\ rows' = ClosedByCopy(IF ok THEN rows ELSE RecordedFailure(rows, handled + 1, m), m)
     /\ UNCHANGED <<topic, requests, tx, recovered>>

(* Decoded or not: profiles and the topology change between two attempts.  *)
Handle == \E ok \in BOOLEAN : HandleNext(ok) /\ handled' = handled + 1 /\ UNCHANGED faults

(* The transaction is there and the offset is not: the message comes again. *)
HandleUnconfirmed ==
  /\ Fault("redelivery")
  /\ \E ok \in BOOLEAN : HandleNext(ok)
  /\ UNCHANGED handled

-------------------------------------------------------------------------------
(* The redrive. *)

(* POST of the gateway: enqueueDlqRedrive. *)
Ask ==
  \E q \in Requests :
    /\ \A p \in Requests : (p < q) <=> (requests[p] # "none")
    /\ requests' = [requests EXCEPT ![q] = "queued"]
    /\ UNCHANGED <<topic, handled, rows, stored, tx, recovered, faults>>

(* Mutant: abandoned requests are left alone. *)
RecoverNothing(i) ==
  /\ i \notin recovered
  /\ recovered' = recovered \cup {i}
  /\ UNCHANGED <<topic, handled, rows, stored, requests, tx, faults>>

(* failStaleDlqRedrives: every request left in work. *)
Unstuck(table) == [q \in Requests |-> IF table[q] = "running" THEN "failed" ELSE table[q]]

(* Before the first request of the process: "running" is never committed by *)
(* this code, only by the one before it.                                   *)
Recover(i) ==
  /\ i \notin recovered
  /\ recovered' = recovered \cup {i}
  /\ requests' = Unstuck(requests)
  /\ UNCHANGED <<topic, handled, rows, stored, tx, faults>>

Spent(r) == rows[r].attempts >= FinalAttempts

(* claimDlqRedrive: the oldest request that nobody holds. *)
Claimable(q) ==
  /\ requests[q] = "queued" /\ q \notin HeldRequests
  /\ \A p \in 1..q - 1 : requests[p] = "queued" => p \in HeldRequests

(* selectDlqForRedrive: the oldest waiting rows that nobody holds. *)
Selected ==
  LET free == Waiting(rows) \ HeldRows
  IN {r \in free : Cardinality({s \in free : s < r}) < Limit}

Begin(i) ==
  /\ i \in recovered
  /\ tx[i].at = "idle"
  /\ \E q \in Requests :
       /\ Claimable(q)
       /\ tx' = [tx EXCEPT ![i] = [at |-> "sending", request |-> q,
                                  due |-> {r \in Selected : ~Spent(r)},
                                  spent |-> {r \in Selected : Spent(r)}]]
  /\ UNCHANGED <<topic, handled, rows, stored, requests, recovered, faults>>

(* The rows of a claim in the order of id. *)
InOrder(some) ==
  {order \in SetToSeqs(some) : \A j, k \in DOMAIN order : j < k => order[j] < order[k]}

(* toRedriveMessage of every row. *)
Copies(some) ==
  {[k \in DOMAIN order |-> [message |-> rows[order[k]].message, of |-> order[k],
                            attempts |-> rows[order[k]].attempts]] : order \in InOrder(some)}

Send(i) ==
  /\ tx[i].at = "sending"
  /\ \E copies \in Copies(tx[i].due) : topic' = topic \o copies
  /\ tx' = [tx EXCEPT ![i].at = "marking"]
  /\ UNCHANGED <<handled, rows, stored, requests, recovered, faults>>

(* ROLLBACK: what the transaction held is as it was; the error is recorded  *)
(* afterwards.                                                             *)
FailsAfter(i) ==
  tx' = [tx EXCEPT ![i] = [at |-> "failing", request |-> tx[i].request,
                           due |-> {}, spent |-> {}]]

(* Mutant: the error of the broker is swallowed and the rows are marked. *)
SendFailsUnnoticed(i) ==
  /\ tx[i].at = "sending"
  /\ Fault("send")
  /\ \E some \in SUBSET tx[i].due : \E copies \in Copies(some) : topic' = topic \o copies
  /\ tx' = [tx EXCEPT ![i].at = "marking"]
  /\ UNCHANGED <<handled, rows, stored, requests, recovered>>

(* The broker refused the batch, or took a part of it and the answer was    *)
(* lost: the transaction rolls back, the copies stay.                      *)
SendFails(i) ==
  /\ tx[i].at = "sending"
  /\ Fault("send")
  /\ \E some \in SUBSET tx[i].due : \E copies \in Copies(some) : topic' = topic \o copies
  /\ FailsAfter(i)
  /\ UNCHANGED <<handled, rows, stored, requests, recovered>>

(* markDlqResolved: only a row that still waits. *)
Resolved(table, ids) ==
  [r \in DOMAIN table |-> IF r \in ids \cap Waiting(table)
                            THEN [table[r] EXCEPT !.state = "resolved"] ELSE table[r]]

(* markDlqFinalRejected: whatever the row was.                             *)
Rejected(table, ids) ==
  [r \in DOMAIN table |-> IF r \in ids THEN [table[r] EXCEPT !.state = "rejected"] ELSE table[r]]

(* What COMMIT makes visible. *)
Committed(i) ==
  /\ rows' = Rejected(Resolved(rows, tx[i].due), tx[i].spent)
  /\ requests' = [requests EXCEPT ![tx[i].request] = "done"]

Commit(i) ==
  /\ tx[i].at = "marking"
  /\ Committed(i)
  /\ tx' = [tx EXCEPT ![i] = NoTx]
  /\ UNCHANGED <<topic, handled, stored, recovered, faults>>

(* A mark or COMMIT failed. *)
CommitFails(i) ==
  /\ tx[i].at = "marking"
  /\ Fault("commit")
  /\ FailsAfter(i)
  /\ UNCHANGED <<topic, handled, rows, stored, requests, recovered>>

(* COMMIT succeeded, but its answer was lost. *)
CommitUnknown(i) ==
  /\ tx[i].at = "marking"
  /\ Fault("unknown")
  /\ Committed(i)
  /\ FailsAfter(i)
  /\ UNCHANGED <<topic, handled, stored, recovered>>

(* finishDlqRedrive: WHERE status IN ('queued', 'running'). *)
MayFinish(status) == status \in {"queued", "running"}

(* fail, in a transaction of its own; it waits for another instance that    *)
(* has claimed the request anew.                                           *)
Fail(i) ==
  LET q == tx[i].request
  IN /\ tx[i].at = "failing"
     /\ q \notin HeldRequests
     /\ requests' = [requests EXCEPT ![q] = IF MayFinish(@) THEN "failed" ELSE @]
     /\ tx' = [tx EXCEPT ![i] = NoTx]
     /\ UNCHANGED <<topic, handled, rows, stored, recovered, faults>>

(* That transaction failed too: the request stays in the queue. *)
FailLost(i) ==
  /\ tx[i].at = "failing"
  /\ Fault("fail")
  /\ tx' = [tx EXCEPT ![i] = NoTx]
  /\ UNCHANGED <<topic, handled, rows, stored, requests, recovered>>

(* The process dies: PostgreSQL rolls its transaction back. *)
Crash(i) ==
  /\ tx[i].at # "idle"
  /\ Fault("crash")
  /\ tx' = [tx EXCEPT ![i] = NoTx]
  /\ recovered' = recovered \ {i}
  /\ UNCHANGED <<topic, handled, rows, stored, requests>>

-------------------------------------------------------------------------------
Tick(i) == Recover(i) \/ Begin(i) \/ Send(i) \/ Commit(i) \/ Fail(i)

Next ==
  \/ Handle \/ HandleUnconfirmed \/ Ask
  \/ \E i \in Instances :
       \/ Tick(i)
       \/ SendFails(i) \/ CommitFails(i) \/ CommitUnknown(i) \/ FailLost(i) \/ Crash(i)

Spec == Init /\ [][Next]_vars

(* The timer of every instance keeps running, the partition is read on; the *)
(* engineer need not ask and faults need not happen.                       *)
Fairness == WF_vars(Handle) /\ \A i \in Instances : WF_vars(Tick(i))
FairSpec == Spec /\ Fairness

-------------------------------------------------------------------------------
(* Properties. *)

TopicMessage == [message: 1..Messages, of: Nat, attempts: 0..FinalAttempts]
TableRow == [offset: Nat \ {0}, message: 1..Messages, of: Nat,
             attempts: 1..FinalAttempts, state: {"waiting", "resolved", "rejected"}]

TypeOK ==
  /\ topic \in Seq(TopicMessage)
  /\ handled \in 0..Len(topic)
  /\ rows \in Seq(TableRow)
  /\ stored \subseteq 1..Messages
  /\ requests \in [Requests -> {"none", "queued", "running", "done", "failed"}]
  /\ \A i \in Instances :
       /\ tx[i].at \in {"idle", "sending", "marking", "failing"}
       /\ tx[i].request \in Requests \cup {0}
       /\ tx[i].due \cup tx[i].spent \subseteq DOMAIN rows
  /\ recovered \subseteq Instances
  /\ faults \in 0..MaxFaults

(* A message that failed is never lost on its way through the queue and     *)
(* back: until its readings are stored it waits in a row, is on its way as  *)
(* a copy or is refused for good.                                          *)
NothingLost ==
  \A r \in DOMAIN rows :
    \/ rows[r].message \in stored
    \/ \E s \in DOMAIN rows :
         rows[s].message = rows[r].message /\ rows[s].state \in {"waiting", "rejected"}
    \/ \E o \in handled + 1..Len(topic) : topic[o].message = rows[r].message

(* However often copies of a row are sent, the queue has one row for one    *)
(* failure of a message: the chain of rows does not branch, as              *)
(* ARCHITECTURE.md says of x-dlq-redrive-of.                               *)
ChainDoesNotBranch ==
  \A r, s \in DOMAIN rows :
    rows[r].message = rows[s].message /\ rows[r].attempts = rows[s].attempts => r = s

(* The outcome of a request is written once: a failure recorded after a     *)
(* rollback never covers what another instance has done meanwhile.         *)
OutcomeStands ==
  [][\A q \in Requests :
       requests[q] \in {"done", "failed"} => requests'[q] = requests[q]]_vars

(* A row goes to the topic once, and once more for every failure on the way *)
(* (a send without an answer, a failed commit, a death): two instances      *)
(* never send one row because they looked at the queue together.           *)
SentOncePerFailure ==
  \A r \in DOMAIN rows :
    Cardinality({o \in DOMAIN topic : topic[o].of = r}) <= 1 + faults

(* No request is open: every one has ended as done or as failed.           *)
NothingAsked == \A q \in Requests : requests[q] \notin {"queued", "running"}

(* A dead letter is never lost, and its failures form one chain of rows.   *)
RowsAreKept == TypeOK /\ NothingLost /\ ChainDoesNotBranch
===============================================================================
