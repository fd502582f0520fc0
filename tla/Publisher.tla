------------------------------ MODULE Publisher -------------------------------
(***************************************************************************)
(* The bounded buffer between the poll and the broker in edge-collector:   *)
(* the poll never waits, batches leave in the background, and when the     *)
(* broker is away the oldest messages make room for new ones.              *)
(*                                                                         *)
(* Messages are numbered in the order of enqueue; a message belongs to one *)
(* of several topics, and a send that fails may have reached some of them. *)
(*                                                                         *)
(* Sources: publish/bounded-publisher.ts, publish/kafka-publisher.ts and   *)
(* groupByTopic of packages/kafka/src/producer.ts.                         *)
(***************************************************************************)
EXTENDS Integers, Sequences

CONSTANTS
  Capacity,      \* COLLECTOR_BUFFER_CAPACITY
  BatchSize,     \* BATCH_SIZE
  Topics,        \* number of topics
  MaxMessages,   \* bound: messages
  MaxFailures    \* bound: sends that fail

Messages == 1..MaxMessages
TopicOf(n) == n % Topics

VARIABLES
  enqueued,   \* messages put so far
  queue,      \* messages waiting
  inFlight,   \* the batch being sent
  dropped,    \* messages given up
  acked,      \* messages of acknowledged batches
  pump,       \* "idle", "sending", "sleeping", "ending": the promise pumping
  closed,     \* close was called
  log,        \* what the broker holds, in the order of arrival
  failures    \* failed sends so far, only bounds the model

buffer == <<queue, inFlight, dropped, acked, pump>>
vars == <<enqueued, buffer, closed, log, failures>>

InQueue(q) == {q[k] : k \in DOMAIN q}

(* Mutant: one message too many is given up. *)
ExcessEager(q) == IF Len(q) >= Capacity THEN Len(q) - Capacity + 1 ELSE 0

(* trim: the oldest messages above the capacity are given up. *)
Excess(q) == IF Len(q) > Capacity THEN Len(q) - Capacity ELSE 0

Trimmed(q) == SubSeq(q, Excess(q) + 1, Len(q))
TrimmedOff(q) == InQueue(SubSeq(q, 1, Excess(q)))

FirstBatch(q) == SubSeq(q, 1, IF Len(q) < BatchSize THEN Len(q) ELSE BatchSize)

-------------------------------------------------------------------------------
Init ==
  /\ enqueued = 0
  /\ queue = <<>> /\ inFlight = <<>> /\ dropped = {} /\ acked = {}
  /\ pump = "idle" /\ closed = FALSE
  /\ log = <<>>
  /\ failures = 0

(* The head of the loop of pump: the next batch, or the end. *)
TurnOf(q) ==
  IF q # <<>> /\ ~closed
  THEN /\ pump' = "sending"
       /\ inFlight' = FirstBatch(q)
       /\ queue' = SubSeq(q, Len(FirstBatch(q)) + 1, Len(q))
  ELSE /\ pump' = "ending"
       /\ inFlight' = <<>>
       /\ queue' = q

(* enqueue: push, trim and kick, which does nothing while pumping is set. *)
Enqueue ==
  /\ enqueued < MaxMessages
  /\ enqueued' = enqueued + 1
  /\ LET q == Append(queue, enqueued')
     IN /\ dropped' = dropped \cup TrimmedOff(q)
        /\ IF pump = "idle" /\ ~closed
           THEN TurnOf(Trimmed(q))
           ELSE queue' = Trimmed(q) /\ UNCHANGED <<inFlight, pump>>
  /\ UNCHANGED <<acked, closed, log, failures>>

(* The batch reached the broker and the answer came back. *)
SendOk ==
  /\ pump = "sending"
  /\ log' = log \o inFlight
  /\ acked' = acked \cup InQueue(inFlight)
  /\ TurnOf(queue)
  /\ UNCHANGED <<enqueued, dropped, closed, failures>>

(* Mutant: the failed batch goes to the end of the queue. *)
RequeueLast(batch, q) == q \o batch

(* The failed batch returns to the front of the queue. *)
Requeue(batch, q) == batch \o q

(* The places in a batch of the messages of some topics, in their order:   *)
(* the one sequence that goes up and has all of them.                      *)
PlacesOf(batch, arrived) ==
  {places \in UNION {[1..n -> DOMAIN batch] : n \in 0..Len(batch)} :
     /\ \A m, n \in DOMAIN places : m < n => places[m] < places[n]
     /\ InQueue(places) = {k \in DOMAIN batch : TopicOf(batch[k]) \in arrived}}

(* The send failed; the messages of some topics may have arrived. *)
SendFails ==
  /\ pump = "sending"
  /\ failures < MaxFailures
  /\ failures' = failures + 1
  /\ \E arrived \in SUBSET (0..Topics - 1) : \E places \in PlacesOf(inFlight, arrived) :
       log' = log \o [n \in DOMAIN places |-> inFlight[places[n]]]
  /\ LET q == Requeue(inFlight, queue)
     IN /\ queue' = Trimmed(q)
        /\ dropped' = dropped \cup TrimmedOff(q)
  /\ inFlight' = <<>>
  /\ pump' = "sleeping"
  /\ UNCHANGED <<enqueued, acked, closed>>

(* retryDelayMs has passed. *)
Wake ==
  /\ pump = "sleeping"
  /\ TurnOf(queue)
  /\ UNCHANGED <<enqueued, dropped, acked, closed, log, failures>>

(* finally of kick: pumping is cleared, and kick again for messages that   *)
(* came after the loop had ended.                                          *)
PumpEnds ==
  /\ pump = "ending"
  /\ IF queue # <<>> /\ ~closed
     THEN TurnOf(queue)
     ELSE pump' = "idle" /\ UNCHANGED <<queue, inFlight>>
  /\ UNCHANGED <<enqueued, dropped, acked, closed, log, failures>>

(* onApplicationShutdown: drained, or the five seconds are over. *)
Close ==
  /\ ~closed
  /\ closed' = TRUE
  /\ UNCHANGED <<enqueued, buffer, log, failures>>

Next == Enqueue \/ SendOk \/ SendFails \/ Wake \/ PumpEnds \/ Close

Spec == Init /\ [][Next]_vars

(* The pump goes on by itself; the broker, asked again and again, answers  *)
(* in the end (the producer retries without a limit).                      *)
Fairness == WF_vars(Wake) /\ WF_vars(PumpEnds) /\ SF_vars(SendOk)
FairSpec == Spec /\ Fairness

-------------------------------------------------------------------------------
(* Properties. *)

TypeOK ==
  /\ enqueued \in 0..MaxMessages
  /\ queue \in Seq(Messages) /\ Len(queue) <= Capacity
  /\ inFlight \in Seq(Messages) /\ Len(inFlight) <= BatchSize
  /\ dropped \subseteq Messages /\ acked \subseteq Messages
  /\ pump \in {"idle", "sending", "sleeping", "ending"}
  /\ closed \in BOOLEAN
  /\ log \in Seq(Messages)
  /\ failures \in 0..MaxFailures

Pending == inFlight \o queue

(* Every message of the poll is waiting in its order, acknowledged or      *)
(* counted as dropped, and only one of these: dropped() and the metric     *)
(* tell the whole loss.                                                    *)
EveryMessageAccounted ==
  /\ acked \cup dropped \cup InQueue(Pending) = 1..enqueued
  /\ acked \cap dropped = {} /\ (acked \cup dropped) \cap InQueue(Pending) = {}
  /\ \A j, k \in DOMAIN Pending : j < k => Pending[j] < Pending[k]

(* A topic never sees a message for the first time after a newer one, the  *)
(* order the decoder relies on: only repeats come late.                    *)
TopicOrder ==
  \A j, k \in DOMAIN log :
    j < k /\ log[k] < log[j] /\ TopicOf(log[k]) = TopicOf(log[j])
      => \E i \in 1..j - 1 : log[i] = log[k]

(* A message is given up only while Capacity newer ones are kept.          *)
DropsOnlyOldest ==
  [][\A n \in dropped' \ dropped :
       /\ Len(queue') = Capacity
       /\ \A k \in DOMAIN queue' : queue'[k] > n]_vars

(* Nothing waits, unless the buffer is closed: what a pump that has gone   *)
(* to rest between the end of the loop and the kick could leave behind.    *)
NothingWaits == Pending = <<>> \/ closed

(* Every message is waiting, in the topic or counted as lost, and a topic  *)
(* sees messages in the order they were put in.                            *)
Conserved == TypeOK /\ EveryMessageAccounted /\ TopicOrder
===============================================================================
