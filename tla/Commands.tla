------------------------------- MODULE Commands -------------------------------
(***************************************************************************)
(* The way of an operator's command: a row of core.outbox, the relay of    *)
(* every gateway instance, device.commands.v1, the consumer of the         *)
(* collector, its answer in device.commands.results.v1 and the row of      *)
(* core.applied_commands written by the processor.                         *)
(*                                                                         *)
(* All commands go to one line, so to one partition of the topic, and      *)
(* switch its polling on or off.  Commands are numbered as their rows.     *)
(*                                                                         *)
(* Sources: commands/ of the three services and packages/db outbox.ts.     *)
(***************************************************************************)
EXTENDS Integers, Sequences, SequencesExt

CONSTANTS
  Gateways,        \* instances of api-gateway that relay the outbox
  Kinds,           \* what can be issued, "broken" stands for a row that the
                   \* schema of the topic does not accept
  Batch,           \* OUTBOX_BATCH
  FinalAttempts,   \* FINAL_ATTEMPTS
  MaxCommands,     \* bound: commands
  Faults,          \* kinds of faults in this instance of the model
  MaxFaults        \* bound: faults in a behaviour

FaultKinds == {"send", "mark", "gateway", "collector", "processor", "expiry", "compaction"}

ASSUME CommandsAssumption ==
  /\ Kinds \subseteq {"enable", "disable", "broken"}
  /\ Batch \in Nat \ {0} /\ FinalAttempts \in Nat \ {0}
  /\ MaxCommands \in Nat /\ MaxFaults \in Nat
  /\ Faults \subseteq FaultKinds

Ids == 1..MaxCommands

VARIABLES
  outbox,      \* core.outbox
  expired,     \* commands past expiresAt
  relay,       \* relay of each gateway: where tick is, and attempts of its rows
  topic,       \* the partition of device.commands.v1
  read,        \* messages handled by the collector since it joined
  committed,   \* messages confirmed for certain: at the last restart
  line,        \* polling of the line
  applied,     \* commands in the order they were applied, repeats included
  answers,     \* answers in the buffer of the collector
  results,     \* answers in the results topic not confirmed by the processor
  recorded,    \* core.applied_commands
  restarts,    \* restarts of the collector
  faults       \* faults so far, only bounds the model

executor == <<read, committed, line, applied, answers>>
vars == <<outbox, expired, relay, topic, executor, results, recorded, restarts, faults>>

-------------------------------------------------------------------------------
NoRow == [kind |-> "none", state |-> "none", attempts |-> 0, deferred |-> FALSE]
IdleRelay == [at |-> "idle", rows |-> <<>>]

Init ==
  /\ outbox = [c \in Ids |-> NoRow]
  /\ expired = {}
  /\ relay = [g \in Gateways |-> IdleRelay]
  /\ topic = <<>>
  /\ read = 0 /\ committed = 0
  /\ line = "enable"
  /\ applied = <<>> /\ answers = <<>> /\ results = <<>>
  /\ recorded = [c \in Ids |-> "none"]
  /\ restarts = 0
  /\ faults = 0

Fault(kind) ==
  /\ kind \in Faults
  /\ faults < MaxFaults
  /\ faults' = faults + 1

-------------------------------------------------------------------------------
(* The gateway: acceptance of a command and the relay of the outbox. *)

Waiting == {c \in Ids : outbox[c].state = "waiting"}

Due == {c \in Waiting : ~outbox[c].deferred}

(* POST /api/commands: one row, published later by the relay. *)
Issue ==
  \E c \in Ids, kind \in Kinds :
    /\ \A d \in Ids : (d < c) <=> (outbox[d].state # "none")
    /\ outbox' = [outbox EXCEPT ![c] =
                    [kind |-> kind, state |-> "waiting", attempts |-> 0, deferred |-> FALSE]]
    /\ UNCHANGED <<expired, relay, topic, executor, results, recorded, restarts, faults>>

Deferred(rows) ==
  [c \in Ids |-> IF c \in rows THEN [outbox[c] EXCEPT !.deferred = TRUE] ELSE outbox[c]]
InState(rows, state) ==
  [c \in Ids |-> IF c \in rows THEN [outbox[c] EXCEPT !.state = state] ELSE outbox[c]]

Held(g) == DOMAIN relay[g].rows
Broken(g) == {c \in Held(g) : outbox[c].kind = "broken"}
Sound(g) == Held(g) \ Broken(g)
Exhausted(g) == {c \in Broken(g) : relay[g].rows[c] >= FinalAttempts}

Turn(g, from, to) ==
  /\ relay[g].at = from
  /\ relay' = [relay EXCEPT ![g] = IF to = "idle" THEN IdleRelay ELSE [@ EXCEPT !.at = to]]

(* claimOutbox: the UPDATE is a transaction of its own, so the rows are     *)
(* free again as soon as it is over: lock_id is written but never asked.   *)
Claim(g) ==
  /\ relay[g].at = "idle"
  /\ Due # {}
  /\ LET rows == {c \in Due : Cardinality({d \in Due : d < c}) < Batch}
     IN /\ outbox' = [c \in Ids |-> IF c \in rows
                                    THEN [outbox[c] EXCEPT !.attempts = @ + 1]
                                    ELSE outbox[c]]
        /\ relay' = [relay EXCEPT ![g] =
                       [at |-> IF \E c \in rows : outbox[c].kind = "broken"
                               THEN "rejecting" ELSE "sending",
                        rows |-> [c \in rows |-> outbox[c].attempts + 1]]]
  /\ UNCHANGED <<expired, topic, executor, results, recorded, restarts, faults>>

(* rejectBroken, its first statement: markOutboxRejected. *)
Reject(g) ==
  /\ Turn(g, "rejecting", "putting off")
  /\ outbox' = InState(Exhausted(g), "rejected")
  /\ UNCHANGED <<expired, topic, executor, results, recorded, restarts, faults>>

(* rejectBroken, its second statement: markOutboxFailed. *)
PutOff(g) ==
  /\ Turn(g, "putting off", IF Sound(g) = {} THEN "idle" ELSE "sending")
  /\ outbox' = Deferred(Broken(g) \ Exhausted(g))
  /\ UNCHANGED <<expired, topic, executor, results, recorded, restarts, faults>>

(* The order of the rows that UPDATE ... RETURNING gives is not defined. *)
Sent(g) == {topic \o order : order \in SetToSeqs(Sound(g))}

Send(g) ==
  /\ Turn(g, "sending", "marking")
  /\ topic' \in Sent(g)
  /\ UNCHANGED <<outbox, expired, executor, results, recorded, restarts, faults>>

(* Mutant: the failure of the send goes unnoticed. *)
SendFailsUnnoticed(g) ==
  /\ Turn(g, "sending", "marking")
  /\ Fault("send")
  /\ topic' \in Sent(g) \cup {topic}
  /\ UNCHANGED <<outbox, expired, executor, results, recorded, restarts>>

(* The broker did not answer in time; the messages may be in the topic. *)
SendFails(g) ==
  /\ Turn(g, "sending", "deferring")
  /\ Fault("send")
  /\ topic' \in Sent(g) \cup {topic}
  /\ UNCHANGED <<outbox, expired, executor, results, recorded, restarts>>

(* markOutboxPublished. *)
Mark(g) ==
  /\ Turn(g, "marking", "idle")
  /\ outbox' = InState(Sound(g), "published")
  /\ UNCHANGED <<expired, topic, executor, results, recorded, restarts, faults>>

(* The mark is inside the same try: its failure counts as one of the send. *)
MarkFails(g) ==
  /\ Turn(g, "marking", "deferring")
  /\ Fault("mark")
  /\ UNCHANGED <<outbox, expired, topic, executor, results, recorded, restarts>>

(* catch: markOutboxFailed puts the rows off. *)
Defer(g) ==
  /\ Turn(g, "deferring", "idle")
  /\ outbox' = Deferred(Sound(g))
  /\ UNCHANGED <<expired, topic, executor, results, recorded, restarts, faults>>

(* The process ends at any point of tick: killed, or by a statement of      *)
(* claim, reject or defer that fails, for nobody handles the rejection of   *)
(* the promise of tick.                                                    *)
GatewayDown(g) ==
  /\ relay[g].at # "idle"
  /\ Fault("gateway")
  /\ relay' = [relay EXCEPT ![g] = IdleRelay]
  /\ UNCHANGED <<outbox, expired, topic, executor, results, recorded, restarts>>

(* next_attempt_at has come. *)
DelayOver(c) ==
  /\ outbox[c].state = "waiting" /\ outbox[c].deferred
  /\ outbox' = [outbox EXCEPT ![c].deferred = FALSE]
  /\ UNCHANGED <<expired, relay, topic, executor, results, recorded, restarts, faults>>

(* COMMAND_TTL_MS after the issue. *)
Expire(c) ==
  /\ outbox[c].state # "none" /\ c \notin expired
  /\ Fault("expiry")
  /\ expired' = expired \cup {c}
  /\ UNCHANGED <<outbox, relay, topic, executor, results, recorded, restarts>>

-------------------------------------------------------------------------------
(* The collector. *)

Answer(c, status) == answers' = Append(answers, [id |-> c, status |-> status])

(* enable and disable of the line. *)
Switched(kind) == line' = kind

(* handle: a command past its time is refused, any other one applied; both *)
(* answers wait in the bounded publisher.  The line is the collector's own *)
(* and of its site, and the schema that passed the command at its issue    *)
(* asks for the arguments of its kind: a command is neither passed over in *)
(* silence nor answered "rejected", as one of another stand would be.      *)
Handle ==
  /\ read < Len(topic)
  /\ read' = read + 1
  /\ LET c == topic[read + 1]
     IN IF c \in expired
        THEN Answer(c, "expired") /\ UNCHANGED <<line, applied>>
        ELSE /\ Switched(outbox[c].kind)
             /\ applied' = Append(applied, c)
             /\ Answer(c, "applied")
  /\ UNCHANGED <<outbox, expired, relay, topic, committed, results, recorded, restarts, faults>>

(* The publisher hands the oldest answer to the broker. *)
SendAnswer ==
  /\ answers # <<>>
  /\ results' = Append(results, Head(answers))
  /\ answers' = Tail(answers)
  /\ UNCHANGED <<outbox, expired, relay, topic, read, committed, line, applied, recorded,
                 restarts, faults>>

(* Killed and restarted: the buffer is gone, every worker polls again and   *)
(* the group reads from the offset kafkajs has confirmed on its own by     *)
(* then, from the end if there is none (fromBeginning: false).             *)
CollectorDown ==
  /\ Fault("collector")
  /\ restarts' = restarts + 1
  /\ answers' = <<>>
  /\ line' = "enable"
  /\ \E confirmed \in committed..read :
       /\ committed' = confirmed
       /\ read' = IF confirmed = 0 THEN Len(topic) ELSE confirmed
  /\ UNCHANGED <<outbox, expired, relay, topic, applied, results, recorded>>

-------------------------------------------------------------------------------
(* The processor: recordAppliedCommand, ON CONFLICT (command_id) DO NOTHING. *)

(* Mutant: DO UPDATE, the last answer stands. *)
RecordedLast(a) == [recorded EXCEPT ![a.id] = a.status]

Recorded(a) == [recorded EXCEPT ![a.id] = IF @ = "none" THEN a.status ELSE @]

Record ==
  /\ results # <<>>
  /\ recorded' = Recorded(Head(results))
  /\ results' = Tail(results)
  /\ UNCHANGED <<outbox, expired, relay, topic, executor, restarts, faults>>

(* Written, but the offset is not confirmed: the answer comes again. *)
RecordUnconfirmed ==
  /\ results # <<>>
  /\ Fault("processor")
  /\ recorded' = Recorded(Head(results))
  /\ UNCHANGED <<outbox, expired, relay, topic, executor, results, restarts>>

(* The results topic keeps the last answer of a command. *)
Compact ==
  /\ Fault("compaction")
  /\ \E j \in DOMAIN results :
       /\ \E k \in DOMAIN results : j < k /\ results[j].id = results[k].id
       /\ results' = RemoveAt(results, j)
  /\ UNCHANGED <<outbox, expired, relay, topic, executor, recorded, restarts>>

-------------------------------------------------------------------------------
Tick(g) == Claim(g) \/ Reject(g) \/ PutOff(g) \/ Send(g) \/ Mark(g) \/ Defer(g)

Next ==
  \/ Issue \/ Handle \/ SendAnswer \/ CollectorDown
  \/ Record \/ RecordUnconfirmed \/ Compact
  \/ \E g \in Gateways : Tick(g) \/ SendFails(g) \/ MarkFails(g) \/ GatewayDown(g)
  \/ \E c \in Ids : DelayOver(c) \/ Expire(c)

Spec == Init /\ [][Next]_vars

(* The timers of the relay, the consumers and the publisher keep working;   *)
(* operators need not issue anything and faults need not happen.           *)
Fairness ==
  /\ \A g \in Gateways : WF_vars(Tick(g))
  /\ \A c \in Ids : WF_vars(DelayOver(c))
  /\ WF_vars(Handle) /\ WF_vars(SendAnswer) /\ WF_vars(Record)

FairSpec == Spec /\ Fairness

-------------------------------------------------------------------------------
(* Properties. *)

Row == [kind: Kinds \cup {"none"}, state: {"none", "waiting", "published", "rejected"},
        attempts: Nat, deferred: BOOLEAN]
AnswerMessage == [id: Ids, status: {"applied", "expired"}]

TypeOK ==
  /\ outbox \in [Ids -> Row]
  /\ expired \subseteq Ids
  /\ \A g \in Gateways :
       /\ relay[g].at \in {"idle", "rejecting", "putting off", "sending", "marking",
                           "deferring"}
       /\ Held(g) \subseteq Ids
       /\ \A c \in Held(g) : relay[g].rows[c] \in 1..outbox[c].attempts
  /\ topic \in Seq(Ids)
  /\ committed \in 0..read /\ read \in 0..Len(topic)
  /\ line \in {"enable", "disable"}
  /\ applied \in Seq(Ids)
  /\ answers \in Seq(AnswerMessage) /\ results \in Seq(AnswerMessage)
  /\ recorded \in [Ids -> {"none", "applied", "expired"}]
  /\ restarts \in 0..MaxFaults /\ faults \in 0..MaxFaults

(* A row marked as published is in the topic, whichever of the relays that  *)
(* claimed it at the same time has failed: no command is lost on the way.   *)
PublishedIsInTopic ==
  \A c \in Ids : outbox[c].state = "published" => \E k \in DOMAIN topic : topic[k] = c

(* loadCommandProgress. *)
Stage(c) ==
  IF recorded[c] # "none" THEN recorded[c]
  ELSE CASE outbox[c].state = "none" -> "none"
         [] outbox[c].state = "waiting" -> "queued"
         [] outbox[c].state = "published" -> "sent"
         [] outbox[c].state = "rejected" -> "rejected"

Progress == INSTANCE CommandProgress
              WITH Commands <- Ids, stage <- [c \in Ids |-> Stage(c)]

(* The stages an operator sees only go forward, whatever is sent, applied   *)
(* or answered twice.                                                      *)
StagesGoForward == Progress!Spec

(* A row that has left the queue is published or, if no schema accepts it,  *)
(* refused for good; a command in the topic has its outcome, unless a       *)
(* restart of the collector has lost the command or the answer.            *)
Settled(c) ==
  /\ outbox[c].state # "waiting"
  /\ outbox[c].state = "published" => recorded[c] # "none" \/ restarts > 0

(* Commands of one site are applied in their order (topics.manifest.ts): a  *)
(* command is never applied for the first time after a later one.          *)
SiteOrder ==
  \A j, k \in DOMAIN applied :
    j < k /\ applied[k] < applied[j] => \E i \in 1..j - 1 : applied[i] = applied[k]

(* No row is marked that is not on its way, nor any record malformed.      *)
NothingVanishes == TypeOK /\ PublishedIsInTopic
===============================================================================
