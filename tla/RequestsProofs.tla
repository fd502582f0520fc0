---------------------------- MODULE RequestsProofs ----------------------------
(***************************************************************************)
(* Proofs about what people ask for.  First the way of a command, for      *)
(* every number of gateways and commands, every size of a batch and every  *)
(* choice of faults: no row is marked as published that is not in the      *)
(* topic, and the stages an operator sees go forward only (Commands        *)
(* implements CommandProgress).                                            *)
(*                                                                         *)
(* The argument: the kind of a row is written once, so what a relay has    *)
(* found sound when it took the row stays sound; the topic only grows; a   *)
(* row leaves the queue once, as published if it is sound and as rejected  *)
(* if it is broken, whatever other relays hold it too.                     *)
(*                                                                         *)
(* Then what is proved of replay runs and of the redrive is carried to the *)
(* behaviours the model checker is given: a behaviour is about one of the  *)
(* three tables of requests, and a step of another one leaves it alone.    *)
(***************************************************************************)
EXTENDS MCRequests, FiniteSetTheorems, SequenceTheorems, TLAPS

USE CommandsAssumption DEF CommandsAssumption

Turns == {"idle", "rejecting", "putting off", "sending", "marking", "deferring"}
HeldRows == UNION {[held -> Nat] : held \in SUBSET Ids}

(* A row that has been issued, and one that a relay may send.              *)
Issued(c) == outbox[c].state # "none"
Switches(c) == outbox[c].kind \in {"enable", "disable"}

(* A row leaves the queue in the way its kind says.                        *)
RowInv(c) ==
  /\ outbox[c].kind = "none" <=> outbox[c].state = "none"
  /\ outbox[c].state = "rejected" => outbox[c].kind = "broken"
  /\ outbox[c].state = "published" => Switches(c)

(* What a relay holds has been issued; what it is about to mark is in the  *)
(* topic.                                                                  *)
RelayInv(g) ==
  /\ \A c \in Held(g) : Issued(c)
  /\ relay[g].at = "marking" => \A c \in Sound(g) : \E k \in DOMAIN topic : topic[k] = c

(* Only rows that switch a line travel, and only they are answered.        *)
WayInv ==
  /\ \A k \in DOMAIN topic : Switches(topic[k])
  /\ \A k \in DOMAIN answers : Switches(answers[k].id)
  /\ \A k \in DOMAIN results : Switches(results[k].id)

CommandInv ==
  /\ NothingVanishes
  /\ relay \in [Gateways -> [at : Turns, rows : HeldRows]]
  /\ restarts <= faults
  /\ \A c \in Ids : RowInv(c)
  /\ \A g \in Gateways : RelayInv(g)
  /\ WayInv

-------------------------------------------------------------------------------
(* The order in which RETURNING gives the rows holds each of them.          *)
LEMMA OrderCovers ==
  ASSUME NEW S, IsFiniteSet(S), NEW order \in SetToSeqs(S)
  PROVE  /\ order \in Seq(S)
         /\ \A c \in S : \E k \in 1..Len(order) : order[k] = c
<1>1. Cardinality(S) \in Nat
  BY FS_CardinalityType
<1>2. order \in [1..Cardinality(S) -> S]
  BY DEF SetToSeqs
<1>3. order \in Seq(S) /\ Len(order) = Cardinality(S)
  BY <1>1, <1>2
<1>4. order \in Injection(1..Cardinality(S), S)
  BY <1>2 DEF SetToSeqs, Injection, IsInjective
<1>5. IsFiniteSet(1..Cardinality(S)) /\ Cardinality(1..Cardinality(S)) = Cardinality(S)
  BY <1>1, FS_Interval
<1>6. order \in Surjection(1..Cardinality(S), S)
  BY <1>4, <1>5, FS_Injection
<1>7. QED
  BY <1>3, <1>6 DEF Surjection

LEMMA HeldIsFinite == ASSUME NEW S \in SUBSET Ids PROVE IsFiniteSet(S)
<1>1. MaxCommands \in Nat
  OBVIOUS
<1>2. IsFiniteSet(Ids)
  BY <1>1, FS_Interval DEF Ids
<1>3. QED
  BY <1>2, FS_Subset

(* The order of the invariant: what relays hold, and what is on its way.   *)
LEMMA CommandsInit == Init => CommandInv
<1> SUFFICES ASSUME Init PROVE CommandInv
  OBVIOUS
<1> USE DEF Init, Ids
<1>1. \A g \in Gateways : relay[g] = [at |-> "idle", rows |-> <<>>]
  BY DEF IdleRelay
<1>2. \A g \in Gateways : Held(g) = {}
  BY <1>1 DEF Held
<1>3. TypeOK
  <2>1. outbox \in [Ids -> Row] /\ expired \subseteq Ids
    BY DEF Row, NoRow
  <2>2. /\ topic \in Seq(Ids) /\ applied \in Seq(Ids) /\ Len(topic) = 0
        /\ answers \in Seq(AnswerMessage) /\ results \in Seq(AnswerMessage)
    BY EmptySeq
  <2>3. /\ committed \in 0..read /\ read \in 0..Len(topic)
        /\ restarts \in 0..MaxFaults /\ faults \in 0..MaxFaults
    BY <2>2
  <2>4. recorded \in [Ids -> {"none", "applied", "expired"}] /\ line \in {"enable", "disable"}
    OBVIOUS
  <2>5. \A g \in Gateways : relay[g].at = "idle" /\ Held(g) = {}
    BY <1>1, <1>2
  <2>6. QED
    BY ONLY <2>1, <2>2, <2>3, <2>4, <2>5 DEF TypeOK
<1>4. relay \in [Gateways -> [at : Turns, rows : HeldRows]]
  <2>1. <<>> \in [{} -> Nat]
    OBVIOUS
  <2>2. <<>> \in HeldRows
    BY <2>1 DEF HeldRows
  <2>3. QED
    BY <2>2 DEF IdleRelay, Turns
<1>5. \A c \in Ids : RowInv(c)
  BY DEF RowInv, NoRow
<1>6. \A g \in Gateways : RelayInv(g)
  BY <1>1, <1>2 DEF RelayInv
<1>7. PublishedIsInTopic /\ WayInv
  BY DEF PublishedIsInTopic, NoRow, WayInv
<1>8. QED
  BY <1>3, <1>4, <1>5, <1>6, <1>7 DEF CommandInv, NothingVanishes

-------------------------------------------------------------------------------
(* What is on its way names rows.                                           *)
LEMMA WayTyped ==
  ASSUME TypeOK
  PROVE  /\ \A k \in DOMAIN topic : topic[k] \in Ids
         /\ \A k \in DOMAIN answers : answers[k] \in AnswerMessage /\ answers[k].id \in Ids
         /\ \A k \in DOMAIN results : results[k] \in AnswerMessage /\ results[k].id \in Ids
<1>1. topic \in Seq(Ids) /\ answers \in Seq(AnswerMessage) /\ results \in Seq(AnswerMessage)
  BY DEF TypeOK
<1>2. \A S : \A s \in Seq(S) : \A k \in DOMAIN s : s[k] \in S
  OBVIOUS
<1>3. \A a \in AnswerMessage : a.id \in Ids
  BY DEF AnswerMessage
<1>4. QED
  BY <1>1, <1>2, <1>3

LEMMA CountsTyped ==
  ASSUME CommandInv
  PROVE  /\ expired \subseteq Ids
         /\ faults \in Nat /\ faults <= MaxFaults
         /\ restarts \in Nat /\ restarts <= faults
<1>1. expired \subseteq Ids
  BY DEF CommandInv, NothingVanishes, TypeOK
<1>2. faults \in 0..MaxFaults /\ restarts \in 0..MaxFaults /\ restarts <= faults
  BY DEF CommandInv, NothingVanishes, TypeOK
<1>3. QED
  BY <1>1, <1>2

LEMMA CountsStand ==
  ASSUME CommandInv, UNCHANGED <<expired, faults>>
  PROVE  expired' \subseteq Ids /\ faults' \in 0..MaxFaults /\ faults <= faults'
  BY CountsTyped

(* Steps of the gateway.  What they change is the state and the attempts   *)
(* of rows, never their kind: a step of that shape keeps what is said of   *)
(* rows, of the topic and of answers.                                      *)

SameKinds ==
  /\ outbox' \in [Ids -> Row]
  /\ \A c \in Ids :
       /\ outbox'[c].kind = outbox[c].kind
       /\ outbox'[c].attempts >= outbox[c].attempts
       /\ outbox'[c].state = "none" <=> outbox[c].state = "none"

(* A turn of the relay moves it on and keeps what it holds, unless its     *)
(* tick is over.                                                           *)
LEMMA TurnType ==
  ASSUME CommandInv, NEW g \in Gateways, NEW from, NEW to \in Turns, Turn(g, from, to)
  PROVE  /\ relay' \in [Gateways -> [at : Turns, rows : HeldRows]]
         /\ \A h \in Gateways \ {g} : relay'[h] = relay[h]
         /\ to # "idle" => relay'[g].at = to /\ relay'[g].rows = relay[g].rows
         /\ to = "idle" => relay'[g].at = "idle" /\ relay'[g].rows = <<>>
<1>1. IdleRelay \in [at : Turns, rows : HeldRows]
  <2>1. <<>> \in [{} -> Nat]
    OBVIOUS
  <2>2. QED
    BY <2>1 DEF IdleRelay, Turns, HeldRows
<1>2. relay \in [Gateways -> [at : Turns, rows : HeldRows]]
  BY DEF CommandInv
<1>3. QED
  BY <1>1, <1>2 DEF Turn, IdleRelay

(* What remains to show of a step of the gateway that sends nothing.       *)
LEMMA GatewayStep ==
  ASSUME CommandInv, SameKinds,
         UNCHANGED <<topic, executor, results, recorded, restarts>>,
         expired' \subseteq Ids, faults' \in 0..MaxFaults, faults <= faults',
         relay' \in [Gateways -> [at : Turns, rows : HeldRows]],
         \A h \in Gateways : relay'[h].rows = relay[h].rows \/ relay'[h].rows = <<>>,
         \A h \in Gateways : relay'[h].at = "marking" => relay[h].at = "marking",
         \A c \in Ids :
           /\ outbox'[c].state = "rejected" => outbox[c].kind = "broken"
           /\ outbox'[c].state = "published" =>
                Switches(c) /\ \E k \in DOMAIN topic : topic[k] = c
  PROVE  CommandInv'
<1> USE DEF CommandInv, NothingVanishes, executor
<1>1. \A h \in Gateways : Held(h)' \subseteq Held(h)
  BY DEF Held
<1>2. \A h \in Gateways : Held(h)' \subseteq Ids
  BY <1>1 DEF TypeOK
<1>3. \A h \in Gateways : \A c \in Held(h)' : relay'[h].rows[c] \in 1..outbox'[c].attempts
  <2> SUFFICES ASSUME NEW h \in Gateways, NEW c \in Held(h)'
               PROVE  relay'[h].rows[c] \in 1..outbox'[c].attempts
    OBVIOUS
  <2>1. relay'[h].rows = relay[h].rows
    BY DEF Held
  <2>2. relay[h].rows[c] \in 1..outbox[c].attempts /\ c \in Ids
    BY <1>1 DEF TypeOK
  <2>3. outbox[c].attempts \in Nat /\ outbox'[c].attempts \in Nat
    <3>1. outbox \in [Ids -> Row] /\ outbox' \in [Ids -> Row]
      BY DEF SameKinds, TypeOK
    <3>2. QED
      BY <2>2, <3>1 DEF Row
  <2>4. QED
    BY <2>1, <2>2, <2>3 DEF SameKinds
<1>4. TypeOK'
  <2>1. \A h \in Gateways : relay'[h].at \in Turns
    OBVIOUS
  <2>2. restarts' \in 0..MaxFaults /\ recorded' \in [Ids -> {"none", "applied", "expired"}]
    BY DEF TypeOK
  <2>3. /\ topic' \in Seq(Ids) /\ applied' \in Seq(Ids)
        /\ committed' \in 0..read' /\ read' \in 0..Len(topic')
        /\ line' \in {"enable", "disable"}
        /\ answers' \in Seq(AnswerMessage) /\ results' \in Seq(AnswerMessage)
    BY DEF TypeOK
  <2>4. QED
    BY <1>2, <1>3, <2>1, <2>2, <2>3 DEF TypeOK, SameKinds, Turns
<1>5. \A c \in Ids : Switches(c)' <=> Switches(c)
  BY DEF SameKinds, Switches
<1>6. \A c \in Ids : RowInv(c)'
  BY <1>5 DEF RowInv, SameKinds
<1>7. \A h \in Gateways : RelayInv(h)'
  <2> SUFFICES ASSUME NEW h \in Gateways PROVE RelayInv(h)'
    OBVIOUS
  <2>1. \A c \in Held(h)' : Issued(c)'
    BY <1>1, <1>2 DEF RelayInv, Issued, SameKinds
  <2>2. Sound(h)' \subseteq Sound(h)
    BY <1>1, <1>2 DEF Sound, Broken, SameKinds
  <2>3. QED
    BY <2>1, <2>2 DEF RelayInv
<1>8. WayInv'
  <2>1. /\ \A k \in DOMAIN topic : topic[k] \in Ids
        /\ \A k \in DOMAIN answers : answers[k].id \in Ids
        /\ \A k \in DOMAIN results : results[k].id \in Ids
    BY WayTyped
  <2>2. QED
    BY <1>5, <2>1 DEF WayInv
<1>9. PublishedIsInTopic'
  BY DEF PublishedIsInTopic
<1>10. restarts' <= faults'
  <2>1. restarts \in 0..MaxFaults /\ faults \in 0..MaxFaults /\ restarts <= faults
    BY DEF TypeOK
  <2>2. restarts' = restarts
    OBVIOUS
  <2>3. QED
    BY <2>1, <2>2
<1>11. QED
  BY <1>4, <1>6, <1>7, <1>8, <1>9, <1>10

(* markOutboxRejected and markOutboxPublished over rows that are held.      *)
LEMMA InStateKeeps ==
  ASSUME CommandInv, NEW g \in Gateways, NEW held \in SUBSET Held(g),
         NEW state \in {"published", "rejected"}, outbox' = InState(held, state)
  PROVE  /\ SameKinds
         /\ \A c \in Ids : outbox'[c].state = IF c \in held THEN state ELSE outbox[c].state
<1> USE DEF CommandInv, NothingVanishes
<1>1. outbox \in [Ids -> Row] /\ held \subseteq Ids
  BY DEF TypeOK
<1>2. \A c \in held : outbox[c].state # "none"
  BY DEF RelayInv, Issued
<1>3. \A c \in Ids : outbox[c].attempts \in Nat
  BY <1>1 DEF Row
<1>4. \A c \in Ids : outbox'[c] = IF c \in held THEN [outbox[c] EXCEPT !.state = state] ELSE outbox[c]
  BY <1>1 DEF InState
<1>5. outbox' \in [Ids -> Row]
  BY <1>1 DEF InState, Row
<1>6. QED
  BY <1>1, <1>2, <1>3, <1>4, <1>5 DEF SameKinds, Row

(* markOutboxFailed puts rows off and leaves them in the queue.             *)
LEMMA DeferredKeeps ==
  ASSUME CommandInv, NEW held, outbox' = Deferred(held)
  PROVE  SameKinds /\ \A c \in Ids : outbox'[c].state = outbox[c].state
<1>1. outbox \in [Ids -> Row]
  BY DEF CommandInv, NothingVanishes, TypeOK
<1>2. \A c \in Ids : outbox[c].attempts \in Nat
  BY <1>1 DEF Row
<1>3. \A c \in Ids : outbox'[c] = IF c \in held THEN [outbox[c] EXCEPT !.deferred = TRUE] ELSE outbox[c]
  BY <1>1 DEF Deferred
<1>4. outbox' \in [Ids -> Row]
  BY <1>1 DEF Deferred, Row
<1>5. QED
  BY <1>1, <1>2, <1>3, <1>4 DEF SameKinds, Row

(* What GatewayStep asks of the states holds where they do not change.      *)
LEMMA StatesStand ==
  ASSUME CommandInv, \A c \in Ids : outbox'[c].state = outbox[c].state
  PROVE  \A c \in Ids :
           /\ outbox'[c].state = "rejected" => outbox[c].kind = "broken"
           /\ outbox'[c].state = "published" =>
                Switches(c) /\ \E k \in DOMAIN topic : topic[k] = c
  BY DEF CommandInv, NothingVanishes, PublishedIsInTopic, RowInv

LEMMA SameRows ==
  ASSUME CommandInv, UNCHANGED outbox PROVE SameKinds
<1>1. outbox \in [Ids -> Row]
  BY DEF CommandInv, NothingVanishes, TypeOK
<1>2. QED
  BY <1>1 DEF SameKinds, Row

LEMMA FaultCounts ==
  ASSUME CommandInv, NEW kind, Fault(kind)
  PROVE  faults' \in 0..MaxFaults /\ faults <= faults' /\ faults' = faults + 1
  BY CountsTyped DEF Fault

LEMMA RejectStep ==
  ASSUME CommandInv, NEW g \in Gateways, Reject(g) PROVE CommandInv'
<1> USE DEF Reject
<1>1. /\ relay' \in [Gateways -> [at : Turns, rows : HeldRows]]
      /\ \A h \in Gateways \ {g} : relay'[h] = relay[h]
      /\ relay'[g].at = "putting off" /\ relay'[g].rows = relay[g].rows
  BY TurnType DEF Turns
<1>2. /\ SameKinds
      /\ \A c \in Ids : outbox'[c].state = IF c \in Exhausted(g) THEN "rejected" ELSE outbox[c].state
  BY InStateKeeps DEF Exhausted, Broken
<1>3. \A c \in Exhausted(g) : outbox[c].kind = "broken"
  BY DEF Exhausted, Broken
<1>4. expired' \subseteq Ids /\ faults' \in 0..MaxFaults /\ faults <= faults'
  BY CountsStand
<1>5. \A c \in Ids :
        /\ outbox'[c].state = "rejected" => outbox[c].kind = "broken"
        /\ outbox'[c].state = "published" => Switches(c) /\ \E k \in DOMAIN topic : topic[k] = c
  BY <1>2, <1>3 DEF CommandInv, NothingVanishes, PublishedIsInTopic, RowInv
<1>6. QED
  BY <1>1, <1>2, <1>4, <1>5, GatewayStep

LEMMA MarkStep ==
  ASSUME CommandInv, NEW g \in Gateways, Mark(g) PROVE CommandInv'
<1> USE DEF Mark
<1>1. /\ relay' \in [Gateways -> [at : Turns, rows : HeldRows]]
      /\ \A h \in Gateways \ {g} : relay'[h] = relay[h]
      /\ relay'[g].at = "idle" /\ relay'[g].rows = <<>>
  BY TurnType DEF Turns
<1>2. /\ SameKinds
      /\ \A c \in Ids : outbox'[c].state = IF c \in Sound(g) THEN "published" ELSE outbox[c].state
  BY InStateKeeps DEF Sound
<1>3. \A c \in Sound(g) : Switches(c) /\ \E k \in DOMAIN topic : topic[k] = c
  <2>1. relay[g].at = "marking"
    BY DEF Turn
  <2>2. \A c \in Sound(g) : c \in Held(g) /\ c \in Ids /\ outbox[c].kind # "broken" /\ Issued(c)
    BY DEF Sound, Broken, CommandInv, NothingVanishes, TypeOK, RelayInv
  <2>3. \A c \in Sound(g) : outbox[c].kind \in Kinds
    BY <2>2 DEF CommandInv, NothingVanishes, TypeOK, Row, RowInv, Issued
  <2>4. QED
    BY <2>1, <2>2, <2>3 DEF CommandInv, RelayInv, Switches
<1>4. expired' \subseteq Ids /\ faults' \in 0..MaxFaults /\ faults <= faults'
  BY CountsStand
<1>5. \A c \in Ids :
        /\ outbox'[c].state = "rejected" => outbox[c].kind = "broken"
        /\ outbox'[c].state = "published" => Switches(c) /\ \E k \in DOMAIN topic : topic[k] = c
  BY <1>2, <1>3 DEF CommandInv, NothingVanishes, PublishedIsInTopic, RowInv
<1>6. QED
  BY <1>1, <1>2, <1>4, <1>5, GatewayStep

LEMMA PutOffStep ==
  ASSUME CommandInv, NEW g \in Gateways, PutOff(g) \/ Defer(g) PROVE CommandInv'
<1> USE DEF PutOff, Defer
<1>1. PICK to \in {"idle", "sending"} :
        \/ Turn(g, "putting off", to)
        \/ Turn(g, "deferring", to)
  OBVIOUS
<1>2. /\ relay' \in [Gateways -> [at : Turns, rows : HeldRows]]
      /\ \A h \in Gateways \ {g} : relay'[h] = relay[h]
      /\ relay'[g].at = to /\ (relay'[g].rows = relay[g].rows \/ relay'[g].rows = <<>>)
  BY <1>1, TurnType DEF Turns
<1>3. SameKinds /\ \A c \in Ids : outbox'[c].state = outbox[c].state
  BY DeferredKeeps
<1>4. expired' \subseteq Ids /\ faults' \in 0..MaxFaults /\ faults <= faults'
  BY CountsStand
<1>5. QED
  BY <1>2, <1>3, <1>4, StatesStand, GatewayStep

LEMMA MarkFailsStep ==
  ASSUME CommandInv, NEW g \in Gateways, MarkFails(g) PROVE CommandInv'
<1> USE DEF MarkFails
<1>1. /\ relay' \in [Gateways -> [at : Turns, rows : HeldRows]]
      /\ \A h \in Gateways \ {g} : relay'[h] = relay[h]
      /\ relay'[g].at = "deferring" /\ relay'[g].rows = relay[g].rows
  BY TurnType DEF Turns
<1>2. expired' \subseteq Ids /\ faults' \in 0..MaxFaults /\ faults <= faults'
  BY CountsTyped, FaultCounts
<1>3. QED
  BY <1>1, <1>2, SameRows, StatesStand, GatewayStep

LEMMA GatewayDownStep ==
  ASSUME CommandInv, NEW g \in Gateways, GatewayDown(g) PROVE CommandInv'
<1> USE DEF GatewayDown
<1>1. /\ relay' \in [Gateways -> [at : Turns, rows : HeldRows]]
      /\ \A h \in Gateways \ {g} : relay'[h] = relay[h]
      /\ relay'[g].at = "idle" /\ relay'[g].rows = <<>>
  <2>1. <<>> \in [{} -> Nat]
    OBVIOUS
  <2>2. IdleRelay \in [at : Turns, rows : HeldRows]
    BY <2>1 DEF IdleRelay, Turns, HeldRows
  <2>3. relay \in [Gateways -> [at : Turns, rows : HeldRows]]
    BY DEF CommandInv
  <2>4. QED
    BY <2>2, <2>3 DEF IdleRelay
<1>2. expired' \subseteq Ids /\ faults' \in 0..MaxFaults /\ faults <= faults'
  BY CountsTyped, FaultCounts
<1>3. QED
  BY <1>1, <1>2, SameRows, StatesStand, GatewayStep

(* The clock: an attempt is due again, a command passes its time.           *)
LEMMA ClockStep ==
  ASSUME CommandInv, NEW c \in Ids, DelayOver(c) \/ Expire(c) PROVE CommandInv'
<1>1. relay' = relay /\ relay' \in [Gateways -> [at : Turns, rows : HeldRows]]
  BY DEF DelayOver, Expire, CommandInv
<1>2. SameKinds /\ \A d \in Ids : outbox'[d].state = outbox[d].state
  <2>1. CASE DelayOver(c)
    <3>1. outbox \in [Ids -> Row]
      BY DEF CommandInv, NothingVanishes, TypeOK
    <3>2. \A d \in Ids : outbox[d].attempts \in Nat
      BY <3>1 DEF Row
    <3>3. outbox' = [outbox EXCEPT ![c] = [outbox[c] EXCEPT !.deferred = FALSE]]
      BY <2>1, <3>1 DEF DelayOver
    <3>4. outbox' \in [Ids -> Row]
      BY <3>1, <3>3 DEF Row
    <3>5. QED
      BY <3>1, <3>2, <3>3, <3>4 DEF SameKinds, Row
  <2>2. CASE Expire(c)
    BY <2>2, SameRows DEF Expire
  <2>3. QED
    BY <2>1, <2>2
<1>3. expired' \subseteq Ids /\ faults' \in 0..MaxFaults /\ faults <= faults'
  BY CountsTyped, FaultCounts DEF DelayOver, Expire
<1>4. UNCHANGED <<topic, executor, results, recorded, restarts>>
  BY DEF DelayOver, Expire
<1>5. QED
  BY <1>1, <1>2, <1>3, <1>4, StatesStand, GatewayStep

(* claimOutbox: the rows taken have been issued, whoever else holds them.   *)
LEMMA ClaimStep ==
  ASSUME CommandInv, NEW g \in Gateways, Claim(g) PROVE CommandInv'
<1> USE DEF CommandInv, NothingVanishes
<1> DEFINE held == {c \in Due : Cardinality({d \in Due : d < c}) < Batch}
           taken == [c \in held |-> outbox[c].attempts + 1]
<1>1. held \subseteq Ids /\ \A c \in held : outbox[c].state = "waiting"
  BY DEF Due, Waiting
<1>2. outbox \in [Ids -> Row] /\ \A c \in Ids : outbox[c].attempts \in Nat
  BY DEF TypeOK, Row
<1>3. /\ outbox' = [c \in Ids |-> IF c \in held THEN [outbox[c] EXCEPT !.attempts = @ + 1] ELSE outbox[c]]
      /\ \E at \in {"rejecting", "sending"} : relay' = [relay EXCEPT ![g] = [at |-> at, rows |-> taken]]
  BY DEF Claim
<1> HIDE DEF held
<1>4. SameKinds /\ \A c \in Ids : outbox'[c].state = outbox[c].state
  <2>1. outbox' \in [Ids -> Row]
    BY <1>2, <1>3 DEF Row
  <2>2. QED
    BY <1>2, <1>3, <2>1 DEF SameKinds, Row
<1>5. taken \in [held -> Nat]
  BY <1>1, <1>2
<1>6. taken \in HeldRows
  BY <1>1, <1>5 DEF HeldRows
<1>7. PICK at \in {"rejecting", "sending"} : relay' = [relay EXCEPT ![g] = [at |-> at, rows |-> taken]]
  BY <1>3
<1>8. /\ relay' \in [Gateways -> [at : Turns, rows : HeldRows]]
      /\ \A h \in Gateways \ {g} : relay'[h] = relay[h]
      /\ relay'[g].at = at /\ relay'[g].rows = taken
  BY <1>6, <1>7 DEF Turns
<1>9. Held(g)' = held
  BY <1>5, <1>8 DEF Held
<1>10. UNCHANGED <<topic, executor, results, recorded, restarts, expired, faults>>
  BY DEF Claim
<1>11. \A h \in Gateways \ {g} : Held(h)' = Held(h) /\ Sound(h)' = Sound(h)
  <2> SUFFICES ASSUME NEW h \in Gateways \ {g} PROVE Held(h)' = Held(h) /\ Sound(h)' = Sound(h)
    OBVIOUS
  <2>1. Held(h)' = Held(h)
    BY <1>8 DEF Held
  <2>2. Held(h) \subseteq Ids
    BY DEF TypeOK
  <2>3. QED
    BY <1>4, <2>1, <2>2 DEF Sound, Broken, SameKinds
<1>12. TypeOK'
  <2>1. \A h \in Gateways : relay'[h].at \in Turns
    BY <1>8
  <2>2. \A h \in Gateways : Held(h)' \subseteq Ids
    BY <1>1, <1>9, <1>11 DEF TypeOK
  <2>3. ASSUME NEW h \in Gateways, NEW c \in Held(h)'
        PROVE  relay'[h].rows[c] \in 1..outbox'[c].attempts
    <3>1. CASE h = g
      BY <1>1, <1>2, <1>3, <1>8, <1>9, <3>1 DEF Row
    <3>2. CASE h # g
      <4>1. relay'[h].rows = relay[h].rows /\ c \in Held(h)
        BY <1>8, <1>11, <3>2
      <4>2. relay[h].rows[c] \in 1..outbox[c].attempts /\ c \in Ids
        BY <4>1 DEF TypeOK
      <4>3. outbox'[c].attempts \in Nat
        BY <1>4, <4>2 DEF SameKinds, Row
      <4>4. QED
        BY <1>2, <1>4, <4>1, <4>2, <4>3 DEF SameKinds
    <3>3. QED
      BY <3>1, <3>2
  <2>4. outbox' \in [Ids -> Row]
    BY <1>4 DEF SameKinds
  <2>5. /\ expired' \subseteq Ids /\ topic' \in Seq(Ids) /\ applied' \in Seq(Ids)
        /\ committed' \in 0..read' /\ read' \in 0..Len(topic') /\ line' \in {"enable", "disable"}
        /\ answers' \in Seq(AnswerMessage) /\ results' \in Seq(AnswerMessage)
        /\ recorded' \in [Ids -> {"none", "applied", "expired"}]
        /\ restarts' \in 0..MaxFaults /\ faults' \in 0..MaxFaults
    BY <1>10 DEF TypeOK, executor
  <2>6. QED
    BY <2>1, <2>2, <2>3, <2>4, <2>5 DEF TypeOK, Turns
<1>13. \A c \in Ids : (Switches(c)' <=> Switches(c)) /\ RowInv(c)'
  BY <1>4 DEF SameKinds, Switches, RowInv
<1>14. \A h \in Gateways : RelayInv(h)'
  <2>1. RelayInv(g)'
    BY <1>1, <1>4, <1>8, <1>9 DEF RelayInv, Issued
  <2>2. ASSUME NEW h \in Gateways \ {g} PROVE RelayInv(h)'
    <3>1. \A c \in Held(h) : c \in Ids /\ Issued(c)
      BY DEF RelayInv, TypeOK
    <3>2. QED
      BY <1>4, <1>8, <1>10, <1>11, <3>1 DEF RelayInv, Issued
  <2>3. QED
    BY <2>1, <2>2
<1>15. WayInv'
  <2>1. UNCHANGED <<topic, answers, results>>
    BY <1>10 DEF executor
  <2>2. QED
    BY <1>13, <2>1, WayTyped DEF WayInv
<1>16. PublishedIsInTopic' /\ restarts' <= faults'
  BY <1>4, <1>10 DEF PublishedIsInTopic
<1>17. QED
  BY <1>8, <1>12, <1>13, <1>14, <1>15, <1>16

(* POST /api/commands: a row that nobody holds and nobody sends.            *)
LEMMA IssueStep == CommandInv /\ Issue => CommandInv'
<1> SUFFICES ASSUME CommandInv, Issue PROVE CommandInv'
  OBVIOUS
<1> USE DEF CommandInv, NothingVanishes
<1>1. PICK c \in Ids, kind \in Kinds :
        /\ \A d \in Ids : (d < c) <=> (outbox[d].state # "none")
        /\ outbox' = [outbox EXCEPT ![c] =
                        [kind |-> kind, state |-> "waiting", attempts |-> 0, deferred |-> FALSE]]
  BY DEF Issue
<1>2. UNCHANGED <<expired, relay, topic, executor, results, recorded, restarts, faults>>
  BY DEF Issue
<1>3. outbox[c].state = "none"
  BY <1>1 DEF Ids
<1>4. outbox \in [Ids -> Row] /\ outbox' \in [Ids -> Row]
  BY <1>1 DEF TypeOK, Row
<1>5. \A d \in Ids \ {c} : outbox'[d] = outbox[d]
  BY <1>1, <1>4
<1>6. outbox'[c].state = "waiting" /\ outbox'[c].kind = kind
  BY <1>1, <1>4
<1>7. \A h \in Gateways : Held(h)' = Held(h) /\ c \notin Held(h) /\ Held(h) \subseteq Ids
  BY <1>2, <1>3 DEF Held, RelayInv, Issued, TypeOK
<1>8. \A h \in Gateways : Sound(h)' = Sound(h)
  BY <1>5, <1>7 DEF Sound, Broken
<1>9. \A d \in Ids : Switches(d) => Switches(d)' /\ d # c
  BY <1>3, <1>5 DEF Switches, RowInv
<1>10. TypeOK'
  <2>1. \A h \in Gateways : relay'[h].at \in Turns /\ Held(h)' \subseteq Ids
    BY <1>2, <1>7
  <2>2. \A h \in Gateways : \A d \in Held(h)' : relay'[h].rows[d] \in 1..outbox'[d].attempts
    BY <1>2, <1>5, <1>7 DEF TypeOK
  <2>3. /\ expired' \subseteq Ids /\ topic' \in Seq(Ids) /\ applied' \in Seq(Ids)
        /\ committed' \in 0..read' /\ read' \in 0..Len(topic') /\ line' \in {"enable", "disable"}
        /\ answers' \in Seq(AnswerMessage) /\ results' \in Seq(AnswerMessage)
        /\ recorded' \in [Ids -> {"none", "applied", "expired"}]
        /\ restarts' \in 0..MaxFaults /\ faults' \in 0..MaxFaults
    BY <1>2 DEF TypeOK, executor
  <2>4. QED
    BY <1>4, <2>1, <2>2, <2>3 DEF TypeOK, Turns
<1>11. \A d \in Ids : RowInv(d)'
  <2>1. kind # "none"
    OBVIOUS
  <2>2. \A d \in Ids \ {c} : RowInv(d)'
    BY <1>5 DEF RowInv, Switches
  <2>3. RowInv(c)'
    BY <1>6, <2>1 DEF RowInv
  <2>4. QED
    BY <2>2, <2>3
<1>12. \A h \in Gateways : RelayInv(h)'
  BY <1>2, <1>5, <1>7, <1>8 DEF RelayInv, Issued
<1>13. WayInv'
  BY <1>2, <1>9, WayTyped DEF WayInv, executor
<1>14. PublishedIsInTopic' /\ restarts' <= faults'
  BY <1>2, <1>5, <1>6 DEF PublishedIsInTopic
<1>15. QED
  BY <1>2, <1>10, <1>11, <1>12, <1>13, <1>14

(* The broker takes the rows a relay holds, or some failure leaves open     *)
(* whether it has: either way the topic has grown at its end by rows that   *)
(* switch a line.                                                           *)
LEMMA TopicStep ==
  ASSUME CommandInv, NEW g \in Gateways,
         topic' = topic \/ topic' \in Sent(g),
         relay' \in [Gateways -> [at : Turns, rows : HeldRows]],
         \A h \in Gateways : relay'[h].rows = relay[h].rows,
         \A h \in Gateways : relay'[h].at = "marking" =>
           relay[h].at = "marking" \/ (h = g /\ topic' \in Sent(g)),
         UNCHANGED <<outbox, expired, executor, results, recorded, restarts>>,
         faults' \in 0..MaxFaults, faults <= faults'
  PROVE  CommandInv'
<1> USE DEF CommandInv, NothingVanishes
<1>1. \A h \in Gateways : Held(h)' = Held(h) /\ Sound(h)' = Sound(h)
  BY DEF Held, Sound, Broken
<1>2. Sound(g) \in SUBSET Ids /\ \A c \in Sound(g) : Switches(c)
  <2>1. \A c \in Sound(g) : c \in Ids /\ outbox[c].kind # "broken" /\ Issued(c)
    BY DEF Sound, Broken, TypeOK, RelayInv
  <2>2. \A c \in Sound(g) : outbox[c].kind \in Kinds
    BY <2>1 DEF TypeOK, Row, RowInv, Issued
  <2>3. QED
    BY <2>1, <2>2 DEF Switches
<1>3. topic \in Seq(Ids)
  BY DEF TypeOK
<1>4. /\ topic' \in Seq(Ids) /\ Len(topic) <= Len(topic')
      /\ \A k \in DOMAIN topic : k \in DOMAIN topic' /\ topic'[k] = topic[k]
      /\ \A k \in DOMAIN topic' : Switches(topic'[k])
      /\ topic' \in Sent(g) => \A c \in Sound(g) : \E k \in DOMAIN topic' : topic'[k] = c
  <2>1. CASE topic' = topic /\ topic' \notin Sent(g)
    BY <1>3, <2>1 DEF WayInv
  <2>2. CASE topic' \in Sent(g)
    <3>1. PICK order \in SetToSeqs(Sound(g)) : topic' = topic \o order
      BY <2>2 DEF Sent
    <3>2. IsFiniteSet(Sound(g))
      BY <1>2, HeldIsFinite
    <3>3. order \in Seq(Sound(g)) /\ \A c \in Sound(g) : \E k \in 1..Len(order) : order[k] = c
      BY <3>1, <3>2, OrderCovers
    <3>4. order \in Seq(Ids) /\ \A k \in 1..Len(order) : order[k] \in Sound(g)
      BY <1>2, <3>3, SeqMonotonic, ElementOfSeq
    <3>5. /\ topic' \in Seq(Ids) /\ Len(topic') = Len(topic) + Len(order)
          /\ \A k \in 1..Len(topic) + Len(order) :
               topic'[k] = IF k <= Len(topic) THEN topic[k] ELSE order[k - Len(topic)]
      BY <1>3, <3>1, <3>4, ConcatProperties
    <3>6. /\ DOMAIN topic = 1..Len(topic) /\ Len(topic) \in Nat
          /\ DOMAIN topic' = 1..Len(topic') /\ Len(order) \in Nat
      BY <1>3, <3>4, <3>5, LenProperties
    <3>7. \A k \in DOMAIN topic : k \in DOMAIN topic' /\ topic'[k] = topic[k]
      BY <3>5, <3>6
    <3>8. \A k \in DOMAIN topic' : Switches(topic'[k])
      <4> SUFFICES ASSUME NEW k \in 1..Len(topic) + Len(order) PROVE Switches(topic'[k])
        BY <3>5, <3>6
      <4>1. CASE k <= Len(topic)
        BY <3>5, <3>6, <4>1 DEF WayInv
      <4>2. CASE ~(k <= Len(topic))
        <5>1. k - Len(topic) \in 1..Len(order)
          BY <3>6, <4>2
        <5>2. QED
          BY <1>2, <3>4, <3>5, <4>2, <5>1
      <4>3. QED
        BY <4>1, <4>2
    <3>9. \A c \in Sound(g) : \E k \in DOMAIN topic' : topic'[k] = c
      <4> SUFFICES ASSUME NEW c \in Sound(g) PROVE \E k \in DOMAIN topic' : topic'[k] = c
        OBVIOUS
      <4>1. PICK k \in 1..Len(order) : order[k] = c
        BY <3>3
      <4>2. /\ Len(topic) + k \in 1..Len(topic) + Len(order)
            /\ ~(Len(topic) + k <= Len(topic)) /\ Len(topic) + k - Len(topic) = k
        BY <3>6
      <4>3. topic'[Len(topic) + k] = c
        BY <3>5, <4>1, <4>2
      <4>4. QED
        BY <3>5, <3>6, <4>2, <4>3
    <3>10. QED
      BY <3>5, <3>6, <3>7, <3>8, <3>9
  <2>3. QED
    BY <2>1, <2>2
<1>5. TypeOK'
  <2>1. \A h \in Gateways : relay'[h].at \in Turns /\ Held(h)' \subseteq Ids
    BY <1>1 DEF TypeOK
  <2>2. \A h \in Gateways : \A d \in Held(h)' : relay'[h].rows[d] \in 1..outbox'[d].attempts
    BY <1>1 DEF TypeOK
  <2>3. /\ outbox' \in [Ids -> Row] /\ expired' \subseteq Ids /\ applied' \in Seq(Ids)
        /\ committed' \in 0..read' /\ line' \in {"enable", "disable"}
        /\ answers' \in Seq(AnswerMessage) /\ results' \in Seq(AnswerMessage)
        /\ recorded' \in [Ids -> {"none", "applied", "expired"}]
        /\ restarts' \in 0..MaxFaults
    BY DEF TypeOK, executor
  <2>4. read' \in 0..Len(topic')
    <3>1. read' = read /\ read \in 0..Len(topic)
      BY DEF TypeOK, executor
    <3>2. Len(topic) \in Nat /\ Len(topic') \in Nat
      BY <1>3, <1>4, LenProperties
    <3>3. QED
      BY <1>4, <3>1, <3>2
  <2>5. QED
    BY <1>4, <2>1, <2>2, <2>3, <2>4 DEF TypeOK, Turns
<1>6. \A c \in Ids : RowInv(c)'
  BY DEF RowInv, Switches
<1>7. \A h \in Gateways : RelayInv(h)'
  BY <1>1, <1>4 DEF RelayInv, Issued
<1>8. WayInv'
  BY <1>4 DEF WayInv, Switches, executor
<1>9. PublishedIsInTopic'
  BY <1>4 DEF PublishedIsInTopic
<1>10. restarts' <= faults'
  BY CountsTyped
<1>11. QED
  BY <1>5, <1>6, <1>7, <1>8, <1>9, <1>10

LEMMA SendStep ==
  ASSUME CommandInv, NEW g \in Gateways, Send(g) \/ SendFails(g) PROVE CommandInv'
<1>1. CASE Send(g)
  <2>1. /\ relay' \in [Gateways -> [at : Turns, rows : HeldRows]]
        /\ \A h \in Gateways \ {g} : relay'[h] = relay[h]
        /\ relay'[g].at = "marking" /\ relay'[g].rows = relay[g].rows
    BY <1>1, TurnType DEF Send, Turns
  <2>2. topic' \in Sent(g) /\ UNCHANGED <<outbox, expired, executor, results, recorded, restarts, faults>>
    BY <1>1 DEF Send
  <2>3. faults' \in 0..MaxFaults /\ faults <= faults'
    BY <2>2, CountsStand
  <2>4. QED
    BY <2>1, <2>2, <2>3, TopicStep
<1>2. CASE SendFails(g)
  <2>1. /\ relay' \in [Gateways -> [at : Turns, rows : HeldRows]]
        /\ \A h \in Gateways \ {g} : relay'[h] = relay[h]
        /\ relay'[g].at = "deferring" /\ relay'[g].rows = relay[g].rows
    BY <1>2, TurnType DEF SendFails, Turns
  <2>2. /\ topic' = topic \/ topic' \in Sent(g)
        /\ UNCHANGED <<outbox, expired, executor, results, recorded, restarts>>
    BY <1>2 DEF SendFails
  <2>3. faults' \in 0..MaxFaults /\ faults <= faults'
    BY <1>2, FaultCounts DEF SendFails
  <2>4. QED
    BY <2>1, <2>2, <2>3, TopicStep
<1>3. QED
  BY <1>1, <1>2

-------------------------------------------------------------------------------
(* Steps of the collector and of the processor.  They leave the outbox and  *)
(* the topic alone; what remains to show is about lines, answers and        *)
(* records.                                                                 *)
LEMMA ExecutorStep ==
  ASSUME CommandInv, UNCHANGED <<outbox, expired, relay, topic>>,
         committed' \in 0..read', read' \in 0..Len(topic), line' \in {"enable", "disable"},
         applied' \in Seq(Ids),
         answers' \in Seq(AnswerMessage), \A k \in DOMAIN answers' : Switches(answers'[k].id),
         results' \in Seq(AnswerMessage), \A k \in DOMAIN results' : Switches(results'[k].id),
         recorded' \in [Ids -> {"none", "applied", "expired"}],
         restarts' \in Nat, restarts' <= faults', faults' \in 0..MaxFaults
  PROVE  CommandInv'
<1> USE DEF CommandInv, NothingVanishes
<1>1. restarts' \in 0..MaxFaults
  OBVIOUS
<1>2. \A h \in Gateways : Held(h)' = Held(h) /\ Sound(h)' = Sound(h)
  BY DEF Held, Sound, Broken
<1>3. TypeOK'
  <2>1. outbox' \in [Ids -> Row] /\ expired' \subseteq Ids /\ topic' \in Seq(Ids)
    BY DEF TypeOK
  <2>2. \A h \in Gateways :
          /\ relay'[h].at \in Turns
          /\ Held(h)' \subseteq Ids
          /\ \A d \in Held(h)' : relay'[h].rows[d] \in 1..outbox'[d].attempts
    BY <1>2 DEF TypeOK
  <2>3. QED
    BY <1>1, <2>1, <2>2 DEF TypeOK, Turns
<1>4. \A c \in Ids : (Switches(c)' <=> Switches(c)) /\ RowInv(c)'
  BY DEF RowInv, Switches
<1>5. (\A h \in Gateways : RelayInv(h)') /\ PublishedIsInTopic'
  BY <1>2 DEF RelayInv, Issued, PublishedIsInTopic
<1>6. WayInv'
  BY DEF WayInv, Switches
<1>7. QED
  BY <1>3, <1>4, <1>5, <1>6

LEMMA ExecutorTyped ==
  ASSUME CommandInv
  PROVE  /\ topic \in Seq(Ids) /\ applied \in Seq(Ids)
         /\ committed \in 0..read /\ read \in 0..Len(topic) /\ Len(topic) \in Nat
         /\ line \in {"enable", "disable"}
         /\ answers \in Seq(AnswerMessage) /\ \A k \in DOMAIN answers : Switches(answers[k].id)
         /\ results \in Seq(AnswerMessage) /\ \A k \in DOMAIN results : Switches(results[k].id)
         /\ recorded \in [Ids -> {"none", "applied", "expired"}]
         /\ restarts \in Nat /\ restarts <= faults /\ faults \in 0..MaxFaults
  BY CountsTyped, LenProperties DEF CommandInv, NothingVanishes, TypeOK, WayInv

(* What is said of each answer of a queue holds when one joins it, leaves   *)
(* it at its head or is taken out of it.                                    *)
LEMMA QueueOfAnswers ==
  ASSUME NEW q \in Seq(AnswerMessage), \A k \in DOMAIN q : Switches(q[k].id)
  PROVE  /\ \A a \in AnswerMessage : Switches(a.id) =>
              /\ Append(q, a) \in Seq(AnswerMessage)
              /\ \A k \in DOMAIN Append(q, a) : Switches(Append(q, a)[k].id)
         /\ q # <<>> =>
              /\ Head(q) \in AnswerMessage /\ Switches(Head(q).id)
              /\ Tail(q) \in Seq(AnswerMessage)
              /\ \A k \in DOMAIN Tail(q) : Switches(Tail(q)[k].id)
         /\ \A j \in DOMAIN q :
              /\ RemoveAt(q, j) \in Seq(AnswerMessage)
              /\ \A k \in DOMAIN RemoveAt(q, j) : Switches(RemoveAt(q, j)[k].id)
<1> DEFINE Fit == {a \in AnswerMessage : Switches(a.id)}
<1>1. \A s \in Seq(AnswerMessage) : (\A k \in DOMAIN s : Switches(s[k].id)) => s \in Seq(Fit)
  <2> SUFFICES ASSUME NEW s \in Seq(AnswerMessage), \A k \in DOMAIN s : Switches(s[k].id)
               PROVE  s \in Seq(Fit)
    OBVIOUS
  <2>1. Len(s) \in Nat /\ DOMAIN s = 1..Len(s) /\ s \in [1..Len(s) -> AnswerMessage]
    BY LenProperties
  <2>2. s \in [1..Len(s) -> Fit]
    BY <2>1
  <2>3. QED
    BY <2>1, <2>2
<1>2. \A s \in Seq(Fit) : s \in Seq(AnswerMessage) /\ \A k \in DOMAIN s : Switches(s[k].id)
  <2> SUFFICES ASSUME NEW s \in Seq(Fit)
               PROVE  s \in Seq(AnswerMessage) /\ \A k \in DOMAIN s : Switches(s[k].id)
    OBVIOUS
  <2>1. Fit \subseteq AnswerMessage
    OBVIOUS
  <2>2. s \in Seq(AnswerMessage)
    BY <2>1, SeqMonotonic
  <2>3. \A k \in DOMAIN s : s[k] \in Fit
    OBVIOUS
  <2>4. QED
    BY <2>2, <2>3
<1>3. q \in Seq(Fit)
  BY <1>1
<1> HIDE DEF Fit
<1>4. \A a \in Fit : Append(q, a) \in Seq(Fit)
  BY <1>3
<1>5. q # <<>> => Head(q) \in Fit /\ Tail(q) \in Seq(Fit)
  BY <1>3, HeadTailProperties
<1>6. \A j \in DOMAIN q : RemoveAt(q, j) \in Seq(Fit)
  <2> SUFFICES ASSUME NEW j \in DOMAIN q PROVE RemoveAt(q, j) \in Seq(Fit)
    OBVIOUS
  <2>1. Len(q) \in Nat /\ j \in 1..Len(q) /\ \A k \in 1..Len(q) : q[k] \in Fit
    BY <1>3, LenProperties, ElementOfSeq
  <2>2. SubSeq(q, 1, j - 1) \in Seq(Fit)
    BY <2>1, SubSeqProperties
  <2>3. SubSeq(q, j + 1, Len(q)) \in Seq(Fit)
    BY <2>1, SubSeqProperties
  <2>4. QED
    BY <2>2, <2>3, ConcatProperties DEF RemoveAt
<1>7. \A a \in AnswerMessage : Switches(a.id) => a \in Fit
  BY DEF Fit
<1>8. \A a \in Fit : a \in AnswerMessage /\ Switches(a.id)
  BY DEF Fit
<1>9. QED
  BY <1>2, <1>4, <1>5, <1>6, <1>7, <1>8

LEMMA HandleStep == CommandInv /\ Handle => CommandInv'
<1> SUFFICES ASSUME CommandInv, Handle PROVE CommandInv'
  OBVIOUS
<1> DEFINE c == topic[read + 1]
<1>1. read + 1 \in DOMAIN topic /\ read' \in 0..Len(topic) /\ committed \in 0..read'
  BY ExecutorTyped DEF Handle
<1>2. c \in Ids /\ Switches(c)
  BY <1>1, ExecutorTyped DEF CommandInv, WayInv
<1>3. outbox[c].kind \in {"enable", "disable"}
  BY <1>2 DEF Switches
<1>4. /\ UNCHANGED <<outbox, expired, relay, topic, committed, results, recorded, restarts, faults>>
      /\ IF c \in expired
           THEN Answer(c, "expired") /\ UNCHANGED <<line, applied>>
           ELSE Switched(outbox[c].kind) /\ applied' = Append(applied, c) /\ Answer(c, "applied")
  BY DEF Handle
<1> HIDE DEF c
<1>5. applied' \in Seq(Ids) /\ line' \in {"enable", "disable"}
  <2>1. Append(applied, c) \in Seq(Ids)
    BY <1>2, ExecutorTyped
  <2>2. CASE c \in expired
    BY <1>4, <2>2, ExecutorTyped
  <2>3. CASE c \notin expired
    BY <1>3, <1>4, <2>1, <2>3 DEF Switched
  <2>4. QED
    BY <2>2, <2>3
<1>6. PICK status \in {"applied", "expired"} : answers' = Append(answers, [id |-> c, status |-> status])
  BY <1>4 DEF Answer
<1>7. [id |-> c, status |-> status] \in AnswerMessage
  BY <1>2 DEF AnswerMessage
<1>8. answers' \in Seq(AnswerMessage) /\ \A k \in DOMAIN answers' : Switches(answers'[k].id)
  BY <1>2, <1>6, <1>7, ExecutorTyped, QueueOfAnswers
<1>9. QED
  BY <1>1, <1>4, <1>5, <1>8, ExecutorTyped, ExecutorStep

LEMMA SendAnswerStep == CommandInv /\ SendAnswer => CommandInv'
<1> SUFFICES ASSUME CommandInv, SendAnswer PROVE CommandInv'
  OBVIOUS
<1>1. /\ answers # <<>> /\ answers' = Tail(answers) /\ results' = Append(results, Head(answers))
      /\ UNCHANGED <<outbox, expired, relay, topic, read, committed, line, applied, recorded,
                     restarts, faults>>
  BY DEF SendAnswer
<1>2. /\ Head(answers) \in AnswerMessage /\ Switches(Head(answers).id)
      /\ answers' \in Seq(AnswerMessage) /\ \A k \in DOMAIN answers' : Switches(answers'[k].id)
  BY <1>1, ExecutorTyped, QueueOfAnswers
<1>3. results' \in Seq(AnswerMessage) /\ \A k \in DOMAIN results' : Switches(results'[k].id)
  BY <1>1, <1>2, ExecutorTyped, QueueOfAnswers
<1>4. QED
  BY <1>1, <1>2, <1>3, ExecutorTyped, ExecutorStep

LEMMA CollectorDownStep == CommandInv /\ CollectorDown => CommandInv'
<1> SUFFICES ASSUME CommandInv, CollectorDown PROVE CommandInv'
  OBVIOUS
<1>1. PICK confirmed \in committed..read :
        /\ committed' = confirmed
        /\ read' = IF confirmed = 0 THEN Len(topic) ELSE confirmed
  BY DEF CollectorDown
<1>2. committed' \in 0..read' /\ read' \in 0..Len(topic)
  BY <1>1, ExecutorTyped
<1>3. /\ restarts' = restarts + 1 /\ answers' = <<>> /\ line' = "enable"
      /\ UNCHANGED <<outbox, expired, relay, topic, applied, results, recorded>>
      /\ Fault("collector")
  BY DEF CollectorDown
<1>4. answers' \in Seq(AnswerMessage) /\ DOMAIN answers' = {}
  BY <1>3
<1>5. faults' \in 0..MaxFaults /\ restarts' <= faults' /\ restarts' \in Nat
  BY <1>3, FaultCounts, CountsTyped
<1>6. QED
  BY <1>2, <1>3, <1>4, <1>5, ExecutorTyped, ExecutorStep

LEMMA RecordStep == CommandInv /\ (Record \/ RecordUnconfirmed) => CommandInv'
<1> SUFFICES ASSUME CommandInv, Record \/ RecordUnconfirmed PROVE CommandInv'
  OBVIOUS
<1>1. /\ results # <<>> /\ recorded' = Recorded(Head(results))
      /\ results' = Tail(results) \/ results' = results
      /\ UNCHANGED <<outbox, expired, relay, topic, executor, restarts>>
  BY DEF Record, RecordUnconfirmed
<1>2. /\ Head(results) \in AnswerMessage
      /\ Tail(results) \in Seq(AnswerMessage)
      /\ \A k \in DOMAIN Tail(results) : Switches(Tail(results)[k].id)
  BY <1>1, ExecutorTyped, QueueOfAnswers
<1>3. recorded' \in [Ids -> {"none", "applied", "expired"}]
  BY <1>1, <1>2, ExecutorTyped DEF Recorded, AnswerMessage
<1>4. faults' \in 0..MaxFaults /\ faults <= faults'
  BY FaultCounts, CountsStand DEF Record, RecordUnconfirmed
<1>5. restarts' <= faults'
  BY <1>1, <1>4, CountsTyped
<1>6. UNCHANGED <<committed, read, line, applied, answers>>
  BY <1>1 DEF executor
<1>7. results' \in Seq(AnswerMessage) /\ \A k \in DOMAIN results' : Switches(results'[k].id)
  BY <1>1, <1>2, ExecutorTyped
<1>8. QED
  BY <1>1, <1>3, <1>4, <1>5, <1>6, <1>7, ExecutorTyped, ExecutorStep

LEMMA CompactStep == CommandInv /\ Compact => CommandInv'
<1> SUFFICES ASSUME CommandInv, Compact PROVE CommandInv'
  OBVIOUS
<1>1. PICK j \in DOMAIN results : results' = RemoveAt(results, j)
  BY DEF Compact
<1>2. results' \in Seq(AnswerMessage) /\ \A k \in DOMAIN results' : Switches(results'[k].id)
  BY <1>1, ExecutorTyped, QueueOfAnswers
<1>3. UNCHANGED <<outbox, expired, relay, topic, executor, recorded, restarts>> /\ Fault("compaction")
  BY DEF Compact
<1>4. UNCHANGED <<committed, read, line, applied, answers>>
  BY <1>3 DEF executor
<1>5. faults' \in 0..MaxFaults /\ restarts' <= faults'
  BY <1>3, FaultCounts, CountsTyped
<1>6. QED
  BY <1>2, <1>3, <1>4, <1>5, ExecutorTyped, ExecutorStep

LEMMA CommandsStep == CommandInv /\ [Next]_vars => CommandInv'
<1> SUFFICES ASSUME CommandInv, [Next]_vars PROVE CommandInv'
  OBVIOUS
<1>1. CASE Issue
  BY <1>1, IssueStep
<1>2. CASE Handle
  BY <1>2, HandleStep
<1>3. CASE SendAnswer
  BY <1>3, SendAnswerStep
<1>4. CASE CollectorDown
  BY <1>4, CollectorDownStep
<1>5. CASE Record \/ RecordUnconfirmed
  BY <1>5, RecordStep
<1>6. CASE Compact
  BY <1>6, CompactStep
<1>7. ASSUME NEW g \in Gateways, Tick(g) \/ SendFails(g) \/ MarkFails(g) \/ GatewayDown(g)
      PROVE  CommandInv'
  BY <1>7, ClaimStep, RejectStep, PutOffStep, SendStep, MarkStep, MarkFailsStep, GatewayDownStep
     DEF Tick
<1>8. ASSUME NEW c \in Ids, DelayOver(c) \/ Expire(c) PROVE CommandInv'
  BY <1>8, ClockStep
<1>9. CASE UNCHANGED vars
  <2>1. UNCHANGED <<outbox, expired, relay, topic, committed, read, line, applied, answers, results,
                    recorded, restarts, faults>>
    BY <1>9 DEF vars, executor
  <2>2. QED
    BY <2>1, ExecutorTyped, ExecutorStep
<1>10. QED
  BY <1>1, <1>2, <1>3, <1>4, <1>5, <1>6, <1>7, <1>8, <1>9 DEF Next

(* Types, and PublishedIsInTopic: a row that any of the relays has marked   *)
(* as published is in the topic (markOutboxPublished comes after the send). *)
THEOREM NoCommandVanishes == Spec => []NothingVanishes
<1>1. CommandInv => NothingVanishes
  BY DEF CommandInv
<1>2. QED
  BY <1>1, CommandsInit, CommandsStep, PTL DEF Spec

-------------------------------------------------------------------------------
(* The refinement.  A step may move a row out of the queue, or record the   *)
(* first answer to a command that was sent.                                 *)

RowMoves(c) ==
  \/ outbox'[c].state = outbox[c].state
  \/ outbox[c].state = "none" /\ outbox'[c].state = "waiting"
  \/ outbox[c].state = "waiting" /\ outbox'[c].state \in {"published", "rejected"}

LEMMA RowsMove ==
  ASSUME CommandInv, [Next]_vars
  PROVE  \A c \in Ids : RowMoves(c)
<1> USE DEF CommandInv, NothingVanishes
<1>1. CASE Issue
  <2>1. PICK c \in Ids, kind \in Kinds :
          /\ \A d \in Ids : (d < c) <=> (outbox[d].state # "none")
          /\ outbox' = [outbox EXCEPT ![c] =
                          [kind |-> kind, state |-> "waiting", attempts |-> 0, deferred |-> FALSE]]
    BY <1>1 DEF Issue
  <2>2. outbox[c].state = "none"
    BY <2>1 DEF Ids
  <2>3. outbox \in [Ids -> Row]
    BY DEF TypeOK
  <2>4. QED
    BY <2>1, <2>2, <2>3 DEF RowMoves
<1>2. ASSUME NEW g \in Gateways, Reject(g) PROVE \A c \in Ids : RowMoves(c)
  <2>1. \A c \in Ids : outbox'[c].state = IF c \in Exhausted(g) THEN "rejected" ELSE outbox[c].state
    BY <1>2, InStateKeeps DEF Reject, Exhausted, Broken
  <2>2. \A c \in Exhausted(g) : outbox[c].kind = "broken"
    BY DEF Exhausted, Broken
  <2>3. \A c \in Ids : outbox[c].kind = "broken" => outbox[c].state \in {"waiting", "rejected"}
    BY DEF TypeOK, Row, RowInv, Switches
  <2>4. QED
    BY <2>1, <2>2, <2>3 DEF RowMoves
<1>3. ASSUME NEW g \in Gateways, Mark(g) PROVE \A c \in Ids : RowMoves(c)
  <2>1. \A c \in Ids : outbox'[c].state = IF c \in Sound(g) THEN "published" ELSE outbox[c].state
    BY <1>3, InStateKeeps DEF Mark, Sound
  <2>2. \A c \in Sound(g) : c \in Ids /\ outbox[c].kind # "broken" /\ outbox[c].state # "none"
    BY DEF Sound, Broken, RelayInv, Issued, TypeOK
  <2>3. \A c \in Sound(g) : outbox[c].state \in {"waiting", "published"}
    BY <2>2 DEF TypeOK, Row, RowInv
  <2>4. QED
    BY <2>1, <2>3 DEF RowMoves
<1>4. ASSUME NEW g \in Gateways, Claim(g) PROVE \A c \in Ids : RowMoves(c)
  <2>1. PICK held \in SUBSET Ids :
          outbox' = [c \in Ids |-> IF c \in held THEN [outbox[c] EXCEPT !.attempts = @ + 1] ELSE outbox[c]]
    BY <1>4 DEF Claim, Due, Waiting
  <2>2. outbox \in [Ids -> Row]
    BY DEF TypeOK
  <2>3. QED
    BY <2>1, <2>2 DEF RowMoves, Row
<1>5. ASSUME NEW g \in Gateways, PutOff(g) \/ Defer(g) PROVE \A c \in Ids : RowMoves(c)
  <2>1. PICK held : outbox' = Deferred(held)
    BY <1>5 DEF PutOff, Defer
  <2>2. QED
    BY <2>1, DeferredKeeps DEF RowMoves
<1>6. ASSUME NEW c \in Ids, DelayOver(c) PROVE \A d \in Ids : RowMoves(d)
  <2>1. outbox \in [Ids -> Row] /\ outbox' = [outbox EXCEPT ![c].deferred = FALSE]
    BY <1>6 DEF DelayOver, TypeOK
  <2>2. QED
    BY <2>1 DEF RowMoves, Row
<1>7. CASE UNCHANGED outbox
  BY <1>7 DEF RowMoves
<1>8. QED
  <2>1. CASE \/ Handle \/ SendAnswer \/ CollectorDown \/ Record \/ RecordUnconfirmed \/ Compact
             \/ UNCHANGED vars
    BY <1>7, <2>1 DEF Handle, SendAnswer, CollectorDown, Record, RecordUnconfirmed, Compact, vars
  <2>2. ASSUME NEW g \in Gateways, Send(g) \/ SendFails(g) \/ MarkFails(g) \/ GatewayDown(g)
        PROVE  \A c \in Ids : RowMoves(c)
    BY <1>7, <2>2 DEF Send, SendFails, MarkFails, GatewayDown
  <2>3. ASSUME NEW c \in Ids, Expire(c) PROVE \A d \in Ids : RowMoves(d)
    BY <1>7, <2>3 DEF Expire
  <2>4. QED
    BY <1>1, <1>2, <1>3, <1>4, <1>5, <1>6, <2>1, <2>2, <2>3 DEF Next, Tick

RecordMoves(c) ==
  \/ recorded'[c] = recorded[c]
  \/ /\ recorded[c] = "none" /\ recorded'[c] \in {"applied", "expired"}
     /\ Switches(c) /\ outbox'[c].state = outbox[c].state

LEMMA RecordsMove ==
  ASSUME CommandInv, [Next]_vars
  PROVE  \A c \in Ids : RecordMoves(c)
<1>1. CASE Record \/ RecordUnconfirmed
  <2>1. results # <<>> /\ recorded' = Recorded(Head(results)) /\ UNCHANGED outbox
    BY <1>1 DEF Record, RecordUnconfirmed
  <2>2. Head(results) \in AnswerMessage /\ Switches(Head(results).id)
    BY <2>1, ExecutorTyped, QueueOfAnswers
  <2>3. QED
    BY <2>1, <2>2, ExecutorTyped DEF RecordMoves, Recorded, AnswerMessage
<1>2. CASE UNCHANGED recorded
  BY <1>2 DEF RecordMoves
<1>3. QED
  <2>1. CASE Issue \/ Handle \/ SendAnswer \/ CollectorDown \/ Compact \/ UNCHANGED vars
    BY <1>2, <2>1 DEF Issue, Handle, SendAnswer, CollectorDown, Compact, vars
  <2>2. ASSUME NEW g \in Gateways, Tick(g) \/ SendFails(g) \/ MarkFails(g) \/ GatewayDown(g)
        PROVE  \A c \in Ids : RecordMoves(c)
    BY <1>2, <2>2
       DEF Tick, Claim, Reject, PutOff, Send, Mark, Defer, SendFails, MarkFails, GatewayDown
  <2>3. ASSUME NEW c \in Ids, DelayOver(c) \/ Expire(c) PROVE \A d \in Ids : RecordMoves(d)
    BY <1>2, <2>3 DEF DelayOver, Expire
  <2>4. QED
    BY <1>1, <2>1, <2>2, <2>3 DEF Next

(* loadCommandProgress: what a row and a record say together.               *)
LEMMA StageStep ==
  ASSUME CommandInv, CommandInv', [Next]_vars
  PROVE  [Progress!Next]_[c \in Ids |-> Stage(c)]
<1>1. ASSUME NEW c \in Ids
      PROVE  /\ Stage(c)' \in Progress!Stages
             /\ Stage(c)' = Stage(c) \/ Stage(c)' \in Progress!Follows(Stage(c))
  <2>1. /\ outbox[c].state \in {"none", "waiting", "published", "rejected"}
        /\ outbox'[c].state \in {"none", "waiting", "published", "rejected"}
        /\ recorded[c] \in {"none", "applied", "expired"}
        /\ recorded'[c] \in {"none", "applied", "expired"}
    BY DEF CommandInv, NothingVanishes, TypeOK, Row
  <2>2. RowMoves(c) /\ RecordMoves(c)
    BY RowsMove, RecordsMove
  <2>3. Switches(c) => outbox[c].state \in {"waiting", "published"}
    BY <2>1 DEF CommandInv, RowInv, Switches
  <2>4. CASE recorded[c] # "none"
    <3>1. recorded'[c] = recorded[c]
      BY <2>2, <2>4 DEF RecordMoves
    <3>2. QED
      BY <2>1, <2>4, <3>1 DEF Stage, Progress!Stages
  <2>5. CASE recorded[c] = "none" /\ recorded'[c] # "none"
    <3>1. recorded'[c] \in {"applied", "expired"} /\ outbox[c].state \in {"waiting", "published"}
      BY <2>2, <2>3, <2>5 DEF RecordMoves
    <3>2. Stage(c) \in {"queued", "sent"} /\ Stage(c)' \in {"applied", "expired"}
      BY <2>5, <3>1 DEF Stage
    <3>3. QED
      BY <3>2 DEF Progress!Stages, Progress!Follows
  <2>6. CASE recorded[c] = "none" /\ recorded'[c] = "none"
    <3>1. CASE outbox'[c].state = outbox[c].state
      BY <2>1, <2>6, <3>1 DEF Stage, Progress!Stages
    <3>2. CASE outbox[c].state = "none" /\ outbox'[c].state = "waiting"
      BY <2>6, <3>2 DEF Stage, Progress!Stages, Progress!Follows
    <3>3. CASE outbox[c].state = "waiting" /\ outbox'[c].state \in {"published", "rejected"}
      BY <2>6, <3>3 DEF Stage, Progress!Stages, Progress!Follows
    <3>4. QED
      BY <2>2, <3>1, <3>2, <3>3 DEF RowMoves
  <2>7. QED
    BY <2>4, <2>5, <2>6
<1>2. [c \in Ids |-> Stage(c)]' = [c \in Ids |-> Stage(c)']
  OBVIOUS
<1>3. QED
  BY <1>1, <1>2 DEF Progress!Next

(* GET /api/commands/:id: the stages of a command go forward only, whatever *)
(* is sent, applied or answered twice.                                      *)
THEOREM CommandsImplementProgress == Spec => StagesGoForward
<1>1. Init => Progress!Init
  BY DEF Init, NoRow, Stage, Progress!Init
<1>2. QED
  BY <1>1, CommandsInit, CommandsStep, StageStep, PTL DEF Spec, StagesGoForward, Progress!Spec

-------------------------------------------------------------------------------
(* Replay runs and the redrive.                                             *)
DP == INSTANCE DlqRedriveProofs WITH topic <- letters, faults <- failures, Faults <- LetterFaults,
                                     MaxFaults <- MaxFailures
RP == INSTANCE ReplayRunsProofs WITH faults <- mishaps, MaxFaults <- MaxMishaps

LEMMA LetterConstants == DP!DlqConstants
  BY RequestsAssumption DEF DP!DlqConstants

LEMMA RunConstants == RP!ReplayConstants
  BY RequestsAssumption DEF RP!ReplayConstants

-------------------------------------------------------------------------------
(* The actions of the redrive, as the run and as its proofs see them. *)
LEMMA DPHandle == D!Handle => DP!Handle
  BY DEF D!Handle, DP!Handle, D!HandleNext, DP!HandleNext, D!ClosedByCopy, DP!ClosedByCopy,
     D!RecordedFailure, DP!RecordedFailure, D!Waiting, DP!Waiting, D!HeldRows, DP!HeldRows,
     D!Open, DP!Open
LEMMA DPHandleUnconfirmed == D!HandleUnconfirmed => DP!HandleUnconfirmed
  BY DEF D!HandleUnconfirmed, DP!HandleUnconfirmed, D!Fault, DP!Fault, D!HandleNext,
     DP!HandleNext, D!ClosedByCopy, DP!ClosedByCopy, D!RecordedFailure, DP!RecordedFailure,
     D!Waiting, DP!Waiting, D!HeldRows, DP!HeldRows, D!Open, DP!Open
LEMMA DPAsk == D!Ask => DP!Ask
  BY DEF D!Ask, DP!Ask, D!Requests, DP!Requests
LEMMA DPRecover == ASSUME NEW i \in Instances, D!Recover(i) PROVE DP!Recover(i)
  BY DEF D!Recover, DP!Recover, D!Unstuck, DP!Unstuck, D!Requests, DP!Requests
LEMMA DPBegin == ASSUME NEW i \in Instances, D!Begin(i) PROVE DP!Begin(i)
  BY DEF D!Begin, DP!Begin, D!Requests, DP!Requests, D!Claimable, DP!Claimable, D!Selected,
     DP!Selected, D!Spent, DP!Spent, D!HeldRequests, DP!HeldRequests, D!Waiting, DP!Waiting,
     D!HeldRows, DP!HeldRows, D!Open, DP!Open,
     D!Cardinality, DP!Cardinality
LEMMA DPSend == ASSUME NEW i \in Instances, D!Send(i) PROVE DP!Send(i)
  BY DEF D!Send, DP!Send, D!Copies, DP!Copies, D!InOrder, DP!InOrder, D!SetToSeqs, DP!SetToSeqs,
     D!Cardinality, DP!Cardinality
LEMMA DPCommit == ASSUME NEW i \in Instances, D!Commit(i) PROVE DP!Commit(i)
  BY DEF D!Commit, DP!Commit, D!Committed, DP!Committed, D!NoTx, DP!NoTx, D!Rejected,
     DP!Rejected, D!Resolved, DP!Resolved, D!Waiting, DP!Waiting
LEMMA DPFail == ASSUME NEW i \in Instances, D!Fail(i) PROVE DP!Fail(i)
  BY DEF D!Fail, DP!Fail, D!HeldRequests, DP!HeldRequests, D!MayFinish, DP!MayFinish, D!NoTx,
     DP!NoTx, D!Open, DP!Open
LEMMA DPSendFails == ASSUME NEW i \in Instances, D!SendFails(i) PROVE DP!SendFails(i)
  BY DEF D!SendFails, DP!SendFails, D!Fault, DP!Fault, D!Copies, DP!Copies, D!FailsAfter,
     DP!FailsAfter, D!InOrder, DP!InOrder, D!SetToSeqs, DP!SetToSeqs,
     D!Cardinality, DP!Cardinality
LEMMA DPCommitFails == ASSUME NEW i \in Instances, D!CommitFails(i) PROVE DP!CommitFails(i)
  BY DEF D!CommitFails, DP!CommitFails, D!Fault, DP!Fault, D!FailsAfter, DP!FailsAfter
LEMMA DPCommitUnknown == ASSUME NEW i \in Instances, D!CommitUnknown(i) PROVE DP!CommitUnknown(i)
  BY DEF D!CommitUnknown, DP!CommitUnknown, D!Fault, DP!Fault, D!Committed, DP!Committed,
     D!FailsAfter, DP!FailsAfter, D!Rejected, DP!Rejected, D!Resolved, DP!Resolved, D!Waiting,
     DP!Waiting
LEMMA DPFailLost == ASSUME NEW i \in Instances, D!FailLost(i) PROVE DP!FailLost(i)
  BY DEF D!FailLost, DP!FailLost, D!Fault, DP!Fault, D!NoTx, DP!NoTx
LEMMA DPCrash == ASSUME NEW i \in Instances, D!Crash(i) PROVE DP!Crash(i)
  BY DEF D!Crash, DP!Crash, D!Fault, DP!Fault, D!NoTx, DP!NoTx

-------------------------------------------------------------------------------
(* The actions of a replay run. *)
LEMMA RPCreateRun == R!CreateRun => RP!CreateRun
  BY DEF R!CreateRun, RP!CreateRun, R!Runs, RP!Runs, R!Active, RP!Active
LEMMA RPExpireQueued == R!ExpireQueued => RP!ExpireQueued
  BY DEF R!ExpireQueued, RP!ExpireQueued, R!Runs, RP!Runs, R!Failed, RP!Failed
LEMMA RPTimePasses == R!TimePasses => RP!TimePasses
  BY DEF R!TimePasses, RP!TimePasses, R!Runs, RP!Runs, R!Performing, RP!Performing
LEMMA RPRecoverStale == ASSUME NEW i \in Instances, R!RecoverStale(i) PROVE RP!RecoverStale(i)
  BY DEF R!RecoverStale, RP!RecoverStale, R!Failed, RP!Failed, R!Stale, RP!Stale, R!GoTo,
     RP!GoTo, R!Fault, RP!Fault, R!Runs, RP!Runs
LEMMA RPReadKept == ASSUME NEW i \in Instances, R!ReadKept(i) PROVE RP!ReadKept(i)
  BY DEF R!ReadKept, RP!ReadKept, R!Runs, RP!Runs, R!Active, RP!Active, R!NoRun, RP!NoRun
LEMMA RPDropOrphanGroups == ASSUME NEW i \in Instances, R!DropOrphanGroups(i) PROVE RP!DropOrphanGroups(i)
  BY DEF R!DropOrphanGroups, RP!DropOrphanGroups, R!NoRun, RP!NoRun, R!Runs, RP!Runs, R!Fault,
     RP!Fault
LEMMA RPClaim == ASSUME NEW i \in Instances, R!Claim(i) PROVE RP!Claim(i)
  BY DEF R!Claim, RP!Claim, R!Runs, RP!Runs, R!GoTo, RP!GoTo, R!Claimed, RP!Claimed,
     R!NoExecution, RP!NoExecution, R!Fault, RP!Fault, R!NoRun, RP!NoRun
LEMMA RPPlan == ASSUME NEW i \in Instances, R!Plan(i) PROVE RP!Plan(i)
  BY DEF R!Plan, RP!Plan, R!Throw, RP!Throw, R!Fault, RP!Fault, R!GoTo, RP!GoTo
LEMMA RPNameGroup == ASSUME NEW i \in Instances, R!NameGroup(i) PROVE RP!NameGroup(i)
  BY DEF R!NameGroup, RP!NameGroup, R!Mine, RP!Mine, R!Beaten, RP!Beaten, R!Throw, RP!Throw,
     R!GoTo, RP!GoTo, R!Fault, RP!Fault, R!MineIn, RP!MineIn
LEMMA RPConnect == ASSUME NEW i \in Instances, R!Connect(i) PROVE RP!Connect(i)
  BY DEF R!Connect, RP!Connect, R!Fault, RP!Fault, R!Settle, RP!Settle
LEMMA RPWatch == ASSUME NEW i \in Instances, R!Watch(i) PROVE RP!Watch(i)
  BY DEF R!Watch, RP!Watch, R!Mine, RP!Mine, R!Beaten, RP!Beaten, R!MineIn, RP!MineIn
LEMMA RPJudge == ASSUME NEW i \in Instances, R!Judge(i) PROVE RP!Judge(i)
  BY DEF R!Judge, RP!Judge, R!GoTo, RP!GoTo
LEMMA RPFinish == ASSUME NEW i \in Instances, R!Finish(i) PROVE RP!Finish(i)
  BY DEF R!Finish, RP!Finish, R!Mine, RP!Mine, R!Pruned, RP!Pruned, R!Outcome, RP!Outcome,
     R!GoTo, RP!GoTo, R!Fault, RP!Fault, R!Throw, RP!Throw, R!MineIn, RP!MineIn, R!Runs, RP!Runs,
     R!NoRow, RP!NoRow, R!WithEpisodes, RP!WithEpisodes, R!NoOwner, RP!NoOwner,
     R!Cardinality, RP!Cardinality
LEMMA RPCatch == ASSUME NEW i \in Instances, R!Catch(i) PROVE RP!Catch(i)
  BY DEF R!Catch, RP!Catch
LEMMA RPWriteFailure == ASSUME NEW i \in Instances, R!WriteFailure(i) PROVE RP!WriteFailure(i)
  BY DEF R!WriteFailure, RP!WriteFailure, R!FailedBy, RP!FailedBy, R!Fault, RP!Fault, R!Mine,
     RP!Mine, R!Failed, RP!Failed, R!MineIn, RP!MineIn, R!Runs, RP!Runs
LEMMA RPFailureWritten == ASSUME NEW i \in Instances, R!FailureWritten(i) PROVE RP!FailureWritten(i)
  BY DEF R!FailureWritten, RP!FailureWritten, R!GoTo, RP!GoTo
LEMMA RPRelease == ASSUME NEW i \in Instances, R!Release(i) PROVE RP!Release(i)
  BY DEF R!Release, RP!Release, R!NoExecution, RP!NoExecution, R!NoRun, RP!NoRun
LEMMA RPRead == ASSUME NEW i \in Instances, R!Read(i) PROVE RP!Read(i)
  BY DEF R!Read, RP!Read
LEMMA RPReadFails == ASSUME NEW i \in Instances, R!ReadFails(i) PROVE RP!ReadFails(i)
  BY DEF R!ReadFails, RP!ReadFails, R!Fault, RP!Fault
LEMMA RPShutdown == ASSUME NEW i \in Instances, R!Shutdown(i) PROVE RP!Shutdown(i)
  BY DEF R!Shutdown, RP!Shutdown, R!Fault, RP!Fault, R!Performing, RP!Performing
LEMMA RPExit == ASSUME NEW i \in Instances, R!Exit(i) PROVE RP!Exit(i)
  BY DEF R!Exit, RP!Exit, R!GoTo, RP!GoTo
LEMMA RPCrash == ASSUME NEW i \in Instances, R!Crash(i) PROVE RP!Crash(i)
  BY DEF R!Crash, RP!Crash, R!Fault, RP!Fault, R!Idle, RP!Idle, R!NoRun, RP!NoRun, R!NoExecution,
     RP!NoExecution
LEMMA RPStart == ASSUME NEW i \in Instances, R!Start(i) PROVE RP!Start(i)
  BY DEF R!Start, RP!Start, R!Idle, RP!Idle, R!NoRun, RP!NoRun, R!NoExecution, RP!NoExecution

-------------------------------------------------------------------------------
(* A step of the whole is a step of the redrive or leaves it alone.         *)
LEMMA RedriveInside == [AskedNext]_asked => [DP!Next]_DP!vars
<1> SUFFICES ASSUME [AskedNext]_asked PROVE [DP!Next]_DP!vars
  OBVIOUS
<1>1. UNCHANGED redrive => UNCHANGED DP!vars
  BY DEF redrive, DP!vars
<1>2. ASSUME NEW i \in Instances, D!Tick(i) PROVE DP!Tick(i)
  BY <1>2, DPRecover, DPBegin, DPSend, DPCommit, DPFail DEF D!Tick, DP!Tick
<1>3. D!Next => DP!Next
  BY <1>2, DPHandle, DPHandleUnconfirmed, DPAsk, DPSendFails, DPCommitFails, DPCommitUnknown,
     DPFailLost, DPCrash DEF D!Next, DP!Next
<1>4. QED
  BY <1>1, <1>3 DEF AskedNext, asked, Command, Replay, Redrive

(* And likewise of the replay runs.                                         *)
LEMMA ReplayInside == [AskedNext]_asked => [RP!Next]_RP!vars
<1> SUFFICES ASSUME [AskedNext]_asked PROVE [RP!Next]_RP!vars
  OBVIOUS
<1>1. UNCHANGED replay => UNCHANGED RP!vars
  BY DEF replay, RP!vars
<1>2. ASSUME NEW i \in Instances, R!Tick(i) PROVE RP!Tick(i)
  BY <1>2, RPRecoverStale, RPReadKept, RPDropOrphanGroups, RPClaim DEF R!Tick, RP!Tick
<1>3. ASSUME NEW i \in Instances, R!Perform(i) PROVE RP!Perform(i)
  BY <1>3, RPPlan, RPNameGroup, RPConnect, RPWatch, RPJudge, RPFinish, RPCatch, RPWriteFailure,
     RPFailureWritten, RPRelease DEF R!Perform, RP!Perform
<1>4. ASSUME NEW r \in R!Runs, R!SessionEnds(r) PROVE r \in RP!Runs /\ RP!SessionEnds(r)
  BY <1>4 DEF R!Runs, RP!Runs, R!SessionEnds, RP!SessionEnds
<1>5. R!Next => RP!Next
  BY <1>2, <1>3, <1>4, RPCreateRun, RPExpireQueued, RPTimePasses, RPRead, RPReadFails, RPShutdown,
     RPExit, RPCrash, RPStart DEF R!Next, RP!Next
<1>6. QED
  BY <1>1, <1>5 DEF AskedNext, asked, Command, Replay, Redrive

LEMMA RedriveBegins == AskedInit => DP!LetterInv
<1>1. D!Init => DP!Init
  BY DEF D!Init, DP!Init, D!Requests, DP!Requests, D!NoTx, DP!NoTx
<1>2. QED
  BY <1>1, LetterConstants, DP!LettersInit DEF AskedInit

LEMMA ReplayBegins == AskedInit => RP!RunInv
<1>1. R!Init => RP!Init
  BY DEF R!Init, RP!Init, R!Runs, RP!Runs, R!NoRow, RP!NoRow, R!Idle, RP!Idle, R!NoRun, RP!NoRun,
     R!NoOwner, RP!NoOwner, R!NoExecution, RP!NoExecution
<1>2. QED
  BY <1>1, RunConstants, RP!RunsInit DEF AskedInit

LEMMA RedriveGoesOn == DP!LetterInv /\ [AskedNext]_asked => DP!LetterInv'
  BY RedriveInside, LetterConstants, DP!LettersStep

LEMMA ReplayGoesOn == RP!RunInv /\ [AskedNext]_asked => RP!RunInv'
  BY ReplayInside, RunConstants, RP!RunsStep

-------------------------------------------------------------------------------
(* A dead letter is never lost on its way through the queue and back: it    *)
(* waits in a row, is on its way as a copy, is refused for good or its     *)
(* readings are stored; its failures form one chain of rows (dlq.ts of the *)
(* store, dlq-redrive.service.ts).                                         *)
THEOREM AskedRowsAreKept == AskedSpec => []RowsAreKept
<1>1. DP!LetterInv => RowsAreKept
  <2>1. DP!LetterInv => DP!RowsAreKept
    BY LetterConstants, DP!LettersAreKept
  <2>2. DP!RowsAreKept => D!RowsAreKept
    BY DEF D!RowsAreKept, DP!RowsAreKept, D!TypeOK, DP!TypeOK, D!NothingLost, DP!NothingLost,
       D!ChainDoesNotBranch, DP!ChainDoesNotBranch, D!TopicMessage, DP!TopicMessage,
       D!TableRow, DP!TableRow, D!Requests, DP!Requests
  <2>3. QED
    BY <2>1, <2>2 DEF RowsAreKept
<1>2. QED
  BY <1>1, RedriveBegins, RedriveGoesOn, PTL DEF AskedSpec

(* A row of the dead letter queue is sent once, and once more for every     *)
(* failure on the way: two instances never send one row because they       *)
(* looked at the queue together (selectDlqForRedrive, SKIP LOCKED).        *)
THEOREM AskedSentOnce == AskedSpec => []SentOncePerFailure
<1>1. DP!LetterInv => SentOncePerFailure
  <2>1. DP!LetterInv => DP!SentOncePerFailure
    BY LetterConstants, DP!LettersSentOnce
  <2>2. DP!SentOncePerFailure => D!SentOncePerFailure
    BY DEF D!SentOncePerFailure, DP!SentOncePerFailure, D!Cardinality, DP!Cardinality
  <2>3. QED
    BY <2>1, <2>2 DEF SentOncePerFailure
<1>2. QED
  BY <1>1, RedriveBegins, RedriveGoesOn, PTL DEF AskedSpec

(* Whoever ends a replay run, what its row says is whole: a run in work has *)
(* an executor or is known to have lost it, a run that is done has read    *)
(* its window and carries its episodes, the newest runs are not pruned     *)
(* (replay-runner.service.ts, replay.ts of the store).                     *)
THEOREM AskedRunsAreWhole == AskedSpec => []RunsAreWhole
<1>1. RP!RunInv => RunsAreWhole
  <2>1. RP!RunInv => RP!RunsAreWhole
    BY RP!RunIsWhole
  <2>2. RP!RunsAreWhole => R!RunsAreWhole
    BY DEF R!RunsAreWhole, RP!RunsAreWhole, R!TypeOK, RP!TypeOK, R!RunHasExecutor, RP!RunHasExecutor,
       R!DoneIsWhole, RP!DoneIsWhole, R!RecentRunsKept, RP!RecentRunsKept, R!Runs, RP!Runs,
       R!NoRun, RP!NoRun, R!NoOwner, RP!NoOwner, R!Performing, RP!Performing,
       R!Cardinality, RP!Cardinality
  <2>3. QED
    BY <2>1, <2>2 DEF RunsAreWhole
<1>2. QED
  BY <1>1, ReplayBegins, ReplayGoesOn, PTL DEF AskedSpec

(* The outcome of a replay run and of a redrive is written once: neither a  *)
(* late instance nor a failure recorded after a rollback covers it         *)
(* (finishDlqRedrive and failReplayRun of the store).                      *)
THEOREM AskedOutcomesStand == AskedSpec => OutcomesStand
<1>1. RP!RunInv /\ [AskedNext]_asked =>
        [\A r \in R!Runs : R!Finished(r) => \/ row'[r] = row[r]
                                            \/ row'[r].status = "deleted"]_R!vars
  <2> SUFFICES ASSUME RP!RunInv, [AskedNext]_asked, NEW r \in R!Runs, R!Finished(r)
               PROVE  row'[r] = row[r] \/ row'[r].status = "deleted"
    OBVIOUS
  <2>1. r \in RP!Runs /\ RP!Finished(r)
    BY DEF R!Runs, RP!Runs, R!Finished, RP!Finished
  <2>2. RP!Stands(r)
    BY <2>1, ReplayInside, RunConstants, RP!RunOutcomeStep
  <2>3. QED
    BY <2>2 DEF RP!Stands
<1>2. DP!LetterInv /\ [AskedNext]_asked =>
        [\A q \in D!Requests : requests[q] \in {"done", "failed"} => requests'[q] = requests[q]]_D!vars
  <2> SUFFICES ASSUME DP!LetterInv, [AskedNext]_asked, NEW q \in D!Requests,
                      requests[q] \in {"done", "failed"}
               PROVE  requests'[q] = requests[q]
    OBVIOUS
  <2>1. q \in DP!Requests
    BY DEF D!Requests, DP!Requests
  <2>2. QED
    BY <2>1, RedriveInside, DP!OutcomeStep
<1>3. AskedSpec => R!OutcomeStands
  BY <1>1, ReplayBegins, ReplayGoesOn, PTL DEF AskedSpec, R!OutcomeStands
<1>4. AskedSpec => D!OutcomeStands
  BY <1>2, RedriveBegins, RedriveGoesOn, PTL DEF AskedSpec, D!OutcomeStands
<1>5. QED
  BY <1>3, <1>4 DEF OutcomesStand

===============================================================================
