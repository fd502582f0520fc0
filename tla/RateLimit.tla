------------------------------- MODULE RateLimit -------------------------------
(***************************************************************************)
(* Attempts to log in and the buckets that limit them: takeToken and       *)
(* consumeRateLimit of packages/db/src/store/rate-limit.ts, login and rate *)
(* of api-gateway/src/auth/auth.service.ts.  Only failures are paid for:   *)
(* an attempt asks its buckets (cost 0), tries the password, and charges   *)
(* the buckets afterwards (cost 1), each in a transaction of its own that  *)
(* locks the row it finds.  A bucket nobody has used has no row to lock.   *)
(***************************************************************************)
EXTENDS Integers, Sequences, FiniteSets

CONSTANTS
  Emails, Address,  \* the buckets: one of each e-mail, one of an address
  EmailCapacity,    \* LOGIN_ATTEMPTS
  AddressCapacity,  \* LOGIN_IP_ATTEMPTS
  RefillMs,         \* LOGIN_REFILL_MS, in ticks
  MaxAttempts,      \* bound: attempts
  MaxTime           \* bound: ticks

VARIABLES
  bucket,    \* core.rate_limit
  now,       \* the clock of the gateway
  attempt,   \* the calls of login
  fullAt,    \* history: when each bucket will be full again by its failures
  torn,      \* history: buckets written by a look that was older than the row
  alone      \* history: attempts no other one of the same bucket overlapped

vars == <<bucket, now, attempt, fullAt, torn, alone>>

Attempts == 1..MaxAttempts
Buckets == Emails \cup {Address}
CapacityOf(b) == IF b = Address THEN AddressCapacity ELSE EmailCapacity

NoRow == [tokens |-> -1, refilledAt |-> 0]

Least(a, b) == IF a < b THEN a ELSE b
Most(a, b) == IF a > b THEN a ELSE b

(* Mutant: every question starts the wait for a token anew. *)
TakeTokenAnew(state, capacity, at, cost) ==
  LET waited == Most(0, at - state.refilledAt)
      available == IF state = NoRow THEN capacity ELSE Least(capacity, state.tokens + waited \div RefillMs)
  IN [allowed |-> available > 0,
      row |-> [tokens |-> Most(0, available - cost), refilledAt |-> at]]

(* takeToken: what the time has refilled, the answer, and the row with the *)
(* point of reference moved by whole tokens only.                          *)
TakeToken(state, capacity, at, cost) ==
  LET previous == IF state = NoRow THEN [tokens |-> capacity, refilledAt |-> at] ELSE state
      gained == Most(0, at - previous.refilledAt) \div RefillMs
      available == Least(capacity, previous.tokens + gained)
  IN [allowed |-> available > 0,
      row |-> [tokens |-> Most(0, available - cost),
               refilledAt |-> IF available >= capacity THEN at
                              ELSE previous.refilledAt + gained * RefillMs]]

-------------------------------------------------------------------------------
NoCall == [tx |-> "none", clock |-> 0, saw |-> NoRow]
NotBegun == [buckets |-> <<>>, at |-> "none", next |-> 1, wrong |-> FALSE, charged |-> {}, call |-> NoCall]

Init ==
  /\ bucket = [b \in Buckets |-> NoRow]
  /\ now = 0
  /\ attempt = [a \in Attempts |-> NotBegun]
  /\ fullAt = [b \in Buckets |-> 0] /\ torn = {}
  /\ alone = Attempts

Open(a) == attempt[a].at \in {"asking", "trying", "charging"}
Uses(a, b) == \E k \in DOMAIN attempt[a].buckets : attempt[a].buckets[k] = b
Goes(a) == attempt[a].buckets[attempt[a].next]

(* FOR UPDATE locks what it finds until the end of the transaction.        *)
Locks(a, b) == attempt[a].call.tx = "looked" /\ attempt[a].call.saw # NoRow /\ Goes(a) = b
Free(b) == \A a \in Attempts : ~Locks(a, b)

(* The bucket of the e-mail comes first, that of a known address second.   *)
Begin(a, e, known, wrong) ==
  /\ attempt[a].at = "none" /\ \A other \in 1..a - 1 : attempt[other].at # "none"
  /\ attempt' = [attempt EXCEPT ![a] =
       [buckets |-> IF known THEN <<e, Address>> ELSE <<e>>,
        at |-> "asking", next |-> 1, wrong |-> wrong, charged |-> {}, call |-> NoCall]]
  /\ alone' = alone \ (IF \E other \in Attempts : Open(other)
                       THEN {a} \cup {other \in Attempts : Open(other)} ELSE {})
  /\ UNCHANGED <<bucket, now, fullAt, torn>>

(* rate: a connection, and the clock before the transaction begins.        *)
Connect(a) ==
  /\ attempt[a].at \in {"asking", "charging"} /\ attempt[a].call.tx = "none"
  /\ attempt' = [attempt EXCEPT ![a].call = [tx |-> "begun", clock |-> now, saw |-> NoRow]]
  /\ UNCHANGED <<bucket, now, fullAt, torn, alone>>

(* The row is read; if it is locked, only after its transaction has ended. *)
Look(a) ==
  /\ attempt[a].call.tx = "begun" /\ Free(Goes(a))
  /\ attempt' = [attempt EXCEPT ![a].call =
       [tx |-> "looked", clock |-> attempt[a].call.clock, saw |-> bucket[Goes(a)]]]
  /\ UNCHANGED <<bucket, now, fullAt, torn, alone>>

(* Only a wrong password is paid for.                                      *)
Cost(a) == IF attempt[a].at = "charging" THEN 1 ELSE 0
Decision(a) == TakeToken(attempt[a].call.saw, CapacityOf(Goes(a)), attempt[a].call.clock, Cost(a))
Paid(a) == Cost(a) = 1 /\ Decision(a).allowed

(* What the decision on the last bucket, or on one before it, leads to.    *)
Answer(a) ==
  IF ~Decision(a).allowed THEN "tooMany"
  ELSE IF attempt[a].next < Len(attempt[a].buckets) THEN attempt[a].at
  ELSE IF attempt[a].at = "charging" THEN "unauthorized" ELSE "trying"

(* The row that was judged is written, whatever the answer is and whatever *)
(* stands there by now, and the transaction ends.                          *)
Commit(a, at) ==
  LET of == attempt[a]
      b == Goes(a)
  IN /\ of.call.tx = "looked" /\ (of.call.saw # NoRow \/ Free(b))
     /\ bucket' = [bucket EXCEPT ![b] = Decision(a).row]
     /\ fullAt' = [fullAt EXCEPT ![b] =
                     IF Paid(a) THEN Most(fullAt[b], of.call.clock) + RefillMs ELSE fullAt[b]]
     /\ torn' = IF of.call.saw # bucket[b] \/ of.call.clock < of.call.saw.refilledAt
                THEN torn \cup {b} ELSE torn
     /\ attempt' = [attempt EXCEPT ![a] =
          [of EXCEPT !.at = at, !.next = IF at = of.at THEN of.next + 1 ELSE 1, !.call = NoCall,
                     !.charged = IF Paid(a) THEN of.charged \cup {b} ELSE of.charged]]
     /\ UNCHANGED now

Write(a) == Commit(a, Answer(a)) /\ UNCHANGED alone

(* loadUserByEmail and verifyPassword. *)
Try(a) ==
  /\ attempt[a].at = "trying"
  /\ attempt' = [attempt EXCEPT ![a].at = IF attempt[a].wrong THEN "charging" ELSE "in"]
  /\ UNCHANGED <<bucket, now, fullAt, torn, alone>>

(* No connection, or the transaction is rolled back: 503.  A COMMIT whose  *)
(* answer is lost leaves what it wrote.                                    *)
Unavailable(a) ==
  /\ Open(a)
  /\ attempt' = [attempt EXCEPT ![a] = [attempt[a] EXCEPT !.at = "unavailable", !.call = NoCall]]
  /\ alone' = alone \ {a}
  /\ UNCHANGED <<bucket, now, fullAt, torn>>

CommitUnknown(a) == Commit(a, "unavailable") /\ alone' = alone \ {a}

Tick ==
  /\ now < MaxTime
  /\ now' = now + 1
  /\ UNCHANGED <<bucket, attempt, fullAt, torn, alone>>

Next ==
  \/ \E a \in Attempts :
       \/ \E e \in Emails, known, wrong \in BOOLEAN : Begin(a, e, known, wrong)
       \/ Connect(a) \/ Look(a) \/ Write(a) \/ Try(a) \/ Unavailable(a) \/ CommitUnknown(a)
  \/ Tick

Spec == Init /\ [][Next]_vars

-------------------------------------------------------------------------------
(* Properties. *)

TypeOK ==
  /\ \A b \in Buckets : bucket[b] = NoRow \/
       (bucket[b].tokens \in 0..CapacityOf(b) /\ bucket[b].refilledAt \in 0..now)
  /\ now \in 0..MaxTime
  /\ alone \subseteq Attempts

(* Failures that time has not forgiven yet. *)
Owed(b) == (Most(0, fullAt[b] - now) + RefillMs - 1) \div RefillMs
Remaining(b) == TakeToken(bucket[b], CapacityOf(b), now, 0).row.tokens

(* The tokens of a bucket are its capacity less the failures of the last   *)
(* time, one forgiven every RefillMs: neither the rounding, nor the reset  *)
(* at a full bucket, nor any number of questions moves the moment.  Nobody *)
(* is refused for more than the failures.  Fewer count only in a bucket    *)
(* that was written by a look older than its row, which takes two attempts *)
(* at once.                                                                *)
TokensAreFailures ==
  /\ \A b \in Buckets :
       /\ Remaining(b) >= CapacityOf(b) - Owed(b)
       /\ b \notin torn => Remaining(b) = CapacityOf(b) - Owed(b)
  /\ \A b \in torn : \E a \in Attempts \ alone : Uses(a, b)

(* A wrong password that no other attempt overlapped has been paid for in  *)
(* every bucket it used, and an attempt that is refused has not been tried:*)
(* only concurrent guesses share a token.                                  *)
LoneGuessIsPaid ==
  \A a \in alone :
    /\ attempt[a].at = "unauthorized" => \A b \in Buckets : Uses(a, b) => b \in attempt[a].charged
    /\ attempt[a].at = "tooMany" => attempt[a].charged = {}

(* Who is refused is refused for failures in a bucket of his own.          *)
LoginIsLimited ==
  /\ TypeOK /\ TokensAreFailures /\ LoneGuessIsPaid
  /\ \A a \in Attempts : attempt[a].at = "tooMany" =>
       \E b \in Buckets : Uses(a, b) /\ \E other \in Attempts : b \in attempt[other].charged
===============================================================================
