------------------------------ MODULE MCRequests ------------------------------
(***************************************************************************)
(* What people ask for, on small instances: a command to a device, which   *)
(* goes through outbox and topic to the collector and back, the replay of  *)
(* a window and the redrive of dead letters, each a table of requests that *)
(* any instance may take up.  They share no state, so a behaviour is about *)
(* one of them, chosen at the start.                                       *)
(***************************************************************************)
EXTENDS Commands

CONSTANTS p1, p2, Instances, MaxRuns, MaxWindow, QueueTimeout, StaleAfter, TimeLimit, Kept,
  MaxMishaps, Messages, Limit, MaxRequests, LetterFaults, MaxFailures

ASSUME RequestsAssumption ==
  /\ {MaxRuns, MaxWindow, QueueTimeout, StaleAfter, TimeLimit, Kept, MaxMishaps} \subseteq Nat
  /\ {Messages, MaxRequests, MaxFailures} \subseteq Nat /\ FinalAttempts \in Nat \ {0}

VARIABLES part, row, group, proc, orphans, mishaps,
  letters, handled, rows, stored, requests, tx, recovered, failures

R == INSTANCE ReplayRuns WITH faults <- mishaps, MaxFaults <- MaxMishaps
D == INSTANCE DlqRedrive WITH topic <- letters, faults <- failures, Faults <- LetterFaults,
                              MaxFaults <- MaxFailures

replay == <<row, group, proc, orphans, mishaps>>
redrive == <<letters, handled, rows, stored, requests, tx, recovered, failures>>
asked == <<part, vars, replay, redrive>>

AskedInit ==
  /\ part \in {"command", "replay", "redrive"} /\ Init /\ R!Init /\ D!Init
  /\ part # "redrive" => \A q \in D!Requests : requests[q] = "none"

Command(A) == part = "command" /\ A /\ UNCHANGED <<part, replay, redrive>>
Replay(A) == part = "replay" /\ A /\ UNCHANGED <<part, vars, redrive>>
Redrive(A) == part = "redrive" /\ A /\ UNCHANGED <<part, vars, replay>>

AskedNext == Command(Next) \/ Replay(R!Next) \/ Redrive(D!Next)

(* The fairness of the modules: relays, consumers and timers go on, and    *)
(* every step of a run that has begun is taken.                            *)
AskedFair ==
  /\ \A g \in Gateways : WF_asked(Command(Tick(g)))
  /\ WF_asked(Command(\E c \in Ids : DelayOver(c)))
  /\ WF_asked(Command(Handle)) /\ WF_asked(Command(SendAnswer)) /\ WF_asked(Command(Record))
  /\ WF_asked(Replay(R!TimePasses)) /\ WF_asked(Replay(R!ExpireQueued))
  /\ WF_asked(Redrive(D!Handle))
  /\ \A i \in Instances :
       /\ WF_asked(Redrive(D!Tick(i)))
       /\ WF_asked(Replay(R!RecoverStale(i))) /\ WF_asked(Replay(R!ReadKept(i)))
       /\ WF_asked(Replay(R!DropOrphanGroups(i))) /\ WF_asked(Replay(R!Claim(i)))
       /\ WF_asked(Replay(R!Plan(i))) /\ WF_asked(Replay(R!NameGroup(i)))
       /\ WF_asked(Replay(R!Connect(i))) /\ WF_asked(Replay(R!Watch(i)))
       /\ WF_asked(Replay(R!Judge(i))) /\ WF_asked(Replay(R!Finish(i)))
       /\ WF_asked(Replay(R!Catch(i))) /\ WF_asked(Replay(R!WriteFailure(i)))
       /\ WF_asked(Replay(R!FailureWritten(i))) /\ WF_asked(Replay(R!Release(i)))
       /\ WF_asked(Replay(R!Start(i))) /\ WF_asked(Replay(R!Exit(i)))

AskedSpec == AskedInit /\ [][AskedNext]_asked /\ AskedFair

(* A run in work has somebody who works on it or will find it stale, and a *)
(* run that is done has its whole outcome.                                 *)
RunsAreWhole == R!RunsAreWhole

(* A dead letter is never lost, and its failures form one chain of rows.   *)
RowsAreKept == D!RowsAreKept

(* A row is sent once for every failure on the way, whatever two instances *)
(* see of the queue.                                                       *)
SentOncePerFailure == D!SentOncePerFailure

(* The outcome of a run and of a redrive is written once: neither a late   *)
(* instance nor a failure recorded after a rollback covers it.             *)
OutcomesStand == R!OutcomeStands /\ D!OutcomeStands

(* No request hangs: a command gets its answer, the stand is freed of      *)
(* runs, redrives finish.                                                  *)
RequestsEnd ==
  []<>CASE part = "command" -> \A c \in Ids : Settled(c)
        [] part = "replay" -> R!StandIsFree
        [] part = "redrive" -> D!NothingAsked
===============================================================================
