------------------------------ MODULE LineWorker ------------------------------
(***************************************************************************)
(* The worker of one RS-485 line of edge-collector: one endless sequential *)
(* cycle over the devices of the line, a watchdog that abandons a hung     *)
(* pass, and start and stop commands that may arrive at any await.         *)
(*                                                                         *)
(* Each start is a run with its own loop.  Time is abstract: a pause, a    *)
(* probe delay or the limit of the watchdog may have passed at any moment. *)
(*                                                                         *)
(* Sources: polling/line-worker.ts, polling/device-poll.ts,                *)
(* transport/modbus-link.ts and breaker/breaker.ts.                        *)
(***************************************************************************)
EXTENDS Integers, FiniteSets

CONSTANTS
  Devices,    \* slave addresses of the devices, polled in this order
  Blocks,     \* requests a device takes
  MaxRuns,    \* bound: starts
  MaxStops,   \* bound: stops
  MaxTrips    \* bound: trips of the watchdog

ASSUME LineAssumption ==
  /\ Devices \subseteq Nat /\ IsFiniteSet(Devices) /\ Devices # {}
  /\ Blocks \in Nat \ {0}
  /\ MaxRuns \in Nat /\ MaxStops \in Nat /\ MaxTrips \in Nat

Runs == 1..MaxRuns
Stops == 1..MaxStops

VARIABLES
  running,      \* the worker is switched on
  runId,        \* number of the last start
  loop,         \* the run whose promise `loop` holds, 0 if null
  stopping,     \* the stop whose promise `stopping` holds, 0 if null
  runs,         \* loops: state, and the stop each one waits for
  stops,        \* stops: state, and the loop each one waits for
  generation,   \* passes abandoned so far
  pass,         \* the pass of the run that is in a cycle
  abandoned,    \* passes the watchdog gave up, still going on
  client,       \* the connection the link uses, 0 if null
  sockets,      \* connections to the gateway that are open
  breaker,      \* breaker of every device
  status        \* the last snapshot published

lifecycle == <<running, runId, loop, stopping, stops>>
vars == <<lifecycle, runs, generation, pass, abandoned, client, sockets, breaker, status>>

-------------------------------------------------------------------------------
(* Breaker, read through breakerAllows: "open" until the time of the probe  *)
(* comes, then "probe"; "suspect" has one failure.                         *)
BreakerState == {"closed", "suspect", "open", "probe"}

Allows(b) == b # "open"

AfterFailure(b) == IF b = "closed" THEN "suspect" ELSE "open"

(* A connection gets a number that nobody holds any more.  A pass that was *)
(* given up holds two at most: the one it reads from and one it has opened *)
(* and that was replaced.                                                  *)
Connections == 1..2 * MaxTrips + 1

Pass == [gen: 0..MaxTrips, rest: SUBSET Devices, at: {"connecting", "reading"},
         block: 1..Blocks, conn: Connections \cup {0}]

NoPass == [gen |-> 0, rest |-> {}, at |-> "connecting", block |-> 1, conn |-> 0]

First(devices) == CHOOSE d \in devices : \A e \in devices : d <= e

IsOpen(c) == c \in sockets

(* Passes that have a request on the wire. *)
Live == abandoned \cup {pass[r] : r \in {s \in Runs : runs[s].state = "cycle"}}
OnTheWire == {p \in Live : p.at = "reading" /\ IsOpen(p.conn)}

Unused == CHOOSE c \in Connections : c \notin sockets /\ \A p \in Live : p.conn # c

(* The pass stands before the device First(rest): ensureLink goes on at    *)
(* once when the port is open; otherwise connect drops the old client.     *)
AtDevice(gen, rest, c, open) ==
  [gen |-> gen, rest |-> rest, at |-> IF open THEN "reading" ELSE "connecting",
   block |-> 1, conn |-> IF open THEN c ELSE 0]

-------------------------------------------------------------------------------
Init ==
  /\ running = FALSE /\ runId = 0 /\ loop = 0 /\ stopping = 0
  /\ runs = [r \in Runs |-> [state |-> "none", after |-> 0]]
  /\ stops = [k \in Stops |-> [state |-> "none", of |-> 0]]
  /\ generation = 0
  /\ pass = [r \in Runs |-> NoPass]
  /\ abandoned = {}
  /\ client = 0 /\ sockets = {}
  /\ breaker = [d \in Devices |-> "closed"]
  /\ status = [running |-> FALSE, outcome |-> "none"]

Published(outcome) == [running |-> running, outcome |-> outcome]

-------------------------------------------------------------------------------
(* Promises. *)

Ended(r) == r \in {0} \cup {s \in Runs : runs[s].state = "done"}

(* Mutant: only a new start ends the loop. *)
MayGoOnUntilRestart(r) == runId = r

(* A run goes on while the worker is on and nobody started it anew. *)
MayGoOn(r) == running /\ runId = r

(* The stop a run waits for is over, or its pause is. *)
Awake(r) ==
  \/ runs[r].state = "sleep"
  \/ /\ runs[r].state = "waiting"
     /\ runs[r].after \in {0} \cup {k \in Stops : stops[k].state = "done"}

(* A command comes from the network: the continuations of the promises     *)
(* settled before it, an aborted pause included, have run by then.         *)
NothingToContinue ==
  /\ \A k \in Stops : stops[k].state = "pending" => ~Ended(stops[k].of)
  /\ \A r \in Runs : Awake(r) => runs[r].state = "sleep" /\ MayGoOn(r)

-------------------------------------------------------------------------------
(* Commands. *)

(* Mutant: a start does not wait for the stop in progress. *)
StartAtOnce ==
  /\ NothingToContinue
  /\ ~running
  /\ runId < MaxRuns
  /\ running' = TRUE
  /\ runId' = runId + 1
  /\ loop' = runId'
  /\ runs' = [runs EXCEPT ![runId'] = [state |-> "waiting", after |-> 0]]
  /\ UNCHANGED <<stopping, stops, generation, pass, abandoned, client, sockets, breaker,
                 status>>

(* start: a new run, which waits for the stop in progress. *)
Start ==
  /\ NothingToContinue
  /\ ~running
  /\ runId < MaxRuns
  /\ running' = TRUE
  /\ runId' = runId + 1
  /\ loop' = runId'
  /\ runs' = [runs EXCEPT ![runId'] = [state |-> "waiting", after |-> stopping]]
  /\ UNCHANGED <<stopping, stops, generation, pass, abandoned, client, sockets, breaker,
                 status>>

(* stop: a second stop of a stopped worker joins the one in progress. *)
Stop ==
  /\ NothingToContinue
  /\ running \/ stopping = 0
  /\ \E k \in Stops :
       /\ stops[k].state = "none" /\ \A j \in 1..k - 1 : stops[j].state # "none"
       /\ stops' = [stops EXCEPT ![k] = [state |-> "pending", of |-> loop]]
       /\ stopping' = k
  /\ running' = FALSE
  /\ UNCHANGED <<runId, loop, runs, generation, pass, abandoned, client, sockets, breaker,
                 status>>

(* The rest of stop, after the loop it waits for has ended: the port is    *)
(* closed unless a new start has overtaken this stop.                      *)
StopEnds(k) ==
  /\ stops[k].state = "pending"
  /\ Ended(stops[k].of)
  /\ stops' = [stops EXCEPT ![k].state = "done"]
  /\ stopping' = 0
  /\ IF running
     THEN UNCHANGED <<loop, client, sockets, status>>
     ELSE /\ loop' = 0
          /\ client' = 0 /\ sockets' = sockets \ {client}
          /\ status' = Published(status.outcome)
  /\ UNCHANGED <<running, runId, runs, generation, pass, abandoned, breaker>>

-------------------------------------------------------------------------------
(* The loop of a run. *)

(* The next pass over the devices whose breaker allows it. *)
CycleStart(r) ==
  LET due == {d \in Devices : Allows(breaker[d])}
  IN /\ Awake(r)
     /\ MayGoOn(r)
     /\ due # {}
     /\ runs' = [runs EXCEPT ![r].state = "cycle"]
     /\ pass' = [pass EXCEPT ![r] = AtDevice(generation, due, client, IsOpen(client))]
     /\ client' = IF IsOpen(client) THEN client ELSE 0
     /\ status' = Published(status.outcome)
     /\ UNCHANGED <<lifecycle, generation, abandoned, sockets, breaker>>

(* No device is due: the worker sleeps until a probe. *)
CycleIdle(r) ==
  /\ Awake(r)
  /\ MayGoOn(r)
  /\ \A d \in Devices : ~Allows(breaker[d])
  /\ runs' = [runs EXCEPT ![r].state = "sleep"]
  /\ status' = Published("idle")
  /\ UNCHANGED <<lifecycle, generation, pass, abandoned, client, sockets, breaker>>

(* The worker was stopped or started anew meanwhile. *)
LoopEnds(r) ==
  /\ Awake(r)
  /\ ~MayGoOn(r)
  /\ runs' = [runs EXCEPT ![r].state = "done"]
  /\ UNCHANGED <<lifecycle, generation, pass, abandoned, client, sockets, breaker, status>>

(* The end of runCycle and of the turn of runLoop. *)
CycleEnds(r, outcome) ==
  /\ runs' = [runs EXCEPT ![r].state = IF MayGoOn(r) THEN "sleep" ELSE "done"]
  /\ pass' = [pass EXCEPT ![r] = NoPass]
  /\ status' = Published(outcome)

-------------------------------------------------------------------------------
(* A pass, of a run or abandoned.  Goes(p, q): p goes on as q; Leaves(p):  *)
(* p is over.                                                              *)

Goes(p, q) ==
  \/ /\ \E r \in Runs : /\ runs[r].state = "cycle" /\ pass[r] = p
                        /\ pass' = [pass EXCEPT ![r] = q]
     /\ UNCHANGED <<runs, abandoned, status>>
  \/ /\ p \in abandoned
     /\ abandoned' = (abandoned \ {p}) \cup {q}
     /\ UNCHANGED <<runs, pass, status>>

Leaves(p, outcome) ==
  \/ /\ \E r \in Runs : /\ runs[r].state = "cycle" /\ pass[r] = p
                        /\ CycleEnds(r, outcome)
     /\ UNCHANGED abandoned
  \/ /\ p \in abandoned
     /\ abandoned' = abandoned \ {p}
     /\ UNCHANGED <<runs, pass, status>>

(* connect succeeded: its client replaces whatever the link had, and the   *)
(* first request of the device leaves at once.                             *)
Connect(p) ==
  /\ p.at = "connecting"
  /\ client' = Unused
  /\ sockets' = sockets \cup {Unused}
  /\ Goes(p, [p EXCEPT !.at = "reading", !.conn = Unused])
  /\ UNCHANGED <<lifecycle, generation, breaker>>

(* The port is unreachable: a failure of the line, reported for the rest   *)
(* of the devices; the breakers are left alone.                            *)
ConnectFails(p) ==
  /\ p.at = "connecting"
  /\ Leaves(p, "disconnected")
  /\ UNCHANGED <<lifecycle, generation, client, sockets, breaker>>

(* A block arrived and there is another one: it goes to the client the     *)
(* link has now.                                                           *)
ReadBlock(p) ==
  /\ p.at = "reading" /\ IsOpen(p.conn)
  /\ p.block < Blocks
  /\ IsOpen(client)
  /\ Goes(p, [p EXCEPT !.block = @ + 1, !.conn = client])
  /\ UNCHANGED <<lifecycle, generation, client, sockets, breaker>>

(* Mutant: the poll of an abandoned pass counts. *)
DeviceDoneAnyway(p, ok, reconnect) ==
  LET d == First(p.rest)
      others == p.rest \ {d}
      open == IsOpen(client) /\ ~reconnect
  IN /\ breaker' = [breaker EXCEPT ![d] = IF ok THEN "closed" ELSE AfterFailure(@)]
     /\ sockets' = IF reconnect THEN sockets \ {client} ELSE sockets
     /\ client' = IF reconnect \/ (p.gen = generation /\ others # {} /\ ~open)
                  THEN 0 ELSE client
     /\ IF p.gen = generation /\ others # {}
        THEN Goes(p, AtDevice(p.gen, others, client, open))
        ELSE Leaves(p, "polled")
     /\ UNCHANGED <<lifecycle, generation>>

(* pollDevice returned.  An abandoned pass ends here; any other one counts *)
(* the poll, closes the port if the failure calls for it and turns to the  *)
(* next device.                                                            *)
DeviceDone(p, ok, reconnect) ==
  LET d == First(p.rest)
      others == p.rest \ {d}
      open == IsOpen(client) /\ ~reconnect
  IN IF p.gen # generation
     THEN /\ Leaves(p, "polled")
          /\ UNCHANGED <<lifecycle, generation, client, sockets, breaker>>
     ELSE /\ breaker' = [breaker EXCEPT ![d] = IF ok THEN "closed" ELSE AfterFailure(@)]
          /\ sockets' = IF reconnect THEN sockets \ {client} ELSE sockets
          /\ client' = IF reconnect \/ (others # {} /\ ~open) THEN 0 ELSE client
          /\ IF others = {}
             THEN Leaves(p, "polled")
             ELSE Goes(p, AtDevice(p.gen, others, client, open))
          /\ UNCHANGED <<lifecycle, generation>>

(* The last block arrived. *)
ReadDone(p) ==
  /\ p.at = "reading" /\ IsOpen(p.conn)
  /\ p.block = Blocks
  /\ DeviceDone(p, TRUE, FALSE)

(* The device did not answer, answered with an exception or a broken frame. *)
ReadFails(p) ==
  /\ p.at = "reading"
  /\ IsOpen(p.conn)
  /\ DeviceDone(p, FALSE, FALSE)

(* The connection is gone or the library hangs: disconnected or stalled.   *)
ReadBreaks(p) ==
  /\ p.at = "reading"
  /\ DeviceDone(p, FALSE, TRUE)

PassStep(p) ==
  \/ Connect(p) \/ ConnectFails(p)
  \/ ReadBlock(p) \/ ReadDone(p) \/ ReadFails(p) \/ ReadBreaks(p)

(* guardedCycle: the pass exceeded its limit, it is abandoned and the port *)
(* closed by force.                                                        *)
Watchdog(r) ==
  /\ runs[r].state = "cycle"
  /\ generation < MaxTrips
  /\ generation' = generation + 1
  /\ abandoned' = abandoned \cup {pass[r]}
  /\ client' = 0 /\ sockets' = sockets \ {client}
  /\ CycleEnds(r, "watchdog")
  /\ UNCHANGED <<lifecycle, breaker>>

-------------------------------------------------------------------------------
(* Surroundings. *)

(* The gateway closes the connection. *)
LinkDrops ==
  /\ IsOpen(client)
  /\ sockets' = sockets \ {client}
  /\ UNCHANGED <<lifecycle, runs, generation, pass, abandoned, client, breaker, status>>

(* The time of the probe has come: nextProbeAt. *)
ProbeDue(d) ==
  /\ breaker[d] = "open"
  /\ breaker' = [breaker EXCEPT ![d] = "probe"]
  /\ UNCHANGED <<lifecycle, runs, generation, pass, abandoned, client, sockets, status>>

-------------------------------------------------------------------------------
LoopStep(r) == CycleStart(r) \/ CycleIdle(r) \/ LoopEnds(r)

Next ==
  \/ Start \/ Stop \/ LinkDrops
  \/ \E k \in Stops : StopEnds(k)
  \/ \E r \in Runs : LoopStep(r) \/ Watchdog(r)
  \/ \E p \in Live : PassStep(p)
  \/ \E d \in Devices : ProbeDue(d)

Spec == Init /\ [][Next]_vars

(* Every wait of a pass is bounded by a hard timeout, pauses end, probe    *)
(* times come and promises are continued.  Commands need not come, the     *)
(* watchdog and the gateway need not act.                                  *)
Fairness ==
  /\ \A k \in Stops : WF_vars(StopEnds(k))
  /\ \A r \in Runs : WF_vars(LoopStep(r))
  /\ WF_vars(\E p \in Live : PassStep(p))
  /\ \A d \in Devices : WF_vars(ProbeDue(d))

FairSpec == Spec /\ Fairness

-------------------------------------------------------------------------------
(* Properties. *)

TypeOK ==
  /\ running \in BOOLEAN
  /\ runId \in 0..MaxRuns /\ loop \in 0..MaxRuns
  /\ stopping \in 0..MaxStops
  /\ runs \in [Runs -> [state: {"none", "waiting", "cycle", "sleep", "done"},
                        after: 0..MaxStops]]
  /\ stops \in [Stops -> [state: {"none", "pending", "done"}, of: 0..MaxRuns]]
  /\ generation \in 0..MaxTrips
  /\ pass \in [Runs -> Pass]
  /\ abandoned \subseteq Pass
  /\ client \in Connections \cup {0}
  /\ sockets \subseteq Connections
  /\ breaker \in [Devices -> BreakerState]
  /\ status \in [running: BOOLEAN,
                 outcome: {"none", "idle", "polled", "disconnected", "watchdog"}]

(* The bus carries one request at a time, whatever the order of starts,    *)
(* stops, failures and reconnections: "the only one that goes to its port" *)
(* of the comment on LineWorker.                                           *)
OnePoller == Cardinality(OnTheWire) <= 1

(* Two runs are never in a cycle at once, whatever starts and stops         *)
(* overlap: "one sequential cycle of polling per line" of ARCHITECTURE.md,  *)
(* passes abandoned by the watchdog apart.                                  *)
OneCycle ==
  \A r, s \in Runs : runs[r].state = "cycle" /\ runs[s].state = "cycle" => r = s

Settled == \A k \in Stops : stops[k].state # "pending"

(* A worker whose stop has ended runs no loop, and has its port closed as  *)
(* LinesService.disable promises but for the passes the watchdog gave up:  *)
(* link.close does not end a connect in progress, and such a pass opens    *)
(* the port of the stopped line again.  No more connections than trips.    *)
ClosedWhenStopped ==
  ~running /\ Settled =>
    /\ Cardinality(sockets) <= generation
    /\ \A r \in Runs : runs[r].state \in {"none", "done"}

(* The port of a cycle is closed only by its own pass, by the watchdog or  *)
(* by the gateway: a stop that a new start has overtaken leaves it alone.  *)
StopSparesCycle ==
  [][\A k \in Stops : StopEnds(k) =>
       client' = client \/ \A r \in Runs : runs[r].state # "cycle"]_vars

(* A pass the watchdog abandoned neither opens nor closes a breaker.       *)
AbandonedPassCountsNothing ==
  [][\A p \in abandoned : PassStep(p) /\ p \notin abandoned' => UNCHANGED breaker]_vars

(* A stop ends: no ring of stops and starts waits on itself.               *)
StopCompletes == []<>Settled

Polls(d) == \E r \in Runs : /\ runs[r].state = "cycle" /\ pass[r].at = "reading"
                            /\ First(pass[r].rest) = d

(* While the worker is on and the port is reachable every device is polled *)
(* again and again, one whose breaker is open included.                    *)
DevicePolled ==
  \A d \in Devices : []<>(Polls(d) \/ ~running \/ status.outcome = "disconnected")

(* Whatever start, stop and the watchdog do to each other, one cycle runs  *)
(* on the line; a stopped worker runs none, and keeps no connection but    *)
(* those of passes given up by the watchdog, one per trip at most.         *)
OneCycleOrNone == TypeOK /\ OneCycle /\ ClosedWhenStopped

(* What was overtaken touches nothing of what overtook it: neither a late  *)
(* stop the port of the new cycle, nor a late pass the breakers.           *)
LateStepsSpareTheCycle == StopSparesCycle /\ AbandonedPassCountsNothing
===============================================================================
