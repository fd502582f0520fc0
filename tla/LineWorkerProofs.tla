--------------------------- MODULE LineWorkerProofs ---------------------------
(***************************************************************************)
(* Proofs about the two ends of a line and the panel that breaks it, for   *)
(* any number of devices, starts, stops, trips of the watchdog, faults,    *)
(* sockets and calls.                                                      *)
(*                                                                         *)
(* The worker: runs go on strictly in their turn (TurnInv), no pass given  *)
(* up has the number of the present (Generations), and connections left    *)
(* behind are counted by the passes that were given up (WorkerInv), those  *)
(* of a stopped worker too (OffCounted).  The port: what is on its way and *)
(* what the client waits for are the same request (SimPortInv).  The       *)
(* panel: numbers of the faults put in tell what was read or done before   *)
(* what (PanelInv).                                                        *)
(***************************************************************************)
EXTENDS MCLineWorker, FiniteSetTheorems, SequenceTheorems, WellFoundedInduction, TLAPS

USE LineAssumption DEF LineAssumption, Runs, Stops

LifeTypes ==
  /\ running \in BOOLEAN
  /\ runId \in 0..MaxRuns /\ loop \in 0..MaxRuns /\ stopping \in 0..MaxStops
  /\ runs \in [Runs -> [state: {"none", "waiting", "cycle", "sleep", "done"}, after: 0..MaxStops]]
  /\ stops \in [Stops -> [state: {"none", "pending", "done"}, of: 0..MaxRuns]]

Unended(r) == runs[r].state \in {"waiting", "cycle", "sleep"}
Begun(r) == runs[r].state \in {"cycle", "sleep", "done"} \/ Awake(r)

Numbered == \A r \in Runs : r > runId <=> runs[r].state = "none"

(* A run begins when all before it have ended.                             *)
InTurn == \A r, s \in Runs : Begun(s) /\ r < s => runs[r].state = "done"

(* The stop that a run waits for is the one of the run before it.          *)
Waits ==
  /\ \A s \in Runs : runs[s].state = "waiting" /\ runs[s].after # 0 =>
       /\ stops[runs[s].after].of = s - 1
       /\ stops[runs[s].after].state # "none"
  /\ \A k \in Stops : stops[k].state = "done" => Ended(stops[k].of)

Switch ==
  /\ loop \in {0, runId} /\ (running => loop = runId /\ runId # 0)
  /\ stopping # 0 => /\ stops[stopping].state = "pending"
                     /\ ~running => stops[stopping].of \in {0, runId}

(* While a cycle that was told to end goes on, no stop can come to its end.*)
Overtaken ==
  \A r \in Runs : runs[r].state = "cycle" /\ ~MayGoOn(r) =>
    /\ \A k \in Stops : stops[k].state = "pending" => ~Ended(stops[k].of)
    /\ running \/ stopping # 0

(* Whoever was told to end has a stop that waits for it.                   *)
Awaited ==
  \A r \in Runs : Unended(r) /\ ~MayGoOn(r) =>
    \E k \in Stops : stops[k].state = "pending" /\ stops[k].of = r

TurnInv == LifeTypes /\ Numbered /\ InTurn /\ Waits /\ Switch /\ Overtaken /\ Awaited

-------------------------------------------------------------------------------
LEMMA Least ==
  ASSUME NEW S \in SUBSET Nat, S # {}
  PROVE  \E n \in S : \A m \in S : n <= m
<1> DEFINE R == {pair \in Nat \X Nat : pair[1] < pair[2]}
<1>1. R = OpToRel(<, Nat)
  BY DEF OpToRel
<1>2. IsWellFoundedOn(R, Nat)
  BY <1>1, NatLessThanWellFounded
<1> HIDE DEF R
<1>3. PICK n \in S : \A m \in S : ~(<<m, n>> \in R)
  BY <1>2, WFMin
<1>4. ASSUME NEW m \in S PROVE n <= m
  <2>1. ~(<<m, n>> \in R) /\ m \in Nat /\ n \in Nat
    BY <1>3
  <2> QED BY <2>1 DEF R
<1> QED BY <1>4

LEMMA TurnMeansOneCycle == TurnInv => OneCycle
BY DEF TurnInv, InTurn, Begun, OneCycle, LifeTypes

LEMMA EndedIs == ASSUME NEW r \in 0..MaxRuns
  PROVE Ended(r) <=> r = 0 \/ (r \in Runs /\ runs[r].state = "done")
BY DEF Ended

(* A worker that is off, with no stop to come and nothing to continue, has *)
(* no run: the first run not ended would wait for a stop that is over, or  *)
(* for one of a run that has ended.                                        *)
LEMMA NobodyRuns ==
  ASSUME TurnInv, NothingToContinue, ~running, stopping = 0
  PROVE  \A r \in Runs : ~Unended(r)
<1> SUFFICES ASSUME NEW some \in Runs, Unended(some) PROVE FALSE
  OBVIOUS
<1> DEFINE open == {r \in Runs : Unended(r)}
<1>1. PICK r \in open : \A s \in open : r <= s
  <2>1. open \in SUBSET Nat /\ open # {}
    OBVIOUS
  <2> HIDE DEF open
  <2> QED BY <2>1, Least
<1>2. r \in Runs /\ Unended(r) /\ \A s \in Runs : s < r => ~Unended(s)
  BY <1>1
<1>3. runs[r].state # "cycle"
  BY <1>2 DEF TurnInv, Overtaken, MayGoOn
<1>4. ~Awake(r)
  BY <1>2 DEF NothingToContinue, MayGoOn
<1>5. /\ runs[r].state = "waiting" /\ runs[r].after \in Stops /\ stops[runs[r].after].state # "done"
  BY <1>2, <1>3, <1>4 DEF Awake, Unended, TurnInv, LifeTypes
<1> DEFINE k == runs[r].after
<1>6. stops[k].of = r - 1 /\ stops[k].state = "pending"
  BY <1>2, <1>5 DEF TurnInv, Waits, LifeTypes
<1>7. r - 1 \in 0..MaxRuns /\ ~Ended(r - 1)
  BY <1>2, <1>5, <1>6 DEF NothingToContinue
<1>8. r - 1 \in Runs /\ runs[r - 1].state # "done"
  BY <1>7, EndedIs
<1>9. runs[r - 1].state # "none"
  BY <1>2, <1>8 DEF TurnInv, Numbered, LifeTypes, Unended
<1>10. Unended(r - 1)
  BY <1>8, <1>9 DEF TurnInv, LifeTypes, Unended
<1> QED BY <1>2, <1>8, <1>10

-------------------------------------------------------------------------------
LEMMA InitTurn == Init => TurnInv
<1> SUFFICES ASSUME Init PROVE TurnInv
  OBVIOUS
<1>1. LifeTypes /\ runId = 0
  <2>1. runs \in [Runs -> [state: {"none", "waiting", "cycle", "sleep", "done"}, after: 0..MaxStops]]
    BY DEF Init
  <2>2. stops \in [Stops -> [state: {"none", "pending", "done"}, of: 0..MaxRuns]]
    BY DEF Init
  <2>3. runId \in 0..MaxRuns /\ loop \in 0..MaxRuns /\ stopping \in 0..MaxStops /\ runId = 0
    <3>1. runId = 0 /\ loop = 0 /\ stopping = 0
      BY DEF Init
    <3> QED BY <3>1
  <2>4. running \in BOOLEAN
    BY DEF Init
  <2> QED BY ONLY <2>1, <2>2, <2>3, <2>4 DEF LifeTypes, Runs, Stops
<1>2. /\ \A r \in Runs : runs[r].state = "none"
      /\ \A k \in Stops : stops[k].state = "none"
  BY DEF Init
<1>3. \A r \in Runs : ~Begun(r) /\ ~Unended(r)
  BY <1>2 DEF Begun, Awake, Unended
<1> QED BY <1>1, <1>2, <1>3 DEF Init, TurnInv, Numbered, InTurn, Waits, Switch, Overtaken, Awaited

(* A run that has begun goes on or ends.                                   *)
LEMMA RunMoves ==
  ASSUME TurnInv, NEW r \in Runs, NEW next \in {"cycle", "sleep", "done"},
         Awake(r) \/ runs[r].state = "cycle", UNCHANGED lifecycle,
         runs' = [runs EXCEPT ![r].state = next],
         next = "done" <=> ~MayGoOn(r)
  PROVE  TurnInv'
<1>1. LifeTypes /\ Numbered /\ InTurn /\ Waits /\ Switch /\ Overtaken /\ Awaited
  BY DEF TurnInv
<1>2. UNCHANGED <<running, runId, loop, stopping, stops>>
  BY DEF lifecycle
<1>3. Unended(r) /\ Begun(r) /\ runs[r].state # "done"
  BY DEF Awake, Unended, Begun
<1>4. /\ \A s \in Runs : s # r => runs'[s] = runs[s]
      /\ runs'[r].state = next /\ runs'[r].after = runs[r].after
  BY <1>1 DEF LifeTypes
<1>5. LifeTypes'
  BY <1>1, <1>2 DEF LifeTypes
<1>6. Numbered'
  BY <1>1, <1>2, <1>3, <1>4 DEF Numbered, Unended
<1>7. \A s \in Runs : Begun(s)' => Begun(s)
  BY <1>2, <1>3, <1>4 DEF Begun, Awake
<1>8. InTurn'
  BY <1>1, <1>3, <1>4, <1>7 DEF InTurn
<1>9. \A s \in 0..MaxRuns : Ended(s) => Ended(s)'
  BY <1>3, <1>4 DEF Ended
<1>10. Waits'
  BY <1>1, <1>2, <1>4, <1>9 DEF Waits, LifeTypes
<1>11. Switch'
  BY <1>1, <1>2 DEF Switch
<1>12. Overtaken'
  <2> SUFFICES ASSUME NEW s \in Runs, runs'[s].state = "cycle", ~MayGoOn(s)' PROVE FALSE
    BY DEF Overtaken
  <2>1. s # r
    BY <1>2, <1>4 DEF MayGoOn
  <2>2. Begun(s) /\ runs[s].state # "done"
    BY <1>4, <2>1 DEF Begun
  <2> QED BY <1>1, <1>3, <2>1, <2>2 DEF InTurn
<1>13. Awaited'
  BY <1>1, <1>2, <1>4 DEF Awaited, Unended, MayGoOn
<1> QED BY <1>5, <1>6, <1>8, <1>10, <1>11, <1>12, <1>13 DEF TurnInv

LEMMA TurnUntouched ==
  ASSUME TurnInv, UNCHANGED lifecycle, UNCHANGED runs
  PROVE  TurnInv'
BY DEF TurnInv, lifecycle, LifeTypes, Numbered, InTurn, Begun, Awake, Waits, Switch, Overtaken, Awaited,
  Unended, MayGoOn, Ended

LEMMA StartTurn == ASSUME TurnInv, Start PROVE TurnInv'
<1> DEFINE new == runId + 1
<1>1. LifeTypes /\ Numbered /\ InTurn /\ Waits /\ Switch /\ Overtaken /\ Awaited
  BY DEF TurnInv
<1>2. new \in Runs /\ ~running /\ running' /\ runId' = new /\ loop' = new
      /\ UNCHANGED <<stopping, stops>> /\ NothingToContinue
  BY <1>1 DEF Start, LifeTypes
<1>3. /\ \A s \in Runs : s # new => runs'[s] = runs[s]
      /\ runs'[new] = [state |-> "waiting", after |-> stopping]
      /\ runs[new].state = "none"
  BY <1>1, <1>2 DEF Start, LifeTypes, Numbered
<1>4. LifeTypes'
  BY <1>1, <1>2 DEF Start, LifeTypes
<1>5. Numbered'
  BY <1>1, <1>2, <1>3 DEF Numbered, LifeTypes
<1>6. stopping # 0 => /\ stopping \in Stops /\ stops[stopping].state = "pending"
                      /\ stops[stopping].of = runId /\ ~Ended(runId)
  BY <1>1, <1>2, EndedIs DEF Switch, NothingToContinue, LifeTypes
<1>7. InTurn'
  <2> SUFFICES ASSUME NEW r \in Runs, NEW s \in Runs, Begun(s)', r < s PROVE runs'[r].state = "done"
    BY DEF InTurn
  <2>1. CASE s = new
    <3>1. stopping = 0
      BY <1>2, <1>3, <1>6, <2>1 DEF Begun, Awake
    <3>2. runs[r].state # "none" /\ r # new
      BY <1>1, <1>2, <2>1 DEF Numbered, LifeTypes
    <3> QED BY <1>1, <1>2, <1>3, <3>1, <3>2, NobodyRuns DEF Unended, LifeTypes
  <2>2. CASE s # new
    <3>1. Begun(s)
      BY <1>2, <1>3, <2>2 DEF Begun, Awake
    <3>2. runs[r].state = "done"
      BY <1>1, <3>1 DEF InTurn
    <3> QED BY <1>3, <3>2
  <2> QED BY <2>1, <2>2
<1>8. \A s \in 0..MaxRuns : Ended(s)' <=> Ended(s)
  BY <1>2, <1>3 DEF Ended
<1>9. Waits'
  <2>1. \A s \in Runs : runs'[s].state = "waiting" /\ runs'[s].after # 0 =>
          stops[runs'[s].after].of = s - 1 /\ stops[runs'[s].after].state # "none"
    <3> SUFFICES ASSUME NEW s \in Runs, runs'[s].state = "waiting", runs'[s].after # 0
                 PROVE  stops[runs'[s].after].of = s - 1 /\ stops[runs'[s].after].state # "none"
      OBVIOUS
    <3>1. CASE s = new
      BY <1>1, <1>3, <1>6, <3>1 DEF LifeTypes
    <3>2. CASE s # new
      BY <1>1, <1>3, <3>2 DEF Waits
    <3> QED BY <3>1, <3>2
  <2>2. \A k \in Stops : stops[k].state = "done" => Ended(stops[k].of)'
    <3> TAKE k \in Stops
    <3>1. stops[k].of \in 0..MaxRuns
      BY <1>1 DEF LifeTypes
    <3>2. Ended(stops[k].of)' <=> Ended(stops[k].of)
      BY <1>2, <1>3 DEF Ended
    <3> QED BY <1>1, <3>2 DEF Waits
  <2> QED BY <1>2, <2>1, <2>2 DEF Waits
<1>10. Switch'
  BY <1>1, <1>2, <1>6 DEF Switch, LifeTypes
<1>11. Overtaken'
  BY <1>1, <1>2, <1>8 DEF Overtaken, NothingToContinue, LifeTypes
<1>12. Awaited'
  BY <1>1, <1>2, <1>3 DEF Awaited, Unended, MayGoOn
<1> QED BY <1>4, <1>5, <1>7, <1>9, <1>10, <1>11, <1>12 DEF TurnInv

LEMMA StopTurn == ASSUME TurnInv, Stop PROVE TurnInv'
<1>1. LifeTypes /\ Numbered /\ InTurn /\ Waits /\ Switch /\ Overtaken /\ Awaited
  BY DEF TurnInv
<1>2. PICK k \in Stops : /\ stops[k].state = "none" /\ stopping' = k
                          /\ stops' = [stops EXCEPT ![k] = [state |-> "pending", of |-> loop]]
  BY DEF Stop
<1>3. NothingToContinue /\ (running \/ stopping = 0) /\ running' = FALSE
        /\ UNCHANGED <<runId, loop, runs>>
  BY DEF Stop
<1>4. /\ \A j \in Stops : j # k => stops'[j] = stops[j]
      /\ stops'[k] = [state |-> "pending", of |-> loop]
  BY <1>1, <1>2 DEF LifeTypes
<1>5. LifeTypes'
  <2>1. [state |-> "pending", of |-> loop] \in [state: {"none", "pending", "done"}, of: 0..MaxRuns]
    BY <1>1 DEF LifeTypes
  <2>2. stops' \in [Stops -> [state: {"none", "pending", "done"}, of: 0..MaxRuns]]
    BY <1>1, <1>2, <2>1 DEF LifeTypes
  <2>3. runId' \in 0..MaxRuns /\ loop' \in 0..MaxRuns /\ stopping' \in 0..MaxStops
    BY <1>1, <1>2, <1>3 DEF LifeTypes
  <2>4. runs' \in [Runs -> [state: {"none", "waiting", "cycle", "sleep", "done"}, after: 0..MaxStops]]
    BY <1>1, <1>3 DEF LifeTypes
  <2>5. running' \in BOOLEAN
    BY <1>3
  <2> QED BY ONLY <2>2, <2>3, <2>4, <2>5 DEF LifeTypes, Runs, Stops
<1>6. Numbered'
  BY <1>1, <1>3 DEF Numbered
<1>7. InTurn'
  <2>1. \A s \in Runs : Begun(s)' => Begun(s)
    BY <1>2, <1>3, <1>4 DEF Begun, Awake
  <2> QED BY <1>1, <1>3, <2>1 DEF InTurn
<1>8. \A s : Ended(s)' <=> Ended(s)
  BY <1>3 DEF Ended
<1>9. Waits'
  BY <1>1, <1>2, <1>3, <1>4, <1>8 DEF Waits, LifeTypes
<1>10. Switch'
  BY <1>1, <1>2, <1>3, <1>4 DEF Switch
<1>11. Overtaken'
  <2> SUFFICES ASSUME NEW r \in Runs, runs[r].state = "cycle" PROVE ~Ended(loop)
    BY <1>2, <1>3, <1>4, <1>8 DEF Overtaken, NothingToContinue
  <2>1. running
    BY <1>1, <1>3 DEF Overtaken, MayGoOn
  <2>2. loop = runId /\ runId \in Runs /\ r <= runId
    BY <1>1, <2>1 DEF Switch, LifeTypes, Numbered
  <2>3. runs[runId].state # "done"
    BY <1>1, <2>2 DEF InTurn, Begun
  <2> QED BY <2>2, <2>3, EndedIs
<1>12. Awaited'
  <2> SUFFICES ASSUME NEW r \in Runs, Unended(r)
               PROVE  \E j \in Stops : stops'[j].state = "pending" /\ stops'[j].of = r
    BY <1>3 DEF Awaited, Unended
  <2>1. CASE MayGoOn(r)
    BY <1>1, <1>4, <2>1 DEF MayGoOn, Switch
  <2>2. CASE ~MayGoOn(r)
    BY <1>1, <1>2, <1>4, <2>2 DEF Awaited
  <2> QED BY <2>1, <2>2
<1> QED BY <1>5, <1>6, <1>7, <1>9, <1>10, <1>11, <1>12 DEF TurnInv

LEMMA StopEndsTurn == ASSUME TurnInv, NEW k \in Stops, StopEnds(k) PROVE TurnInv'
<1>1. LifeTypes /\ Numbered /\ InTurn /\ Waits /\ Switch /\ Overtaken /\ Awaited
  BY DEF TurnInv
<1>2. /\ stops[k].state = "pending" /\ Ended(stops[k].of) /\ stopping' = 0
      /\ stops' = [stops EXCEPT ![k].state = "done"] /\ UNCHANGED <<running, runId, runs>>
      /\ loop' = IF running THEN loop ELSE 0
  BY DEF StopEnds
<1>3. /\ \A j \in Stops : j # k => stops'[j] = stops[j]
      /\ stops'[k].state = "done" /\ stops'[k].of = stops[k].of /\ stops[k].of \in 0..MaxRuns
  BY <1>1, <1>2 DEF LifeTypes
<1>4. LifeTypes'
  BY <1>1, <1>2 DEF LifeTypes
<1>5. Numbered'
  BY <1>1, <1>2 DEF Numbered
<1>6. \A s : Ended(s)' <=> Ended(s)
  BY <1>2 DEF Ended
<1>7. InTurn'
  <2> SUFFICES ASSUME NEW r \in Runs, NEW s \in Runs, Begun(s)', r < s PROVE runs[r].state = "done"
    BY <1>2 DEF InTurn
  <2>1. CASE Begun(s)
    BY <1>1, <2>1 DEF InTurn
  <2>2. CASE ~Begun(s)
    <3>1. runs[s].state = "waiting" /\ runs[s].after = k
      BY <1>2, <1>3, <2>2 DEF Begun, Awake
    <3>2. Ended(s - 1) /\ s - 1 \in 0..MaxRuns
      BY <1>1, <1>2, <3>1 DEF Waits
    <3>3. s - 1 \in Runs /\ runs[s - 1].state = "done"
      BY <3>2, EndedIs
    <3> QED BY <1>1, <3>3 DEF InTurn, Begun
  <2> QED BY <2>1, <2>2
<1>8. Waits'
  BY <1>1, <1>2, <1>3, <1>6 DEF Waits, LifeTypes
<1>9. Switch'
  BY <1>1, <1>2 DEF Switch
<1>10. Overtaken'
  BY <1>1, <1>2 DEF Overtaken, MayGoOn
<1>11. Awaited'
  <2> SUFFICES ASSUME NEW r \in Runs, Unended(r), ~MayGoOn(r)
               PROVE  \E j \in Stops : stops'[j].state = "pending" /\ stops'[j].of = r
    BY <1>2 DEF Awaited, Unended, MayGoOn
  <2>1. PICK j \in Stops : stops[j].state = "pending" /\ stops[j].of = r
    BY <1>1 DEF Awaited
  <2>2. j # k
    BY <1>2, <2>1, EndedIs DEF Unended
  <2> QED BY <1>3, <2>1, <2>2
<1> QED BY <1>4, <1>5, <1>7, <1>8, <1>9, <1>10, <1>11 DEF TurnInv

-------------------------------------------------------------------------------
(* Passes.                                                                 *)

IsPass(p) == /\ p = [gen |-> p.gen, rest |-> p.rest, at |-> p.at, block |-> p.block, conn |-> p.conn]
             /\ p.gen \in Nat

(* The watchdog counts the passes it gives up: none of them has the number *)
(* of the present.                                                         *)
Generations ==
  /\ generation \in Nat
  /\ pass = [r \in Runs |-> pass[r]]
  /\ \A r \in Runs : IsPass(pass[r]) /\ pass[r].gen <= generation
  /\ \A p \in abandoned : IsPass(p) /\ p.gen < generation

LineInv == TurnInv /\ Generations

CycleOf(p) == {r \in Runs : runs[r].state = "cycle" /\ pass[r] = p}

LEMMA InitPasses == Init => Generations
BY DEF Init, Generations, IsPass, NoPass

LEMMA AtDeviceIs ==
  ASSUME NEW gen \in Nat, NEW rest, NEW c, NEW open \in BOOLEAN
  PROVE  /\ IsPass(AtDevice(gen, rest, c, open)) /\ AtDevice(gen, rest, c, open).gen = gen
         /\ AtDevice(gen, rest, c, open).at = "connecting" <=> ~open
BY DEF AtDevice, IsPass

LEMMA PassMade ==
  ASSUME NEW rest, NEW at, NEW block, NEW conn,
         NEW p \in [gen: Nat, rest: {rest}, at: {at}, block: {block}, conn: {conn}]
  PROVE  IsPass(p) /\ p.at = at
BY DEF IsPass

LEMMA LivePasses ==
  ASSUME LineInv, NEW p \in Live
  PROVE  IsPass(p) /\ p.gen <= generation /\ (p \in abandoned => p.gen < generation)
BY DEF LineInv, Generations, Live, IsPass

(* While somebody is in a cycle the worker is on, or a stop is pending.    *)
LEMMA CycleIsAwaited ==
  ASSUME TurnInv, NEW r \in Runs, Unended(r)
  PROVE  running \/ ~Settled
BY DEF TurnInv, Awaited, MayGoOn, Settled

(* A pass that goes on or ends, with what it did to the port.              *)
LEMMA GoesOn ==
  ASSUME LineInv, NEW p \in Live, NEW q, Goes(p, q), UNCHANGED <<lifecycle, generation>>,
         IsPass(q), q.gen = p.gen
  PROVE  LineInv'
<1>1. TurnInv /\ Generations
  BY DEF LineInv
<1>2. IsPass(p) /\ p.gen <= generation /\ (p \in abandoned => p.gen < generation)
  BY LivePasses
<1>3. runs' = runs /\ generation' = generation /\ UNCHANGED <<running, stops>>
  BY DEF Goes, lifecycle
<1>4. TurnInv'
  BY <1>1, <1>3, TurnUntouched
<1>5. Generations'
  BY <1>1, <1>2, <1>3 DEF Goes, Generations, IsPass
<1> QED BY <1>4, <1>5 DEF LineInv

LEMMA CycleOver ==
  ASSUME LineInv, NEW r \in Runs, runs[r].state = "cycle", NEW how, CycleEnds(r, how),
         UNCHANGED lifecycle
  PROVE  TurnInv'
<1>1. PICK next \in {"sleep", "done"} : next = IF MayGoOn(r) THEN "sleep" ELSE "done"
  OBVIOUS
<1>2. runs' = [runs EXCEPT ![r].state = next] /\ (next = "done" <=> ~MayGoOn(r))
  BY <1>1 DEF CycleEnds
<1> QED BY <1>1, <1>2, RunMoves DEF LineInv

LEMMA LeavesLine ==
  ASSUME LineInv, NEW p \in Live, NEW how, Leaves(p, how), UNCHANGED <<lifecycle, generation>>
  PROVE  LineInv'
<1>1. TurnInv /\ Generations
  BY DEF LineInv
<1>2. TurnInv'
  <2>1. CASE p \in abandoned /\ UNCHANGED runs
    BY <1>1, <2>1, TurnUntouched
  <2>2. CASE \E r \in Runs : runs[r].state = "cycle" /\ CycleEnds(r, how)
    BY <2>2, CycleOver
  <2> QED BY <2>1, <2>2 DEF Leaves
<1>3. Generations'
  <2>1. IsPass(NoPass) /\ NoPass.gen = 0
    BY DEF IsPass, NoPass
  <2>2. CASE UNCHANGED pass /\ abandoned' = abandoned \ {p}
    BY <1>1, <2>2 DEF Generations, IsPass
  <2>3. CASE UNCHANGED abandoned /\ \E r \in Runs : pass' = [pass EXCEPT ![r] = NoPass]
    <3>1. PICK r \in Runs : pass' = [pass EXCEPT ![r] = NoPass]
      BY <2>3
    <3>2. \A s \in Runs : pass'[s] = IF s = r THEN NoPass ELSE pass[s]
      BY <1>1, <3>1 DEF Generations
    <3>3. pass' = [s \in Runs |-> pass'[s]]
      BY <1>1, <3>1 DEF Generations
    <3> QED BY <1>1, <2>1, <2>3, <3>2, <3>3 DEF Generations, IsPass
  <2> QED BY <2>2, <2>3 DEF Leaves, CycleEnds
<1> QED BY <1>2, <1>3 DEF LineInv

-------------------------------------------------------------------------------
LEMMA ConnectLine == ASSUME LineInv, NEW p \in Live, Connect(p) PROVE LineInv'
<1> DEFINE q == [p EXCEPT !.at = "reading", !.conn = Unused]
<1>1. IsPass(p)
  BY LivePasses
<1>2. IsPass(q) /\ q.gen = p.gen /\ q.at = "reading"
  <2>1. p \in [gen: Nat, rest: {p.rest}, at: {p.at}, block: {p.block}, conn: {p.conn}]
    BY <1>1 DEF IsPass
  <2>2. q \in [gen: Nat, rest: {p.rest}, at: {"reading"}, block: {p.block}, conn: {Unused}]
          /\ q.gen = p.gen
    BY ONLY <2>1
  <2> HIDE DEF q
  <2> QED BY <2>2, PassMade
<1>3. Goes(p, q) /\ UNCHANGED <<lifecycle, generation>>
  BY DEF Connect
<1> HIDE DEF q
<1> QED BY <1>2, <1>3, GoesOn

LEMMA DoneLine ==
  ASSUME LineInv, NEW p \in Live, NEW ok \in BOOLEAN, NEW reconnect \in BOOLEAN, p.at = "reading",
         DeviceDone(p, ok, reconnect)
  PROVE  LineInv'
<1> DEFINE others == p.rest \ {First(p.rest)}
           open == IsOpen(client) /\ ~reconnect
           q == AtDevice(p.gen, others, client, open)
<1>1. IsPass(p) /\ p.gen \in Nat
  BY LivePasses DEF IsPass
<1>2. UNCHANGED <<lifecycle, generation>>
  BY DEF DeviceDone
<1>3. open \in BOOLEAN
  BY DEF IsOpen
<1>4. CASE p.gen # generation
  BY <1>1, <1>2, <1>4, LeavesLine DEF DeviceDone
<1>5. CASE p.gen = generation /\ others = {}
  BY <1>2, <1>5, LeavesLine DEF DeviceDone
<1>6. CASE p.gen = generation /\ others # {}
  <2>1. Goes(p, q)
    BY <1>6 DEF DeviceDone
  <2>2. IsPass(q) /\ q.gen = p.gen
    <3> HIDE DEF open, others
    <3> QED BY <1>1, <1>3, AtDeviceIs
  <2> HIDE DEF q
  <2> QED BY <1>2, <2>1, <2>2, GoesOn
<1> QED BY <1>4, <1>5, <1>6

LEMMA PassLine == ASSUME LineInv, NEW p \in Live, PassStep(p) PROVE LineInv'
<1>0. IsPass(p)
  BY LivePasses
<1>1. CASE Connect(p)
  BY <1>1, ConnectLine
<1>2. CASE ConnectFails(p)
  BY <1>0, <1>2, LeavesLine DEF ConnectFails
<1>3. CASE ReadBlock(p)
  <2> DEFINE q == [p EXCEPT !.block = @ + 1, !.conn = client]
  <2>1. IsPass(q) /\ q.gen = p.gen /\ q.at = "reading"
    <3>1. p.at = "reading"
      BY <1>3 DEF ReadBlock
    <3>2. p \in [gen: Nat, rest: {p.rest}, at: {p.at}, block: {p.block}, conn: {p.conn}]
      BY <1>0 DEF IsPass
    <3>3. q \in [gen: Nat, rest: {p.rest}, at: {p.at}, block: {p.block + 1}, conn: {client}]
            /\ q.gen = p.gen
      BY ONLY <3>2
    <3> HIDE DEF q
    <3> QED BY <3>1, <3>3, PassMade
  <2>2. Goes(p, q) /\ UNCHANGED <<lifecycle, generation, client, sockets>>
    BY <1>3 DEF ReadBlock
  <2> HIDE DEF q
  <2> QED BY <1>0, <2>1, <2>2, GoesOn
<1>4. CASE ReadDone(p)
  BY <1>4, DoneLine DEF ReadDone
<1>5. CASE ReadFails(p)
  BY <1>5, DoneLine DEF ReadFails
<1>6. CASE ReadBreaks(p)
  BY <1>6, DoneLine DEF ReadBreaks
<1> QED BY <1>1, <1>2, <1>3, <1>4, <1>5, <1>6 DEF PassStep

LEMMA WatchdogLine == ASSUME LineInv, NEW r \in Runs, Watchdog(r) PROVE LineInv'
<1>1. TurnInv /\ Generations
  BY DEF LineInv
<1>2. TurnInv'
  BY CycleOver DEF Watchdog
<1>3. /\ generation' = generation + 1 /\ abandoned' = abandoned \cup {pass[r]}
      /\ pass' = [pass EXCEPT ![r] = NoPass]
  BY DEF Watchdog, CycleEnds
<1>4. Generations'
  <2>1. IsPass(NoPass) /\ NoPass.gen = 0
    BY DEF IsPass, NoPass
  <2>2. \A s \in Runs : pass'[s] = IF s = r THEN NoPass ELSE pass[s]
    BY <1>1, <1>3 DEF Generations
  <2>3. pass' = [s \in Runs |-> pass'[s]]
    BY <1>1, <1>3 DEF Generations
  <2>4. \A p \in abandoned' : p.gen \in Nat /\ p.gen < generation + 1
    BY <1>1, <1>3 DEF Generations, IsPass
  <2> QED BY <1>1, <1>3, <2>1, <2>2, <2>3, <2>4 DEF Generations, IsPass
<1> QED BY <1>2, <1>4 DEF LineInv

LEMMA LoopLine == ASSUME LineInv, NEW r \in Runs, LoopStep(r) PROVE LineInv'
<1>1. TurnInv /\ Generations /\ LifeTypes
  BY DEF LineInv, TurnInv
<1>2. Awake(r) /\ UNCHANGED <<lifecycle, generation, abandoned, sockets>>
  BY DEF LoopStep, CycleStart, CycleIdle, LoopEnds
<1>4. CASE CycleStart(r)
  <2> DEFINE due == {d \in Devices : Allows(breaker[d])}
             q == AtDevice(generation, due, client, IsOpen(client))
  <2>1. /\ runs' = [runs EXCEPT ![r].state = "cycle"] /\ pass' = [pass EXCEPT ![r] = q] /\ MayGoOn(r)
    BY <1>4 DEF CycleStart
  <2>2. TurnInv'
    <3>1. PICK next \in {"cycle"} : next = "cycle"
      OBVIOUS
    <3> QED BY <1>1, <1>2, <2>1, <3>1, RunMoves
  <2>3. IsPass(q) /\ q.gen = generation /\ (q.at = "connecting" <=> ~IsOpen(client))
    <3>1. generation \in Nat /\ IsOpen(client) \in BOOLEAN
      BY <1>1 DEF Generations, IsOpen
    <3> HIDE DEF due
    <3> QED BY <3>1, AtDeviceIs
  <2> HIDE DEF q
  <2>4. /\ \A s \in Runs : pass'[s] = IF s = r THEN q ELSE pass[s]
        /\ \A s \in Runs : s # r => runs'[s] = runs[s]
        /\ pass' = [s \in Runs |-> pass'[s]]
    BY <1>1, <2>1 DEF Generations, LifeTypes
  <2>5. Generations'
    BY <1>1, <1>2, <2>3, <2>4 DEF Generations, IsPass
  <2> QED BY <2>2, <2>5 DEF LineInv
<1>5. CASE CycleIdle(r) \/ LoopEnds(r)
  <2>1. PICK next \in {"sleep", "done"} : /\ runs' = [runs EXCEPT ![r].state = next]
                                          /\ next = "done" <=> ~MayGoOn(r)
    BY <1>5 DEF CycleIdle, LoopEnds
  <2>2. UNCHANGED <<pass, client>>
    BY <1>5 DEF CycleIdle, LoopEnds
  <2>3. TurnInv'
    BY <1>1, <1>2, <2>1, RunMoves
  <2>4. Generations'
    BY <1>1, <1>2, <2>2 DEF Generations, IsPass
  <2> QED BY <2>3, <2>4 DEF LineInv
<1> QED BY <1>4, <1>5 DEF LoopStep

LEMMA CommandLine ==
  ASSUME LineInv, Start \/ Stop \/ \E k \in Stops : StopEnds(k)
  PROVE  LineInv'
<1>1. TurnInv /\ Generations /\ LifeTypes
  BY DEF LineInv, TurnInv
<1>2. UNCHANGED <<generation, pass, abandoned>>
  BY DEF Start, Stop, StopEnds
<1>3. Generations'
  BY <1>1, <1>2 DEF Generations, IsPass
<1>4. TurnInv'
  BY <1>1, StartTurn, StopTurn, StopEndsTurn
<1> QED BY <1>3, <1>4 DEF LineInv

LEMMA OutsideLine ==
  ASSUME LineInv, LinkDrops \/ (\E d \in Devices : ProbeDue(d)) \/ UNCHANGED vars
  PROVE  LineInv'
<1>1. TurnInv /\ Generations
  BY DEF LineInv
<1>2. UNCHANGED <<lifecycle, runs, generation, pass, abandoned>>
  BY DEF LinkDrops, ProbeDue, vars
<1>3. TurnInv'
  BY <1>1, <1>2, TurnUntouched
<1>4. Generations'
  BY <1>1, <1>2 DEF Generations, IsPass
<1> QED BY <1>3, <1>4 DEF LineInv

LEMMA LineStep == LineInv /\ [Next]_vars => LineInv'
BY CommandLine, LoopLine, WatchdogLine, PassLine, OutsideLine DEF Next

LEMMA LineAlways == Spec => []LineInv
<1>1. Init => LineInv
  BY InitTurn, InitPasses DEF LineInv
<1> QED BY <1>1, LineStep, PTL DEF Spec

-------------------------------------------------------------------------------
(* Connections.  A pass that the watchdog gave up while it connects opens  *)
(* the port again, and the connection it opened may stay behind when it is *)
(* replaced: there are no more such connections than trips.                *)

Outcomes == {"none", "idle", "polled", "disconnected", "watchdog"}

PassTypes ==
  /\ generation \in 0..MaxTrips
  /\ pass \in [Runs -> Pass] /\ abandoned \subseteq Pass
  /\ client \in Connections \cup {0} /\ sockets \subseteq Connections
  /\ breaker \in [Devices -> BreakerState]
  /\ status \in [running: BOOLEAN, outcome: Outcomes]

(* Passes that the watchdog gave up and that may still open the port.      *)
Late(passes) == {p \in passes : p.at = "connecting"}

ConnectsInCycle == \E r \in Runs : runs[r].state = "cycle" /\ pass[r].at = "connecting"

(* The cycle connects, though a late pass has opened the port meanwhile.   *)
Doubled == IF ConnectsInCycle /\ client \in sockets THEN 1 ELSE 0

Standing ==
  /\ \A p \in Live : p.at = "connecting" => p.conn = 0
  /\ \A r \in Runs : runs[r].state = "cycle" => pass[r].gen = generation

Counted ==
  /\ IsFiniteSet(abandoned) /\ IsFiniteSet(sockets)
  /\ Cardinality(abandoned) <= generation
  /\ Cardinality(sockets \ {client}) + Cardinality(Late(abandoned)) + Doubled <= generation

WorkerInv == LineInv /\ PassTypes /\ Standing /\ Counted

(* A worker that is off keeps a connection only for a pass that was given  *)
(* up while it connects: the one it has opened, or the one it will open.   *)
OffCounted ==
  ~running /\ Settled => Cardinality(sockets) + Cardinality(Late(abandoned)) <= generation

SafeInv == WorkerInv /\ OffCounted

-------------------------------------------------------------------------------
LEMMA InitWorker == Init => WorkerInv
<1> SUFFICES ASSUME Init PROVE WorkerInv
  OBVIOUS
<1>1. LineInv
  BY InitTurn, InitPasses DEF LineInv
<1>2. NoPass \in Pass
  <2>1. 1 \in 1..Blocks /\ 0 \in 0..MaxTrips /\ {} \in SUBSET Devices /\ 0 \in Connections \cup {0}
    OBVIOUS
  <2> QED BY <2>1 DEF NoPass, Pass
<1>3. PassTypes
  <2>1. generation \in 0..MaxTrips /\ client \in Connections \cup {0} /\ sockets \subseteq Connections
        /\ abandoned \subseteq Pass
    BY DEF Init
  <2>2. pass \in [Runs -> Pass]
    BY <1>2 DEF Init
  <2>3. breaker \in [Devices -> BreakerState]
    BY DEF Init, BreakerState
  <2>4. status \in [running: BOOLEAN, outcome: Outcomes]
    BY DEF Init, Outcomes
  <2> QED BY <2>1, <2>2, <2>3, <2>4 DEF PassTypes
<1>4. Live = {}
  BY DEF Init, Live
<1>5. Standing
  BY <1>4 DEF Standing, Init
<1>6. Counted
  <2>1. abandoned = {} /\ sockets = {} /\ generation = 0
    BY DEF Init
  <2>2. Late(abandoned) = {} /\ sockets \ {client} = {} /\ Doubled = 0
    BY <2>1 DEF Late, Doubled
  <2> QED BY <2>1, <2>2, FS_EmptySet DEF Counted
<1> QED BY <1>1, <1>3, <1>5, <1>6 DEF WorkerInv

(* Numbers are left.                                                       *)
LEMMA Images ==
  ASSUME NEW S, IsFiniteSet(S)
  PROVE  IsFiniteSet({p.conn : p \in S}) /\ Cardinality({p.conn : p \in S}) <= Cardinality(S)
<1> DEFINE T == {p.conn : p \in S}
           f == [p \in S |-> p.conn]
<1>1. f \in Surjection(S, T)
  BY DEF Surjection
<1> HIDE DEF f, T
<1>2. IsFiniteSet(T) /\ Cardinality(T) <= Cardinality(S)
  BY <1>1, FS_Surjection
<1> QED BY <1>2 DEF T

LEMMA NumberLeft ==
  ASSUME NEW S, IsFiniteSet(S), Cardinality(S) <= 2 * MaxTrips
  PROVE  \E c \in Connections : c \notin S
<1>1. IsFiniteSet(Connections) /\ Cardinality(Connections) = 2 * MaxTrips + 1
  <2>1. 2 * MaxTrips + 1 \in Int /\ 1 \in Int /\ ~(1 > 2 * MaxTrips + 1)
    OBVIOUS
  <2> QED BY <2>1, FS_Interval DEF Connections
<1>2. CASE Connections \subseteq S
  <2>1. Cardinality(Connections) <= Cardinality(S) /\ Cardinality(S) \in Nat
    BY <1>2, FS_Subset, FS_CardinalityType
  <2> QED BY <1>1, <2>1
<1> QED BY <1>2

LEMMA UnusedIs ==
  ASSUME WorkerInv, NEW p \in Live, p.at = "connecting"
  PROVE  Unused \in Connections /\ Unused \notin sockets /\ \A q \in Live : q.conn # Unused
<1>1. /\ LineInv /\ PassTypes /\ Standing /\ Counted /\ OneCycle
  BY TurnMeansOneCycle DEF WorkerInv, LineInv
<1>2. generation \in Nat /\ generation <= MaxTrips
  BY <1>1 DEF PassTypes
<1> DEFINE A == {q.conn : q \in abandoned}
<1>3. IsFiniteSet(A) /\ Cardinality(A) <= generation /\ Cardinality(A) \in Nat
  <2>1. IsFiniteSet(abandoned) /\ Cardinality(abandoned) \in Nat /\ Cardinality(abandoned) <= generation
    BY <1>1, FS_CardinalityType DEF Counted
  <2>2. IsFiniteSet(A) /\ Cardinality(A) <= Cardinality(abandoned)
    BY <2>1, Images
  <2>3. Cardinality(A) \in Nat
    BY <2>2, FS_CardinalityType
  <2> HIDE DEF A
  <2> QED BY <1>2, <2>1, <2>2, <2>3
<1>4. IsFiniteSet(sockets \ {client}) /\ Cardinality(sockets \ {client}) \in Nat
  BY <1>1, FS_RemoveElement, FS_CardinalityType DEF Counted
<1>5. /\ IsFiniteSet(sockets) /\ Cardinality(sockets) \in Nat
      /\ Cardinality(sockets) = Cardinality(sockets \ {client}) + (IF client \in sockets THEN 1 ELSE 0)
  <2>1. IsFiniteSet(sockets) /\ Cardinality(sockets) \in Nat
    BY <1>1, FS_CardinalityType DEF Counted
  <2>2. Cardinality(sockets \ {client})
          = IF client \in sockets THEN Cardinality(sockets) - 1 ELSE Cardinality(sockets)
    BY <2>1, FS_RemoveElement
  <2> QED BY <2>1, <2>2
<1>6. IsFiniteSet(Late(abandoned)) /\ Cardinality(Late(abandoned)) \in Nat
  <2>1. Late(abandoned) \in SUBSET abandoned
    BY DEF Late
  <2> QED BY <1>1, <2>1, FS_Subset, FS_CardinalityType DEF Counted
<1>7. ASSUME NEW S, IsFiniteSet(S), Cardinality(S) <= 2 * MaxTrips,
             sockets \subseteq S, \A q \in Live : q.conn \in S \cup {0}
      PROVE  Unused \in Connections /\ Unused \notin sockets /\ \A q \in Live : q.conn # Unused
  <2>1. PICK c \in Connections : c \notin S
    BY <1>7, NumberLeft
  <2>2. c # 0
    BY DEF Connections
  <2>3. c \notin sockets /\ \A q \in Live : q.conn # c
    BY <1>7, <2>1, <2>2
  <2> QED BY <2>3 DEF Unused
<1>8. CASE \E r \in Runs : runs[r].state = "cycle" /\ pass[r] = p
  <2>1. \A q \in Live : q.conn \in A \cup {0}
    <3>1. p.conn = 0 /\ \A q \in Live : q = p \/ q \in abandoned
      BY <1>1, <1>8 DEF Live, OneCycle, Standing
    <3> QED BY <3>1
  <2>2. Doubled = IF client \in sockets THEN 1 ELSE 0
    BY <1>8 DEF Doubled, ConnectsInCycle
  <2>3. Cardinality(sockets) <= generation
    BY <1>1, <1>2, <1>4, <1>5, <1>6, <2>2 DEF Counted
  <2> DEFINE T == sockets \cap A
  <2>4. IsFiniteSet(T) /\ Cardinality(T) \in Nat
    <3>1. T \in SUBSET sockets
      OBVIOUS
    <3> HIDE DEF T
    <3> QED BY <1>5, <3>1, FS_Subset, FS_CardinalityType
  <2>5. IsFiniteSet(sockets \cup A)
          /\ Cardinality(sockets \cup A) = Cardinality(sockets) + Cardinality(A) - Cardinality(T)
    <3> HIDE DEF A
    <3> QED BY <1>3, <1>5, FS_Union
  <2>6. Cardinality(sockets \cup A) <= 2 * MaxTrips
    <3> HIDE DEF A, T
    <3> QED BY <1>2, <1>3, <1>5, <2>3, <2>4, <2>5
  <2> HIDE DEF A
  <2> QED BY <1>7, <2>1, <2>5, <2>6
<1>9. CASE ~\E r \in Runs : runs[r].state = "cycle" /\ pass[r] = p
  <2>1. p \in Late(abandoned)
    BY <1>9 DEF Late, Live
  <2>2. 1 <= Cardinality(Late(abandoned))
    BY <1>6, <2>1, FS_EmptySet
  <2>3. Cardinality(sockets \ {client}) + 1 <= generation
    <3>1. Doubled \in {0, 1}
      BY DEF Doubled
    <3> QED BY <1>1, <1>2, <1>4, <1>6, <2>2, <3>1 DEF Counted
  <2> DEFINE B == {q.conn : q \in abandoned \ {p}}
             C == {pass[r].conn : r \in {s \in Runs : runs[s].state = "cycle"}}
  <2>4. IsFiniteSet(B) /\ Cardinality(B) \in Nat /\ Cardinality(B) + 1 <= generation
    <3>1. IsFiniteSet(abandoned \ {p}) /\ Cardinality(abandoned \ {p}) = Cardinality(abandoned) - 1
          /\ Cardinality(abandoned) \in Nat /\ Cardinality(abandoned) <= generation
      BY <1>1, <2>1, FS_RemoveElement, FS_CardinalityType DEF Counted, Late
    <3>2. IsFiniteSet(B) /\ Cardinality(B) <= Cardinality(abandoned \ {p})
      BY <3>1, Images
    <3>3. Cardinality(B) \in Nat
      BY <3>2, FS_CardinalityType
    <3> HIDE DEF B
    <3> QED BY <1>2, <3>1, <3>2, <3>3
  <2>5. PICK c : C \subseteq {c}
    <3>1. CASE C = {}
      BY <3>1
    <3>2. CASE C # {}
      <4>1. PICK r \in Runs : runs[r].state = "cycle"
        BY <3>2
      <4>2. C \subseteq {pass[r].conn}
        BY <1>1, <4>1 DEF OneCycle
      <4> QED BY <4>2
    <3> QED BY <3>1, <3>2
  <2> DEFINE S == (sockets \cup B) \cup {c}
  <2>6. \A q \in Live : q.conn \in S \cup {0}
    <3>1. p.conn = 0
      BY <1>1 DEF Standing
    <3>2. \A q \in Live : q = p \/ q \in abandoned \ {p} \/ q.conn \in C
      BY DEF Live
    <3> QED BY <2>5, <3>1, <3>2
  <2>7. Cardinality(sockets) <= generation
    BY <1>2, <1>4, <1>5, <2>3
  <2> DEFINE T == sockets \cap B
  <2>8. IsFiniteSet(T) /\ Cardinality(T) \in Nat
    <3>1. T \in SUBSET sockets
      OBVIOUS
    <3> HIDE DEF T
    <3> QED BY <1>5, <3>1, FS_Subset, FS_CardinalityType
  <2>9. IsFiniteSet(sockets \cup B)
          /\ Cardinality(sockets \cup B) = Cardinality(sockets) + Cardinality(B) - Cardinality(T)
    <3> HIDE DEF B
    <3> QED BY <1>5, <2>4, FS_Union
  <2>10. IsFiniteSet(S) /\ Cardinality(S) <= Cardinality(sockets \cup B) + 1
           /\ Cardinality(sockets \cup B) \in Nat
    <3>1. PICK U : U = sockets \cup B
      OBVIOUS
    <3>2. IsFiniteSet(U) /\ Cardinality(U) \in Nat
      BY <2>9, <3>1, FS_CardinalityType
    <3>3. IsFiniteSet(U \cup {c}) /\ Cardinality(U \cup {c}) <= Cardinality(U) + 1
      <4>1. /\ IsFiniteSet(U \cup {c})
            /\ Cardinality(U \cup {c}) = IF c \in U THEN Cardinality(U) ELSE Cardinality(U) + 1
        BY <3>2, FS_AddElement
      <4> HIDE DEF S
      <4> QED BY ONLY <3>2, <4>1
    <3> QED BY <3>1, <3>2, <3>3
  <2>11. Cardinality(S) \in Nat
    <3> HIDE DEF S
    <3> QED BY <2>10, FS_CardinalityType
  <2>12. Cardinality(S) <= 2 * MaxTrips
    <3> HIDE DEF S, B, T, C
    <3> QED BY <1>2, <1>5, <2>4, <2>7, <2>8, <2>9, <2>10, <2>11
  <2>13. sockets \subseteq S
    OBVIOUS
  <2> HIDE DEF S
  <2> QED BY <1>7, <2>6, <2>10, <2>12, <2>13
<1> QED BY <1>8, <1>9

LEMMA Sums ==
  ASSUME WorkerInv
  PROVE  /\ generation \in Nat /\ IsFiniteSet(abandoned) /\ IsFiniteSet(sockets)
            /\ IsFiniteSet(Late(abandoned))
         /\ Cardinality(abandoned) \in Nat /\ Cardinality(sockets \ {client}) \in Nat
         /\ Cardinality(Late(abandoned)) \in Nat /\ Doubled \in {0, 1}
         /\ IsFiniteSet(sockets \ {client}) /\ 0 \notin sockets
<1>1. Counted /\ PassTypes
  BY DEF WorkerInv
<1>2. Late(abandoned) \in SUBSET abandoned /\ sockets \ {client} \in SUBSET sockets
  BY DEF Late
<1>3. IsFiniteSet(Late(abandoned)) /\ IsFiniteSet(sockets \ {client})
  BY <1>1, <1>2, FS_Subset DEF Counted
<1> QED BY <1>1, <1>3, FS_CardinalityType DEF Counted, PassTypes, Doubled, Connections

(* What closes connections or ends passes keeps the count.                 *)
LEMMA StillCounted ==
  ASSUME WorkerInv, generation' = generation, abandoned' \subseteq abandoned,
         sockets' \subseteq sockets,
         sockets' \ {client'} \subseteq sockets \ {client}, Doubled' = 0 \/ Doubled = 1
  PROVE  Counted'
<1>1. PICK a, s, x, y, l, m : /\ a = abandoned' /\ s = sockets' /\ x = sockets \ {client}
                                 /\ y = sockets' \ {client'}
                              /\ l = Late(abandoned) /\ m = Late(abandoned')
  OBVIOUS
<1>2. a \in SUBSET abandoned /\ s \in SUBSET sockets /\ y \in SUBSET x /\ m \in SUBSET l
  BY <1>1 DEF Late
<1>3. /\ IsFiniteSet(abandoned) /\ IsFiniteSet(sockets) /\ IsFiniteSet(l) /\ IsFiniteSet(x)
      /\ Cardinality(abandoned) \in Nat /\ Cardinality(x) \in Nat /\ Cardinality(l) \in Nat
  BY <1>1, Sums
<1>4. IsFiniteSet(a) /\ Cardinality(a) <= Cardinality(abandoned) /\ Cardinality(a) \in Nat
  BY ONLY <1>2, <1>3, FS_Subset, FS_CardinalityType
<1>5. IsFiniteSet(s)
  BY ONLY <1>2, <1>3, FS_Subset
<1>6. Cardinality(y) <= Cardinality(x) /\ Cardinality(y) \in Nat
  BY ONLY <1>2, <1>3, FS_Subset, FS_CardinalityType
<1>7. Cardinality(m) <= Cardinality(l) /\ Cardinality(m) \in Nat
  BY ONLY <1>2, <1>3, FS_Subset, FS_CardinalityType
<1>8. Doubled' <= Doubled /\ Doubled' \in {0, 1} /\ Doubled \in {0, 1}
  BY DEF Doubled
<1>9. Cardinality(abandoned) <= generation
        /\ Cardinality(x) + Cardinality(l) + Doubled <= generation /\ generation \in Nat
  BY <1>1, Sums DEF WorkerInv, Counted
<1>10. Cardinality(y) + Cardinality(m) + Doubled' <= generation
  BY <1>3, <1>6, <1>7, <1>8, <1>9
<1>11. Cardinality(a) <= generation
  BY <1>3, <1>4, <1>9
<1>12. m = Late(abandoned)'
  BY <1>1 DEF Late
<1>13. /\ IsFiniteSet(abandoned') /\ IsFiniteSet(sockets') /\ Cardinality(abandoned') <= generation'
       /\ Cardinality(sockets' \ {client'}) + Cardinality(Late(abandoned)') + Doubled' <= generation'
  BY <1>1, <1>4, <1>5, <1>10, <1>11, <1>12
<1> QED BY <1>13 DEF Counted

(* A late pass goes on, reading.                                           *)
LEMMA LateGoes ==
  ASSUME NEW A, IsFiniteSet(A), NEW p \in A, NEW q, q.at = "reading"
  PROVE  LET B == (A \ {p}) \cup {q} IN
         /\ IsFiniteSet(B) /\ Cardinality(B) <= Cardinality(A)
         /\ Cardinality(Late(B)) <= Cardinality(Late(A)) - (IF p.at = "connecting" THEN 1 ELSE 0)
<1>1. PICK D : D = A \ {p}
  OBVIOUS
<1>2. IsFiniteSet(D) /\ Cardinality(D) = Cardinality(A) - 1 /\ Cardinality(A) \in Nat
        /\ Cardinality(D) \in Nat
  BY <1>1, FS_RemoveElement, FS_CardinalityType
<1>3. PICK B : B = (A \ {p}) \cup {q}
  OBVIOUS
<1>4. IsFiniteSet(B) /\ Cardinality(B) = IF q \in D THEN Cardinality(D) ELSE Cardinality(D) + 1
  BY <1>1, <1>2, <1>3, FS_AddElement
<1>5. PICK l, m : l = Late(A) /\ m = Late(B)
  OBVIOUS
<1>6. l \in SUBSET A
  BY <1>5 DEF Late
<1>7. IsFiniteSet(l) /\ Cardinality(l) \in Nat
  BY <1>6, FS_Subset, FS_CardinalityType
<1>8. m \subseteq l \ {p}
  BY <1>3, <1>5 DEF Late
<1>9. IsFiniteSet(l \ {p})
        /\ Cardinality(l \ {p}) = IF p \in l THEN Cardinality(l) - 1 ELSE Cardinality(l)
  BY <1>7, FS_RemoveElement
<1>10. Cardinality(m) <= Cardinality(l \ {p})
  <2>1. PICK n : n = l \ {p}
    OBVIOUS
  <2>2. m \in SUBSET n /\ IsFiniteSet(n)
    BY <1>8, <1>9, <2>1
  <2>3. Cardinality(m) <= Cardinality(n)
    BY ONLY <2>2, FS_Subset
  <2> QED BY <2>1, <2>3
<1>11. p \in l <=> p.at = "connecting"
  BY <1>5 DEF Late
<1>12. Cardinality(m) \in Nat
  <2>1. m \in SUBSET l
    BY <1>8
  <2> QED BY <1>7, <2>1, FS_Subset, FS_CardinalityType
<1>13. Cardinality(m) <= Cardinality(l) - (IF p.at = "connecting" THEN 1 ELSE 0)
  BY <1>7, <1>9, <1>10, <1>11, <1>12
<1>14. Cardinality(B) <= Cardinality(A)
  BY <1>2, <1>4
<1> QED BY <1>3, <1>4, <1>5, <1>13, <1>14

-------------------------------------------------------------------------------
(* What a pass is after it goes on, and when it is over.                   *)
LEMMA GoesStands ==
  ASSUME WorkerInv, NEW p \in Live, NEW q \in Pass, Goes(p, q), generation' = generation,
         q.gen = p.gen, q.at = "connecting" => q.conn = 0
  PROVE  /\ pass' \in [Runs -> Pass] /\ abandoned' \subseteq Pass /\ status' = status /\ runs' = runs
         /\ Standing'
<1>1. PassTypes /\ Standing
  BY DEF WorkerInv
<1>2. CASE \E r \in Runs : runs[r].state = "cycle" /\ pass[r] = p /\ pass' = [pass EXCEPT ![r] = q]
           /\ UNCHANGED <<runs, abandoned, status>>
  <2>1. PICK r \in Runs : runs[r].state = "cycle" /\ pass[r] = p /\ pass' = [pass EXCEPT ![r] = q]
                          /\ UNCHANGED <<runs, abandoned, status>>
    BY <1>2
  <2>2. pass' \in [Runs -> Pass] /\ \A s \in Runs : pass'[s] = IF s = r THEN q ELSE pass[s]
    BY <1>1, <2>1 DEF PassTypes
  <2>3. Live' \subseteq Live \cup {q}
    BY <2>1, <2>2 DEF Live
  <2>4. Standing'
    BY <1>1, <2>1, <2>2, <2>3 DEF Standing
  <2> QED BY <1>1, <2>1, <2>2, <2>4 DEF PassTypes
<1>3. CASE p \in abandoned /\ abandoned' = (abandoned \ {p}) \cup {q}
        /\ UNCHANGED <<runs, pass, status>>
  <2>1. Live' \subseteq Live \cup {q}
    BY <1>3 DEF Live
  <2>2. Standing'
    BY <1>1, <1>3, <2>1 DEF Standing
  <2> QED BY <1>1, <1>3, <2>2 DEF PassTypes
<1> QED BY <1>2, <1>3 DEF Goes

LEMMA NoPassIs == NoPass \in Pass
<1>1. 1 \in 1..Blocks /\ 0 \in 0..MaxTrips /\ {} \in SUBSET Devices /\ 0 \in Connections \cup {0}
  OBVIOUS
<1> QED BY <1>1 DEF NoPass, Pass

LEMMA PublishedIs ==
  ASSUME WorkerInv, NEW how \in Outcomes
  PROVE  Published(how) \in [running: BOOLEAN, outcome: Outcomes]
BY DEF WorkerInv, LineInv, TurnInv, LifeTypes, Published

LEMMA CycleEndsStands ==
  ASSUME WorkerInv, NEW r \in Runs, runs[r].state = "cycle", NEW how \in Outcomes, CycleEnds(r, how)
  PROVE  /\ pass' \in [Runs -> Pass] /\ status' \in [running: BOOLEAN, outcome: Outcomes]
         /\ \A s \in Runs : runs'[s].state = "cycle" => runs[s].state = "cycle" /\ s # r
            /\ pass'[s] = pass[s]
<1>1. PassTypes /\ LifeTypes
  BY DEF WorkerInv, LineInv, TurnInv
<1>2. pass' = [pass EXCEPT ![r] = NoPass] /\ status' = Published(how)
      /\ runs' = [runs EXCEPT ![r].state = IF MayGoOn(r) THEN "sleep" ELSE "done"]
  BY DEF CycleEnds
<1>3. pass' \in [Runs -> Pass] /\ \A s \in Runs : s # r => pass'[s] = pass[s]
  BY <1>1, <1>2, NoPassIs DEF PassTypes
<1>4. \A s \in Runs : runs'[s].state = "cycle" => runs[s].state = "cycle" /\ s # r
  BY <1>1, <1>2 DEF LifeTypes
<1>5. status' \in [running: BOOLEAN, outcome: Outcomes]
  BY <1>2, PublishedIs
<1> QED BY <1>3, <1>4, <1>5

LEMMA LeavesStands ==
  ASSUME WorkerInv, NEW p \in Live, NEW how \in Outcomes, Leaves(p, how), generation' = generation
  PROVE  /\ pass' \in [Runs -> Pass] /\ abandoned' \subseteq abandoned
         /\ status' \in [running: BOOLEAN, outcome: Outcomes]
         /\ Standing' /\ (ConnectsInCycle' => ConnectsInCycle)
<1>1. PassTypes /\ Standing
  BY DEF WorkerInv
<1>2. CASE (\E r \in Runs : runs[r].state = "cycle" /\ pass[r] = p /\ CycleEnds(r, how))
        /\ UNCHANGED abandoned
  <2>1. PICK r \in Runs : runs[r].state = "cycle" /\ pass[r] = p /\ CycleEnds(r, how)
    BY <1>2
  <2>2. /\ pass' \in [Runs -> Pass] /\ status' \in [running: BOOLEAN, outcome: Outcomes]
        /\ \A s \in Runs : runs'[s].state = "cycle" => runs[s].state = "cycle" /\ s # r
           /\ pass'[s] = pass[s]
    BY <2>1, CycleEndsStands
  <2>3. Live' \subseteq Live
    BY <1>2, <2>2 DEF Live
  <2> QED BY <1>1, <1>2, <2>2, <2>3 DEF Standing, ConnectsInCycle
<1>3. CASE p \in abandoned /\ abandoned' = abandoned \ {p} /\ UNCHANGED <<runs, pass, status>>
  <2>1. Live' \subseteq Live
    BY <1>3 DEF Live
  <2> QED BY <1>1, <1>3, <2>1 DEF Standing, ConnectsInCycle, PassTypes
<1> QED BY <1>2, <1>3 DEF Leaves

LEMMA ConnectWorker == ASSUME WorkerInv, NEW p \in Live, Connect(p) PROVE WorkerInv'
<1>1. LineInv' /\ PassTypes /\ Standing /\ Counted /\ LineInv /\ OneCycle
  BY ConnectLine, TurnMeansOneCycle DEF WorkerInv, LineInv
<1>2. p.at = "connecting" /\ UNCHANGED <<lifecycle, generation, breaker>>
  BY DEF Connect
<1> DEFINE q == [p EXCEPT !.at = "reading", !.conn = Unused]
<1>3. Unused \in Connections /\ Unused \notin sockets
  BY <1>2, UnusedIs
<1>4. p \in Pass
  BY <1>1 DEF PassTypes, Live
<1>5. q \in Pass /\ q.gen = p.gen /\ q.at = "reading"
  <2>1. Unused \in Connections \cup {0}
    BY <1>3
  <2>2. p \in [gen: 0..MaxTrips, rest: SUBSET Devices, at: {"connecting", "reading"},
               block: 1..Blocks, conn: Connections \cup {0}]
    BY <1>4 DEF Pass
  <2>3. /\ q \in [gen: 0..MaxTrips, rest: SUBSET Devices, at: {"connecting", "reading"},
                  block: 1..Blocks, conn: Connections \cup {0}]
        /\ q.gen = p.gen /\ q.at = "reading"
    BY ONLY <2>1, <2>2
  <2> QED BY ONLY <2>3 DEF Pass
<1>6. Goes(p, q) /\ client' = Unused /\ sockets' = sockets \cup {Unused}
  BY DEF Connect
<1> HIDE DEF q
<1>7. /\ pass' \in [Runs -> Pass] /\ abandoned' \subseteq Pass /\ status' = status /\ runs' = runs
         /\ Standing'
  BY <1>2, <1>5, <1>6, GoesStands
<1>8. PassTypes'
  BY <1>1, <1>2, <1>3, <1>6, <1>7 DEF PassTypes
<1>9. Counted'
  <2>1. PICK n, s, k, a : /\ n = Cardinality(sockets \ {client}) /\ s = Cardinality(sockets)
                          /\ k = Cardinality(Late(abandoned)) /\ a = Cardinality(abandoned)
    OBVIOUS
  <2>2. /\ generation \in Nat /\ IsFiniteSet(abandoned) /\ IsFiniteSet(sockets)
        /\ a \in Nat /\ n \in Nat /\ k \in Nat /\ Doubled \in {0, 1} /\ a <= generation
           /\ n + k + Doubled <= generation
    BY <1>1, <2>1, Sums DEF Counted
  <2>3. s = n + (IF client \in sockets THEN 1 ELSE 0) /\ s \in Nat
    <3>1. s \in Nat /\ n = IF client \in sockets THEN s - 1 ELSE s
      BY <2>1, <2>2, FS_RemoveElement, FS_CardinalityType
    <3> QED BY <2>2, <3>1
  <2>4. IsFiniteSet(sockets') /\ sockets' \ {client'} = sockets
    BY <1>3, <1>6, <2>2, FS_AddElement
  <2>5. ASSUME IsFiniteSet(abandoned'), Cardinality(abandoned') <= generation,
               s + Cardinality(Late(abandoned)') + Doubled' <= generation
        PROVE  Counted'
    <3>1. Cardinality(sockets' \ {client'}) = s
      BY <2>1, <2>4
    <3> QED BY <1>2, <2>4, <2>5, <3>1 DEF Counted
  <2>6. CASE \E r \in Runs : runs[r].state = "cycle" /\ pass[r] = p /\ pass' = [pass EXCEPT ![r] = q]
             /\ UNCHANGED <<runs, abandoned, status>>
    <3>1. PICK r \in Runs : runs[r].state = "cycle" /\ pass[r] = p /\ pass' = [pass EXCEPT ![r] = q]
                            /\ UNCHANGED <<runs, abandoned, status>>
      BY <2>6
    <3>2. ConnectsInCycle
      BY <1>2, <3>1 DEF ConnectsInCycle
    <3>3. pass'[r].at = "reading"
      BY <1>1, <1>5, <3>1 DEF PassTypes
    <3>4. ~ConnectsInCycle'
      BY <1>1, <3>1, <3>3 DEF ConnectsInCycle, OneCycle
    <3>5. Doubled' = 0 /\ Doubled = IF client \in sockets THEN 1 ELSE 0
      BY <3>2, <3>4 DEF Doubled
    <3>6. Late(abandoned)' = Late(abandoned)
      BY <3>1 DEF Late
    <3>7. s + k + Doubled' <= generation
      BY <2>2, <2>3, <3>5
    <3>8. IsFiniteSet(abandoned') /\ Cardinality(abandoned') <= generation
      BY <2>1, <2>2, <3>1
    <3>9. s + Cardinality(Late(abandoned)') + Doubled' <= generation
      BY <2>1, <3>6, <3>7
    <3> QED BY <2>5, <3>8, <3>9
  <2>7. CASE p \in abandoned /\ abandoned' = (abandoned \ {p}) \cup {q}
          /\ UNCHANGED <<runs, pass, status>>
    <3>1. ConnectsInCycle' <=> ConnectsInCycle
      BY <2>7 DEF ConnectsInCycle
    <3>2. Doubled' = (IF ConnectsInCycle THEN 1 ELSE 0)
      BY <1>6, <3>1 DEF Doubled
    <3>3. /\ IsFiniteSet(abandoned') /\ Cardinality(abandoned') <= a
          /\ Cardinality(Late(abandoned')) <= k - 1
      BY <1>2, <1>5, <2>1, <2>2, <2>7, LateGoes
    <3>4. Late(abandoned') \in SUBSET abandoned' /\ Late(abandoned)' = Late(abandoned')
      BY DEF Late
    <3>5. Cardinality(Late(abandoned')) \in Nat /\ Cardinality(abandoned') \in Nat
      BY <3>3, <3>4, FS_Subset, FS_CardinalityType
    <3>6. Doubled = IF ConnectsInCycle /\ client \in sockets THEN 1 ELSE 0
      BY DEF Doubled
    <3>7. s + Cardinality(Late(abandoned')) + Doubled' <= generation
      BY <2>2, <2>3, <3>2, <3>3, <3>5, <3>6
    <3>8. Cardinality(abandoned') <= generation
      BY <2>2, <3>3, <3>5
    <3>9. s + Cardinality(Late(abandoned)') + Doubled' <= generation
      BY <3>4, <3>7
    <3> QED BY <2>5, <3>3, <3>8, <3>9
  <2> QED BY <1>6, <2>6, <2>7 DEF Goes
<1> QED BY <1>1, <1>7, <1>8, <1>9 DEF WorkerInv

LEMMA LeavesWorker ==
  ASSUME WorkerInv, LineInv', NEW p \in Live, NEW how \in Outcomes, Leaves(p, how),
         generation' = generation,
         breaker' \in [Devices -> BreakerState],
         \/ UNCHANGED <<client, sockets>>
         \/ client' = 0 /\ sockets' = sockets \ {client}
  PROVE  WorkerInv'
<1>1. PassTypes
  BY DEF WorkerInv
<1>2. /\ pass' \in [Runs -> Pass] /\ abandoned' \subseteq abandoned
      /\ status' \in [running: BOOLEAN, outcome: Outcomes]
      /\ Standing' /\ (ConnectsInCycle' => ConnectsInCycle)
  BY LeavesStands
<1>3. PassTypes'
  BY <1>1, <1>2 DEF PassTypes
<1>4. Doubled' = 0 \/ Doubled = 1
  BY <1>2, Sums DEF Doubled
<1>5. sockets' \subseteq sockets /\ sockets' \ {client'} \subseteq sockets \ {client}
  OBVIOUS
<1>6. Counted'
  BY <1>2, <1>4, <1>5, StillCounted
<1> QED BY <1>2, <1>3, <1>6 DEF WorkerInv

LEMMA ReadBlockWorker == ASSUME WorkerInv, NEW p \in Live, ReadBlock(p) PROVE WorkerInv'
<1>1. LineInv' /\ PassTypes /\ Standing /\ Counted /\ LineInv
  BY PassLine DEF WorkerInv, PassStep
<1>2. p.at = "reading" /\ p.block < Blocks
        /\ UNCHANGED <<lifecycle, generation, client, sockets, breaker>>
      /\ client \in sockets
  BY DEF ReadBlock, IsOpen
<1> DEFINE q == [p EXCEPT !.block = @ + 1, !.conn = client]
<1>3. p \in Pass
  BY <1>1 DEF PassTypes, Live
<1>4. q \in Pass /\ q.gen = p.gen /\ q.at = "reading"
  <2>1. client \in Connections \cup {0}
    BY <1>1 DEF PassTypes
  <2>2. p \in [gen: 0..MaxTrips, rest: SUBSET Devices, at: {"connecting", "reading"},
               block: 1..Blocks, conn: Connections \cup {0}]
    BY <1>3 DEF Pass
  <2>3. p.block + 1 \in 1..Blocks
    BY <1>2, <2>2
  <2>4. /\ q \in [gen: 0..MaxTrips, rest: SUBSET Devices, at: {"connecting", "reading"},
                  block: 1..Blocks, conn: Connections \cup {0}]
        /\ q.gen = p.gen /\ q.at = p.at
    BY ONLY <2>1, <2>2, <2>3
  <2> QED BY <1>2, <2>4 DEF Pass
<1>5. Goes(p, q)
  BY DEF ReadBlock
<1> HIDE DEF q
<1>6. /\ pass' \in [Runs -> Pass] /\ abandoned' \subseteq Pass /\ status' = status /\ runs' = runs
         /\ Standing'
  BY <1>2, <1>4, <1>5, GoesStands
<1>7. PassTypes'
  BY <1>1, <1>2, <1>6 DEF PassTypes
<1>8. CASE \E r \in Runs : runs[r].state = "cycle" /\ pass[r] = p /\ pass' = [pass EXCEPT ![r] = q]
           /\ UNCHANGED <<runs, abandoned, status>>
  <2>1. PICK r \in Runs : pass[r] = p /\ pass' = [pass EXCEPT ![r] = q]
          /\ UNCHANGED <<runs, abandoned, status>>
    BY <1>8
  <2>2. \A s \in Runs : pass'[s] = IF s = r THEN q ELSE pass[s]
    BY <1>1, <2>1 DEF PassTypes
  <2>3. ConnectsInCycle' => ConnectsInCycle
    BY <1>4, <2>1, <2>2 DEF ConnectsInCycle
  <2>4. Doubled' = 0 \/ Doubled = 1
    BY <1>2, <2>3 DEF Doubled
  <2>5. Counted'
    BY <1>2, <2>1, <2>4, StillCounted
  <2> QED BY <1>1, <1>6, <1>7, <2>5 DEF WorkerInv
<1>9. CASE p \in abandoned /\ abandoned' = (abandoned \ {p}) \cup {q}
        /\ UNCHANGED <<runs, pass, status>>
  <2>1. PICK n, k, a : /\ n = Cardinality(sockets \ {client})
                       /\ k = Cardinality(Late(abandoned)) /\ a = Cardinality(abandoned)
    OBVIOUS
  <2>2. /\ generation \in Nat /\ IsFiniteSet(abandoned) /\ IsFiniteSet(sockets)
        /\ a \in Nat /\ n \in Nat /\ k \in Nat /\ Doubled \in {0, 1} /\ a <= generation
           /\ n + k + Doubled <= generation
    BY <1>1, <2>1, Sums DEF Counted
  <2>3. Doubled' = Doubled
    BY <1>2, <1>9 DEF Doubled, ConnectsInCycle
  <2>4. /\ IsFiniteSet(abandoned') /\ Cardinality(abandoned') <= a
        /\ Cardinality(Late(abandoned')) <= k
    BY <1>2, <1>4, <1>9, <2>1, <2>2, LateGoes
  <2>5. Late(abandoned') \in SUBSET abandoned' /\ Late(abandoned)' = Late(abandoned')
    BY DEF Late
  <2>6. Cardinality(Late(abandoned')) \in Nat /\ Cardinality(abandoned') \in Nat
    BY <2>4, <2>5, FS_Subset, FS_CardinalityType
  <2>7. n + Cardinality(Late(abandoned')) + Doubled' <= generation
    BY <2>2, <2>3, <2>4, <2>6
  <2>8. Cardinality(abandoned') <= generation
    BY <2>2, <2>4, <2>6
  <2>9. Cardinality(sockets' \ {client'}) = n
    BY <1>2, <2>1
  <2>10. Counted'
    BY <1>2, <2>2, <2>4, <2>5, <2>7, <2>8, <2>9 DEF Counted
  <2> QED BY <1>1, <1>6, <1>7, <2>10 DEF WorkerInv
<1> QED BY <1>5, <1>8, <1>9 DEF Goes

LEMMA AtDeviceIsPass ==
  ASSUME PassTypes, NEW gen \in 0..MaxTrips, NEW rest \in SUBSET Devices,
         NEW c \in Connections \cup {0}, NEW open \in BOOLEAN
  PROVE  /\ AtDevice(gen, rest, c, open) \in Pass /\ AtDevice(gen, rest, c, open).gen = gen
         /\ AtDevice(gen, rest, c, open).at = (IF open THEN "reading" ELSE "connecting")
         /\ AtDevice(gen, rest, c, open).at = "connecting" => AtDevice(gen, rest, c, open).conn = 0
<1>1. 1 \in 1..Blocks
  OBVIOUS
<1> QED BY <1>1 DEF AtDevice, Pass

LEMMA DoneWorker ==
  ASSUME WorkerInv, NEW p \in Live, NEW ok \in BOOLEAN, NEW reconnect \in BOOLEAN, p.at = "reading",
         DeviceDone(p, ok, reconnect)
  PROVE  WorkerInv'
<1>1. LineInv' /\ PassTypes /\ Standing /\ Counted /\ LineInv /\ OneCycle
  BY DoneLine, TurnMeansOneCycle DEF WorkerInv, LineInv
<1>2. UNCHANGED <<lifecycle, generation>>
  BY DEF DeviceDone
<1>3. breaker' \in [Devices -> BreakerState]
  <2>1. CASE p.gen # generation
    BY <1>1, <2>1 DEF DeviceDone, PassTypes
  <2>2. CASE p.gen = generation
    <3>1. PICK d, b : /\ d = First(p.rest) /\ b = (IF ok THEN "closed" ELSE AfterFailure(breaker[d]))
      OBVIOUS
    <3>2. breaker' = [breaker EXCEPT ![d] = b] /\ b \in BreakerState
      BY <2>2, <3>1 DEF DeviceDone, AfterFailure, BreakerState
    <3> QED BY <1>1, <3>2 DEF PassTypes
  <2> QED BY <2>1, <2>2
<1>4. "polled" \in Outcomes
  BY DEF Outcomes
<1> DEFINE others == p.rest \ {First(p.rest)}
           open == IsOpen(client) /\ ~reconnect
           q == AtDevice(p.gen, others, client, open)
<1>5. CASE p.gen # generation
  <2>1. Leaves(p, "polled") /\ UNCHANGED <<client, sockets>>
    BY <1>5 DEF DeviceDone
  <2> QED BY <1>1, <1>2, <1>3, <1>4, <2>1, LeavesWorker
<1>6. CASE p.gen = generation /\ others = {}
  <2>1. Leaves(p, "polled") /\ sockets' = (IF reconnect THEN sockets \ {client} ELSE sockets)
        /\ client' = (IF reconnect THEN 0 ELSE client)
    BY <1>6 DEF DeviceDone
  <2>2. UNCHANGED <<client, sockets>> \/ (client' = 0 /\ sockets' = sockets \ {client})
    BY <2>1
  <2> QED BY <1>1, <1>2, <1>3, <1>4, <2>1, <2>2, LeavesWorker
<1>7. CASE p.gen = generation /\ others # {}
  <2>1. Goes(p, q) /\ sockets' = (IF reconnect THEN sockets \ {client} ELSE sockets)
        /\ client' = (IF reconnect \/ ~open THEN 0 ELSE client)
    BY <1>7 DEF DeviceDone
  <2>2. p \in Pass /\ p.gen \in 0..MaxTrips /\ others \in SUBSET Devices
          /\ client \in Connections \cup {0} /\ open \in BOOLEAN
    <3>1. p \in Pass
      BY <1>1 DEF PassTypes, Live
    <3> QED BY <1>1, <3>1 DEF PassTypes, Pass, IsOpen
  <2>3. q \in Pass /\ q.gen = p.gen /\ q.at = (IF open THEN "reading" ELSE "connecting")
        /\ (q.at = "connecting" => q.conn = 0)
    <3> HIDE DEF open, others
    <3> QED BY <1>1, <2>2, AtDeviceIsPass
  <2> HIDE DEF q, others
  <2>4. /\ pass' \in [Runs -> Pass] /\ abandoned' \subseteq Pass /\ status' = status
           /\ runs' = runs /\ Standing'
    BY <1>2, <2>1, <2>3, GoesStands
  <2>5. sockets' \subseteq sockets /\ client' \in {0, client}
    BY <2>1
  <2>6. PassTypes'
    BY <1>1, <1>2, <1>3, <2>4, <2>5 DEF PassTypes
  <2>7. p \notin abandoned
    BY <1>1, <1>7 DEF LineInv, Generations
  <2>8. PICK r \in Runs : runs[r].state = "cycle" /\ pass[r] = p /\ pass' = [pass EXCEPT ![r] = q]
          /\ abandoned' = abandoned
    BY <2>1, <2>7 DEF Goes
  <2>9. Doubled' = 0
    <3>1. CASE open
      <4>1. pass'[r].at = "reading"
        BY <1>1, <2>3, <2>8, <3>1 DEF PassTypes
      <4>2. ~ConnectsInCycle'
        BY <1>1, <2>4, <2>8, <4>1 DEF ConnectsInCycle, OneCycle
      <4> QED BY <4>2 DEF Doubled
    <3>2. CASE ~open
      <4>1. client' = 0 /\ 0 \notin sockets'
        BY <2>1, <2>5, <3>2, Sums
      <4> QED BY <4>1 DEF Doubled
    <3> QED BY <3>1, <3>2
  <2>10. sockets' \ {client'} \subseteq sockets \ {client}
    BY <2>1 DEF IsOpen
  <2>11. Counted'
    BY <1>2, <2>5, <2>8, <2>9, <2>10, StillCounted
  <2> QED BY <1>1, <2>4, <2>6, <2>11 DEF WorkerInv
<1> QED BY <1>5, <1>6, <1>7

LEMMA PassWorker == ASSUME WorkerInv, NEW p \in Live, PassStep(p) PROVE WorkerInv'
<1>1. CASE Connect(p)
  BY <1>1, ConnectWorker
<1>2. CASE ConnectFails(p)
  <2>1. LineInv' /\ PassTypes
    BY PassLine DEF WorkerInv
  <2>2. "disconnected" \in Outcomes
    BY DEF Outcomes
  <2>3. Leaves(p, "disconnected") /\ UNCHANGED <<generation, client, sockets, breaker>>
    BY <1>2 DEF ConnectFails
  <2>4. breaker' \in [Devices -> BreakerState]
    BY <2>1, <2>3 DEF PassTypes
  <2> QED BY <2>1, <2>2, <2>3, <2>4, LeavesWorker
<1>3. CASE ReadBlock(p)
  BY <1>3, ReadBlockWorker
<1>4. CASE ReadDone(p)
  BY <1>4, DoneWorker DEF ReadDone
<1>5. CASE ReadFails(p)
  BY <1>5, DoneWorker DEF ReadFails
<1>6. CASE ReadBreaks(p)
  BY <1>6, DoneWorker DEF ReadBreaks
<1> QED BY <1>1, <1>2, <1>3, <1>4, <1>5, <1>6 DEF PassStep

LEMMA WatchdogWorker == ASSUME WorkerInv, NEW r \in Runs, Watchdog(r) PROVE WorkerInv'
<1>1. LineInv' /\ PassTypes /\ Standing /\ Counted /\ LineInv /\ OneCycle
  BY WatchdogLine, TurnMeansOneCycle DEF WorkerInv, LineInv
<1>2. /\ runs[r].state = "cycle" /\ generation < MaxTrips /\ generation' = generation + 1
      /\ abandoned' = abandoned \cup {pass[r]} /\ client' = 0 /\ sockets' = sockets \ {client}
      /\ CycleEnds(r, "watchdog") /\ UNCHANGED <<lifecycle, breaker>>
  BY DEF Watchdog
<1>3. "watchdog" \in Outcomes
  BY DEF Outcomes
<1>4. /\ pass' \in [Runs -> Pass] /\ status' \in [running: BOOLEAN, outcome: Outcomes]
      /\ \A s \in Runs : runs'[s].state = "cycle" => runs[s].state = "cycle" /\ s # r
         /\ pass'[s] = pass[s]
  BY <1>2, <1>3, CycleEndsStands
<1>5. PassTypes'
  BY <1>1, <1>2, <1>4 DEF PassTypes
<1>6. Standing'
  <2>1. \A s \in Runs : runs'[s].state # "cycle"
    BY <1>1, <1>2, <1>4 DEF OneCycle
  <2>2. Live' \subseteq Live
    BY <1>2, <2>1 DEF Live
  <2> QED BY <1>1, <2>1, <2>2 DEF Standing
<1>7. Counted'
  <2>1. PICK n, k, a : /\ n = Cardinality(sockets \ {client})
                       /\ k = Cardinality(Late(abandoned)) /\ a = Cardinality(abandoned)
    OBVIOUS
  <2>2. /\ generation \in Nat /\ IsFiniteSet(abandoned) /\ IsFiniteSet(sockets) /\ 0 \notin sockets
        /\ IsFiniteSet(Late(abandoned)) /\ IsFiniteSet(sockets \ {client})
        /\ a \in Nat /\ n \in Nat /\ k \in Nat /\ Doubled \in {0, 1} /\ a <= generation
           /\ n + k + Doubled <= generation
    BY <1>1, <2>1, Sums DEF Counted
  <2>3. Doubled' = 0
    BY <1>2, <2>2 DEF Doubled
  <2>4. IsFiniteSet(abandoned') /\ Cardinality(abandoned') = IF pass[r] \in abandoned THEN a ELSE a + 1
    BY <1>2, <2>1, <2>2, FS_AddElement
  <2>5. PICK l : l = Late(abandoned) \cup {pass[r]}
    OBVIOUS
  <2>6. IsFiniteSet(l) /\ Cardinality(l) = IF pass[r] \in Late(abandoned) THEN k ELSE k + 1
    BY <2>1, <2>2, <2>5, FS_AddElement
  <2>7. Late(abandoned') \in SUBSET l
    BY <1>2, <2>5 DEF Late
  <2>8. Cardinality(Late(abandoned')) <= Cardinality(l) /\ Cardinality(Late(abandoned')) \in Nat
    BY <2>6, <2>7, FS_Subset, FS_CardinalityType
  <2>9. n + Cardinality(Late(abandoned')) + Doubled' <= generation'
    BY <1>2, <2>2, <2>3, <2>6, <2>8
  <2>10. Cardinality(abandoned') <= generation'
    BY <1>2, <2>2, <2>4
  <2>11. sockets' \ {client'} = sockets \ {client} /\ IsFiniteSet(sockets')
    BY <1>2, <2>2
  <2>12. Late(abandoned)' = Late(abandoned')
    BY DEF Late
  <2>13. Cardinality(sockets' \ {client'}) = n
    BY <2>1, <2>11
  <2> QED BY <2>4, <2>9, <2>10, <2>11, <2>12, <2>13 DEF Counted
<1> QED BY <1>1, <1>5, <1>6, <1>7 DEF WorkerInv

LEMMA LoopWorker == ASSUME WorkerInv, NEW r \in Runs, LoopStep(r) PROVE WorkerInv'
<1>1. LineInv' /\ PassTypes /\ Standing /\ Counted /\ LifeTypes /\ OneCycle'
  <2>1. LineInv'
    BY LoopLine DEF WorkerInv
  <2>2. OneCycle'
    BY <2>1, TurnMeansOneCycle, PTL DEF LineInv
  <2> QED BY <2>1, <2>2 DEF WorkerInv, LineInv, TurnInv
<1>2. UNCHANGED <<lifecycle, generation, abandoned, sockets, breaker>>
  BY DEF LoopStep, CycleStart, CycleIdle, LoopEnds
<1>3. CASE CycleStart(r)
  <2> DEFINE due == {d \in Devices : Allows(breaker[d])}
             q == AtDevice(generation, due, client, IsOpen(client))
  <2>1. /\ runs' = [runs EXCEPT ![r].state = "cycle"] /\ pass' = [pass EXCEPT ![r] = q]
        /\ client' = (IF IsOpen(client) THEN client ELSE 0)
        /\ status' = Published(status.outcome)
    BY <1>3 DEF CycleStart
  <2>2. q \in Pass /\ q.gen = generation /\ q.at = (IF IsOpen(client) THEN "reading" ELSE "connecting")
        /\ (q.at = "connecting" => q.conn = 0)
    <3>1. generation \in 0..MaxTrips /\ due \in SUBSET Devices /\ client \in Connections \cup {0}
            /\ IsOpen(client) \in BOOLEAN
      BY <1>1 DEF PassTypes, IsOpen
    <3> HIDE DEF due
    <3> QED BY <1>1, <3>1, AtDeviceIsPass
  <2> HIDE DEF q
  <2>3. /\ pass' \in [Runs -> Pass] /\ \A s \in Runs : pass'[s] = IF s = r THEN q ELSE pass[s]
        /\ \A s \in Runs : runs'[s].state = "cycle" => s = r \/ runs[s].state = "cycle"
    BY <1>1, <2>1, <2>2 DEF PassTypes, LifeTypes
  <2>4. status' \in [running: BOOLEAN, outcome: Outcomes]
    BY <1>1, <2>1, PublishedIs DEF PassTypes
  <2>5. PassTypes'
    BY <1>1, <1>2, <2>1, <2>3, <2>4 DEF PassTypes
  <2>6. Live' \subseteq Live \cup {q}
    BY <1>2, <2>3 DEF Live
  <2>7. Standing'
    BY <1>1, <1>2, <2>2, <2>3, <2>6 DEF Standing
  <2>8. runs'[r].state = "cycle"
    BY <1>1, <2>1 DEF LifeTypes
  <2>9. Doubled' = 0
    <3>1. CASE IsOpen(client)
      <4>1. pass'[r].at = "reading"
        BY <2>2, <2>3, <3>1
      <4>2. ~ConnectsInCycle'
        BY <1>1, <2>8, <4>1 DEF ConnectsInCycle, OneCycle
      <4> QED BY <4>2 DEF Doubled
    <3>2. CASE ~IsOpen(client)
      <4>1. client' = 0 /\ 0 \notin sockets'
        BY <1>2, <2>1, <3>2, Sums
      <4> QED BY <4>1 DEF Doubled
    <3> QED BY <3>1, <3>2
  <2>10. sockets' \ {client'} \subseteq sockets \ {client}
    BY <1>2, <2>1 DEF IsOpen
  <2>11. Counted'
    BY <1>2, <2>9, <2>10, StillCounted
  <2> QED BY <1>1, <2>5, <2>7, <2>11 DEF WorkerInv
<1>4. CASE CycleIdle(r) \/ LoopEnds(r)
  <2>1. UNCHANGED <<pass, client>>
    BY <1>4 DEF CycleIdle, LoopEnds
  <2>2. \A s \in Runs : runs'[s].state = "cycle" => runs[s].state = "cycle"
    BY <1>1, <1>4 DEF CycleIdle, LoopEnds, LifeTypes
  <2>3. status' \in [running: BOOLEAN, outcome: Outcomes]
    <3>1. "idle" \in Outcomes
      BY DEF Outcomes
    <3> QED BY <1>1, <1>4, <3>1, PublishedIs DEF CycleIdle, LoopEnds, PassTypes
  <2>4. PassTypes'
    BY <1>1, <1>2, <2>1, <2>3 DEF PassTypes
  <2>5. Live' \subseteq Live
    BY <1>2, <2>1, <2>2 DEF Live
  <2>6. Standing' /\ (ConnectsInCycle' => ConnectsInCycle)
    BY <1>1, <1>2, <2>1, <2>2, <2>5 DEF Standing, ConnectsInCycle
  <2>7. Doubled' = 0 \/ Doubled = 1
    BY <1>2, <2>1, <2>6 DEF Doubled
  <2>8. Counted'
    BY <1>2, <2>1, <2>7, StillCounted
  <2> QED BY <1>1, <2>4, <2>6, <2>8 DEF WorkerInv
<1> QED BY <1>3, <1>4 DEF LoopStep

(* What moves no pass.                                                     *)
LEMMA NoPassMoves ==
  ASSUME WorkerInv, LineInv', UNCHANGED <<generation, pass, abandoned>>,
         \A s \in Runs : runs'[s].state = "cycle" => runs[s].state = "cycle",
         breaker' \in [Devices -> BreakerState], status' \in [running: BOOLEAN, outcome: Outcomes],
         \/ UNCHANGED <<client, sockets>>
         \/ client' \in {0, client} /\ sockets' = sockets \ {client}
  PROVE  WorkerInv'
<1>1. PassTypes /\ Standing /\ 0 \notin sockets
  BY Sums DEF WorkerInv
<1>2. PassTypes'
  BY <1>1 DEF PassTypes
<1>3. Live' \subseteq Live
  BY DEF Live
<1>4. Standing' /\ (ConnectsInCycle' => ConnectsInCycle)
  BY <1>1, <1>3 DEF Standing, ConnectsInCycle
<1>5. Doubled' = 0 \/ Doubled = 1
  BY <1>1, <1>4 DEF Doubled
<1>6. Counted'
  BY <1>1, <1>5, StillCounted
<1> QED BY <1>2, <1>4, <1>6 DEF WorkerInv

LEMMA OtherWorker ==
  ASSUME WorkerInv,
         \/ Start \/ Stop \/ \E k \in Stops : StopEnds(k)
         \/ LinkDrops \/ (\E d \in Devices : ProbeDue(d)) \/ UNCHANGED vars
  PROVE  WorkerInv'
<1>1. PassTypes /\ LifeTypes /\ LineInv'
  BY CommandLine, OutsideLine DEF WorkerInv, LineInv, TurnInv
<1>2. UNCHANGED <<generation, pass, abandoned>>
  BY DEF Start, Stop, StopEnds, LinkDrops, ProbeDue, vars
<1>3. \A s \in Runs : runs'[s].state = "cycle" => runs[s].state = "cycle"
  <2>1. CASE Start
    <3>1. runs' = [runs EXCEPT ![runId'] = [state |-> "waiting", after |-> stopping]]
      BY <2>1 DEF Start
    <3> QED BY <1>1, <3>1 DEF LifeTypes
  <2>2. CASE ~Start
    <3>1. UNCHANGED runs
      BY <2>2 DEF Stop, StopEnds, LinkDrops, ProbeDue, vars
    <3> QED BY <3>1
  <2> QED BY <2>1, <2>2
<1>4. breaker' \in [Devices -> BreakerState]
  <2>1. CASE \E d \in Devices : ProbeDue(d)
    BY <1>1, <2>1 DEF ProbeDue, PassTypes, BreakerState
  <2>2. CASE ~\E d \in Devices : ProbeDue(d)
    BY <1>1, <2>2 DEF Start, Stop, StopEnds, LinkDrops, vars, PassTypes
  <2> QED BY <2>1, <2>2
<1>5. status' \in [running: BOOLEAN, outcome: Outcomes]
  <2>1. status' \in {status, Published(status.outcome)}
    BY DEF Start, Stop, StopEnds, LinkDrops, ProbeDue, vars
  <2>2. status.outcome \in Outcomes
    BY <1>1 DEF PassTypes
  <2> QED BY <1>1, <2>1, <2>2, PublishedIs DEF PassTypes
<1>6. \/ UNCHANGED <<client, sockets>>
      \/ client' \in {0, client} /\ sockets' = sockets \ {client}
  BY DEF Start, Stop, StopEnds, LinkDrops, ProbeDue, vars
<1> QED BY <1>1, <1>2, <1>3, <1>4, <1>5, <1>6, NoPassMoves

LEMMA WorkerStep == WorkerInv /\ [Next]_vars => WorkerInv'
BY OtherWorker, LoopWorker, WatchdogWorker, PassWorker DEF Next

(* What closes connections, ends passes or lets a late one read.           *)
LEMMA FewerLeft ==
  ASSUME WorkerInv, Cardinality(sockets) + Cardinality(Late(abandoned)) <= generation,
         NEW S \in SUBSET sockets, NEW L1 \in SUBSET Late(abandoned)
  PROVE  Cardinality(S) + Cardinality(L1) <= generation
<1>1. IsFiniteSet(sockets) /\ IsFiniteSet(Late(abandoned)) /\ generation \in Nat
  BY Sums
<1>2. PICK n, m : n = Cardinality(sockets) /\ m = Cardinality(Late(abandoned))
  OBVIOUS
<1>3. n \in Nat /\ m \in Nat
  BY <1>1, <1>2, FS_CardinalityType
<1>4. Cardinality(S) <= n /\ Cardinality(S) \in Nat
  BY <1>1, <1>2, FS_Subset, FS_CardinalityType
<1>5. Cardinality(L1) <= m /\ Cardinality(L1) \in Nat
  BY <1>1, <1>2, FS_Subset, FS_CardinalityType
<1>6. n + m <= generation
  BY <1>2
<1> QED BY <1>1, <1>3, <1>4, <1>5, <1>6

(* The last stop ends: the connection of the client is closed, and what    *)
(* others were left is counted.                                            *)
LEMMA StopLeaves ==
  ASSUME WorkerInv, NEW k \in Stops, StopEnds(k), ~running
  PROVE  Cardinality(sockets') + Cardinality(Late(abandoned')) <= generation'
<1>1. sockets' = sockets \ {client} /\ UNCHANGED <<abandoned, generation>>
  BY DEF StopEnds
<1>2. PICK n, m : n = Cardinality(sockets \ {client}) /\ m = Cardinality(Late(abandoned))
  OBVIOUS
<1>3. n \in Nat /\ m \in Nat /\ Doubled \in {0, 1} /\ generation \in Nat
  BY <1>2, Sums
<1>4. n + m + Doubled <= generation
  BY <1>2 DEF WorkerInv, Counted
<1>5. n + m <= generation
  BY <1>3, <1>4
<1> QED BY <1>1, <1>2, <1>5

(* While the worker is off only passes that were given up take steps.      *)
LEMMA LatePassLeaves ==
  ASSUME WorkerInv, NEW p \in abandoned, PassStep(p), \A r \in Runs : runs[r].state # "cycle",
         Cardinality(sockets) + Cardinality(Late(abandoned)) <= generation
  PROVE  Cardinality(sockets') + Cardinality(Late(abandoned')) <= generation'
<1>1. p.gen # generation /\ generation \in Nat /\ IsFiniteSet(abandoned) /\ IsFiniteSet(sockets)
      /\ IsFiniteSet(Late(abandoned))
  BY Sums DEF WorkerInv, LineInv, Generations, IsPass
<1>2. PICK n, m : n = Cardinality(sockets) /\ m = Cardinality(Late(abandoned))
  OBVIOUS
<1>3. n \in Nat /\ m \in Nat /\ n + m <= generation
  BY <1>1, <1>2, FS_CardinalityType
<1>4. ASSUME NEW q, q.at = "reading", Goes(p, q)
      PROVE  /\ Cardinality(Late(abandoned')) \in Nat
             /\ Cardinality(Late(abandoned')) <= m - (IF p.at = "connecting" THEN 1 ELSE 0)
  <2>1. abandoned' = (abandoned \ {p}) \cup {q}
    BY <1>4 DEF Goes
  <2>2. /\ IsFiniteSet(abandoned')
        /\ Cardinality(Late(abandoned')) <= m - (IF p.at = "connecting" THEN 1 ELSE 0)
    BY <1>1, <1>2, <1>4, <2>1, LateGoes
  <2>3. Late(abandoned') \in SUBSET abandoned'
    BY DEF Late
  <2> QED BY <2>2, <2>3, FS_Subset, FS_CardinalityType
<1>5. CASE Connect(p)
  <2> DEFINE q == [p EXCEPT !.at = "reading", !.conn = Unused]
  <2>1. /\ p.at = "connecting" /\ Goes(p, q) /\ sockets' = sockets \cup {Unused}
        /\ UNCHANGED generation
    BY <1>5 DEF Connect
  <2>2. q.at = "reading"
    <3>1. p \in Pass
      BY DEF WorkerInv, PassTypes
    <3> QED BY <3>1 DEF Pass
  <2> HIDE DEF q
  <2>3. Cardinality(Late(abandoned')) \in Nat /\ Cardinality(Late(abandoned')) <= m - 1
    BY <1>4, <2>1, <2>2
  <2>4. Cardinality(sockets') <= n + 1 /\ Cardinality(sockets') \in Nat
    <3>1. /\ IsFiniteSet(sockets')
          /\ Cardinality(sockets') = IF Unused \in sockets THEN n ELSE n + 1
      BY <1>1, <1>2, <2>1, FS_AddElement
    <3> QED BY <1>3, <3>1
  <2> QED BY <1>1, <1>3, <2>1, <2>3, <2>4
<1>6. CASE ReadBlock(p)
  <2> DEFINE q == [p EXCEPT !.block = @ + 1, !.conn = client]
  <2>1. p.at = "reading" /\ Goes(p, q) /\ UNCHANGED <<sockets, generation>>
    BY <1>6 DEF ReadBlock
  <2>2. q.at = "reading"
    <3>1. p \in Pass
      BY DEF WorkerInv, PassTypes
    <3> QED BY <2>1, <3>1 DEF Pass
  <2> HIDE DEF q
  <2>3. Cardinality(Late(abandoned')) \in Nat /\ Cardinality(Late(abandoned')) <= m
    BY <1>3, <1>4, <2>1, <2>2
  <2> QED BY <1>1, <1>2, <1>3, <2>1, <2>3
<1>7. CASE ConnectFails(p) \/ ReadDone(p) \/ ReadFails(p) \/ ReadBreaks(p)
  <2>1. UNCHANGED <<sockets, generation>> /\ \E how \in Outcomes : Leaves(p, how)
    BY <1>1, <1>7 DEF ConnectFails, ReadDone, ReadFails, ReadBreaks, DeviceDone, Outcomes
  <2>2. abandoned' = abandoned \ {p}
    BY <2>1 DEF Leaves
  <2>3. Late(abandoned') \in SUBSET Late(abandoned)
    BY <2>2 DEF Late
  <2> QED BY <2>1, <2>3, FewerLeft
<1> QED BY <1>5, <1>6, <1>7 DEF PassStep

LEMMA OffStays == WorkerInv /\ OffCounted /\ [Next]_vars => OffCounted'
<1> SUFFICES ASSUME WorkerInv, OffCounted, [Next]_vars, ~running', Settled'
             PROVE  Cardinality(sockets') + Cardinality(Late(abandoned')) <= generation'
  BY DEF OffCounted, Late
<1>1. LifeTypes /\ TurnInv
  BY DEF WorkerInv, LineInv, TurnInv
<1>2. ~Start /\ ~Stop
  <2>1. ~Start
    BY DEF Start
  <2>2. ASSUME Stop PROVE \E k \in Stops : stops'[k].state = "pending"
    BY <1>1, <2>2 DEF Stop, LifeTypes
  <2> QED BY <2>1, <2>2 DEF Settled
<1>3. CASE \E k \in Stops : StopEnds(k)
  <2>1. PICK k \in Stops : StopEnds(k)
    BY <1>3
  <2>2. ~running
    BY <2>1 DEF StopEnds
  <2>3. Cardinality(sockets') + Cardinality(Late(abandoned')) <= generation'
    BY <2>1, <2>2, StopLeaves
  <2> QED BY <2>3
<1>4. CASE ~\E k \in Stops : StopEnds(k)
  <2>1. UNCHANGED <<running, stops>>
    BY <1>2, <1>4 DEF Next, LinkDrops, LoopStep, CycleStart, CycleIdle, LoopEnds, Watchdog, PassStep,
      Connect, ConnectFails, ReadBlock, ReadDone, ReadFails, ReadBreaks, DeviceDone, ProbeDue,
      lifecycle, vars
  <2>2. ~running /\ Settled
    BY <2>1 DEF Settled
  <2>3. Cardinality(sockets) + Cardinality(Late(abandoned)) <= generation
    BY <2>2 DEF OffCounted
  <2>4. \A r \in Runs : ~Unended(r)
    BY <1>1, <2>2, CycleIsAwaited
  <2>5. \A r \in Runs : ~LoopStep(r) /\ ~Watchdog(r)
    BY <2>4 DEF LoopStep, CycleStart, CycleIdle, LoopEnds, Awake, Watchdog, Unended
  <2>6. Live = abandoned /\ \A r \in Runs : runs[r].state # "cycle"
    BY <2>4 DEF Live, Unended
  <2>7. CASE \E p \in Live : PassStep(p)
    BY <2>3, <2>6, <2>7, LatePassLeaves
  <2>8. CASE LinkDrops \/ (\E d \in Devices : ProbeDue(d)) \/ UNCHANGED vars
    <3>1. sockets' \in SUBSET sockets /\ UNCHANGED <<abandoned, generation>>
      BY <2>8 DEF LinkDrops, ProbeDue, vars
    <3>2. Late(abandoned') \in SUBSET Late(abandoned)
      BY <3>1
    <3> QED BY <2>3, <3>1, <3>2, FewerLeft
  <2> QED BY <1>2, <1>4, <2>5, <2>7, <2>8 DEF Next
<1> QED BY <1>3, <1>4

LEMMA InitSafe == Init => SafeInv
<1> SUFFICES ASSUME Init PROVE OffCounted
  BY InitWorker DEF SafeInv
<1>1. sockets = {} /\ Late(abandoned) = {} /\ generation = 0
  BY DEF Init, Late
<1> QED BY <1>1, FS_EmptySet DEF OffCounted

LEMMA SafeStep == SafeInv /\ [Next]_vars => SafeInv'
BY WorkerStep, OffStays DEF SafeInv

LEMMA WorkerSound == SafeInv => OneCycleOrNone
<1> SUFFICES ASSUME SafeInv PROVE OneCycleOrNone
  OBVIOUS
<1>1. OneCycle /\ LifeTypes /\ PassTypes
  BY TurnMeansOneCycle DEF SafeInv, WorkerInv, LineInv, TurnInv
<1>2. TypeOK
  BY <1>1 DEF TypeOK, LifeTypes, PassTypes, Outcomes
<1>3. ClosedWhenStopped
  <2> SUFFICES ASSUME ~running, Settled
               PROVE  /\ Cardinality(sockets) <= generation
                      /\ \A r \in Runs : runs[r].state \in {"none", "done"}
    BY DEF ClosedWhenStopped
  <2>1. \A r \in Runs : ~Unended(r)
    BY CycleIsAwaited DEF SafeInv, WorkerInv, LineInv
  <2>2. WorkerInv /\ Cardinality(sockets) + Cardinality(Late(abandoned)) <= generation
    BY DEF SafeInv, OffCounted
  <2>3. Cardinality(Late(abandoned)) \in Nat /\ Cardinality(sockets) \in Nat /\ generation \in Nat
    BY <2>2, Sums, FS_CardinalityType
  <2>4. Cardinality(sockets) <= generation
    BY <2>2, <2>3
  <2> QED BY <1>1, <2>1, <2>4 DEF LifeTypes, Unended
<1> QED BY <1>1, <1>2, <1>3 DEF OneCycleOrNone

-------------------------------------------------------------------------------
(* The port of the simulator and the client that asks it.                  *)

Requests == [socket: Slots, tx: Nat \ {0}, unit: {Units[k] : k \in DOMAIN Units}]
Replies == [request: Requests, kind: {"silent", "refused", "ok"}]
Exchanges == [on: {TRUE}, request: Requests, answer: {"silent", "refused", "ok"}, slow: Int]

PortTypes ==
  /\ queue \in Seq(Requests) /\ down \in Seq(Replies)
  /\ bus = L!Idle \/ bus \in Exchanges
  /\ link \in [socket: Slots \cup {L!NoSocket}, open: BOOLEAN, tx: Nat, turn: 1..Len(Units)]
  /\ port \in [open: BOOLEAN, doing: {"nothing", "listen", "close"}]
  /\ socks \in [Slots -> {"free", "live", "dead"}]
  /\ link.open => link.socket \in Slots

(* Requests between the client and the port, in either direction.          *)
Travelling ==
  {queue[k] : k \in DOMAIN queue} \cup {down[k].request : k \in DOMAIN down}
    \cup (IF bus.on THEN {bus.request} ELSE {})

(* The one that the client waits for is about the unit it asks.            *)
Matching == \A r \in Travelling : r.socket = link.socket /\ r.tx = link.tx => r.unit = L!UnitAsked

SimPortInv == PortTypes /\ Matching /\ L!LineIsTrue

LEMMA InitSimPort == ASSUME L!SimInit PROVE SimPortInv
<1>1. queue = <<>> /\ down = <<>> /\ bus = L!Idle
  BY DEF L!SimInit
<1>2. Travelling = {}
  BY <1>1 DEF Travelling, L!Idle
<1>3. 1 \in 1..Len(Units)
  BY EndsOfLineAssumption
<1>4. PortTypes
  BY <1>1, <1>3 DEF L!SimInit, PortTypes, L!Closed
<1>5. L!LineIsTrue
  BY DEF L!SimInit, L!LineIsTrue
<1> QED BY <1>2, <1>4, <1>5 DEF SimPortInv, Matching

(* What leaves the client alone and sends nothing new.                     *)
LEMMA StillMatching ==
  ASSUME Matching, Travelling' \subseteq Travelling, link'.socket = link.socket, link'.tx = link.tx,
         link'.turn = link.turn
  PROVE  Matching'
BY DEF Matching, L!UnitAsked

LEMMA TravellingIs == PortTypes => Travelling \subseteq Requests
<1> SUFFICES ASSUME PortTypes PROVE Travelling \subseteq Requests
  OBVIOUS
<1>1. \A k \in DOMAIN queue : queue[k] \in Requests
  BY DEF PortTypes
<1>2. ASSUME NEW k \in DOMAIN down PROVE down[k].request \in Requests
  <2>1. down[k] \in Replies
    BY DEF PortTypes
  <2> QED BY <2>1 DEF Replies
<1>3. bus.on => bus.request \in Requests
  <2>1. CASE bus = L!Idle
    BY <2>1 DEF L!Idle
  <2>2. CASE bus \in Exchanges
    BY <2>2 DEF Exchanges
  <2> QED BY <2>1, <2>2 DEF PortTypes
<1> QED BY <1>1, <1>2, <1>3 DEF Travelling

LEMMA NothingMatches ==
  ASSUME PortTypes', link'.tx = 0
  PROVE  Matching'
<1>1. (Travelling \subseteq Requests)'
  BY TravellingIs, PTL
<1>2. \A r \in Travelling' : r.tx # 0
  BY <1>1 DEF Requests
<1> QED BY <1>2 DEF Matching

(* Steps of faults and of the port itself: no request moves.               *)
LEMMA PortSteps ==
  ASSUME SimPortInv,
         \/ \E f \in L!Applicable : L!Inject(f) \/ L!FaultEnds(f)
         \/ \E t, k : L!ClearFaults(t, k)
         \/ L!ListenFails \/ L!Sync \/ L!ListenEnds \/ L!CloseEnds
         \/ \E s \in Slots : L!ServerSeesClose(s)
         \/ UNCHANGED simulated
  PROVE  SimPortInv'
<1>1. UNCHANGED <<queue, bus, down, link, got>>
  BY DEF L!Inject, L!FaultEnds, L!ClearFaults, L!ListenFails, L!Sync, L!ListenEnds, L!CloseEnds,
         L!ServerSeesClose, simulated
<1>2. PortTypes /\ Matching /\ L!LineIsTrue
  BY DEF SimPortInv
<1>3. Matching'
  <2>1. Travelling' = Travelling
    BY <1>1 DEF Travelling
  <2> QED BY <1>1, <1>2, <2>1, StillMatching
<1>4. /\ port' \in [open: BOOLEAN, doing: {"nothing", "listen", "close"}]
      /\ socks' \in [Slots -> {"free", "live", "dead"}]
      /\ ~port'.open => \A s \in Slots : socks'[s] # "live"
  <2>1. /\ port \in [open: BOOLEAN, doing: {"nothing", "listen", "close"}]
        /\ socks \in [Slots -> {"free", "live", "dead"}]
        /\ ~port.open => \A s \in Slots : socks[s] # "live"
    BY <1>2 DEF PortTypes, L!LineIsTrue, L!Alive
  <2>2. CASE UNCHANGED <<port, socks>>
    BY <2>1, <2>2
  <2>3. CASE L!ListenFails \/ L!ListenEnds \/ L!CloseEnds
    <3>1. PICK o, d : o \in BOOLEAN /\ d \in {"nothing", "listen", "close"}
            /\ port' = [open |-> o, doing |-> d]
                     /\ (o = port.open \/ o = TRUE)
      <4>1. port = [open |-> port.open, doing |-> port.doing]
        BY <2>1
      <4>2. port' = [open |-> port.open, doing |-> "nothing"]
              \/ port' = [open |-> TRUE, doing |-> "nothing"]
        BY <2>3, <4>1 DEF L!ListenFails, L!ListenEnds, L!CloseEnds
      <4> QED BY <2>1, <4>2
    <3>2. UNCHANGED socks
      BY <2>3 DEF L!ListenFails, L!ListenEnds, L!CloseEnds
    <3> QED BY <2>1, <3>1, <3>2
  <2>4. CASE L!Sync
    <3>1. port = [open |-> port.open, doing |-> port.doing]
      BY <2>1
    <3>2. \/ port' = [open |-> port.open, doing |-> "listen"] /\ UNCHANGED socks
          \/ port' = [open |-> FALSE, doing |-> "close"]
             /\ socks' = [s \in Slots |-> IF socks[s] = "live" THEN "dead" ELSE socks[s]]
      BY <2>4, <3>1 DEF L!Sync
    <3>3. CASE port' = [open |-> port.open, doing |-> "listen"] /\ UNCHANGED socks
      BY <2>1, <3>3
    <3>4. CASE /\ port' = [open |-> FALSE, doing |-> "close"]
               /\ socks' = [s \in Slots |-> IF socks[s] = "live" THEN "dead" ELSE socks[s]]
      <4>1. socks' \in [Slots -> {"free", "live", "dead"}] /\ \A s \in Slots : socks'[s] # "live"
        BY <2>1, <3>4
      <4> QED BY <3>4, <4>1
    <3> QED BY <3>2, <3>3, <3>4
  <2>5. CASE \E s \in Slots : L!ServerSeesClose(s)
    BY <2>1, <2>5 DEF L!ServerSeesClose, L!Alive
  <2> QED BY <2>2, <2>3, <2>4, <2>5 DEF L!Inject, L!FaultEnds, L!ClearFaults, simulated
<1>5. PortTypes'
  BY <1>1, <1>2, <1>4 DEF PortTypes
<1>6. L!LineIsTrue'
  BY <1>1, <1>2, <1>4 DEF L!LineIsTrue, L!Alive
<1> QED BY <1>3, <1>5, <1>6 DEF SimPortInv

LEMMA ServeBeginsPort == ASSUME SimPortInv, L!ServeBegins PROVE SimPortInv'
<1>1. PortTypes /\ Matching /\ L!LineIsTrue /\ UNCHANGED <<port, socks, down, link, got>>
  BY DEF SimPortInv, L!ServeBegins
<1>2. PICK r : r = Head(queue)
  OBVIOUS
<1>3. ~bus.on /\ queue # <<>> /\ queue' = Tail(queue) /\ queue \in Seq(Requests)
  BY <1>1 DEF L!ServeBegins, PortTypes
<1>4. r \in Requests /\ queue' \in Seq(Requests) /\ r = queue[1] /\ 1 \in DOMAIN queue
      /\ \A k \in DOMAIN queue' : k + 1 \in DOMAIN queue /\ queue'[k] = queue[k + 1]
  BY <1>2, <1>3
<1>5. bus' = bus \/ (bus'.request = r /\ bus' \in Exchanges)
  <2>1. PICK a, n : a = L!AnswerOf(r.unit)
          /\ n = (IF L!Has(r.unit, "stall") \/ a = "silent" THEN SlowFor ELSE 0)
    OBVIOUS
  <2>2. a \in {"silent", "refused", "ok"} /\ n \in Int
    BY <2>1, EndsOfLineAssumption DEF L!AnswerOf
  <2>3. bus' = IF L!Alive(r.socket) THEN [on |-> TRUE, request |-> r, answer |-> a, slow |-> n] ELSE bus
    BY <1>2, <2>1 DEF L!ServeBegins
  <2> QED BY <1>4, <2>2, <2>3 DEF Exchanges
<1>6. Travelling' \subseteq Travelling
  <2>1. {queue'[k] : k \in DOMAIN queue'} \cup {r} \subseteq {queue[k] : k \in DOMAIN queue}
    BY <1>4
  <2>2. bus'.on => bus'.request = r
    BY <1>3, <1>5
  <2> QED BY <1>1, <2>1, <2>2 DEF Travelling
<1>7. PortTypes'
  BY <1>1, <1>4, <1>5 DEF PortTypes
<1>8. Matching'
  BY <1>1, <1>6, StillMatching
<1> QED BY <1>1, <1>7, <1>8 DEF SimPortInv, L!LineIsTrue, L!Alive

LEMMA ServeEndsPort == ASSUME SimPortInv, L!ServeEnds PROVE SimPortInv'
<1>1. PortTypes /\ Matching /\ L!LineIsTrue /\ UNCHANGED <<port, socks, queue, link, got>>
  BY DEF SimPortInv, L!ServeEnds
<1>2. bus.on /\ bus' = L!Idle /\ bus \in Exchanges /\ down \in Seq(Replies)
  BY <1>1 DEF L!ServeEnds, PortTypes, L!Idle
<1>3. PICK d : d = [request |-> bus.request, kind |-> bus.answer]
  OBVIOUS
<1>4. d \in Replies /\ d.request = bus.request
  BY <1>2, <1>3 DEF Exchanges, Replies
<1>5. down' = down \/ down' = Append(down, d)
  BY <1>3 DEF L!ServeEnds
<1>6. down' \in Seq(Replies)
        /\ \A k \in DOMAIN down' : down'[k] = d \/ (k \in DOMAIN down /\ down'[k] = down[k])
  BY <1>2, <1>4, <1>5
<1>7. Travelling' \subseteq Travelling
  <2>1. ~bus'.on
    BY <1>2 DEF L!Idle
  <2> QED BY <1>1, <1>2, <1>4, <1>6, <2>1 DEF Travelling
<1>8. PortTypes'
  BY <1>1, <1>2, <1>6 DEF PortTypes
<1>9. Matching'
  BY <1>1, <1>7, StillMatching
<1> QED BY <1>1, <1>8, <1>9 DEF SimPortInv, L!LineIsTrue, L!Alive

-------------------------------------------------------------------------------
(* The client.                                                             *)
LEMMA LinkIs ==
  ASSUME PortTypes
  PROVE  /\ link = [socket |-> link.socket, open |-> link.open, tx |-> link.tx, turn |-> link.turn]
         /\ link.socket \in Slots \cup {L!NoSocket} /\ link.open \in BOOLEAN /\ link.tx \in Nat
         /\ link.turn \in 1..Len(Units)
BY DEF PortTypes

LEMMA NextTurnIs ==
  ASSUME PortTypes
  PROVE  \E n \in 1..Len(Units) :
           L!NextTurn(link) = [socket |-> link.socket, open |-> link.open, tx |-> 0, turn |-> n]
<1>1. Len(Units) \in Nat \ {0}
  BY EndsOfLineAssumption
<1>2. PICK n : n = (link.turn % Len(Units)) + 1
  OBVIOUS
<1>3. n \in 1..Len(Units)
  BY <1>1, <1>2, LinkIs
<1>4. L!NextTurn(link) = [link EXCEPT !.tx = 0, !.turn = n]
  BY <1>2 DEF L!NextTurn
<1>5. link = [socket |-> link.socket, open |-> link.open, tx |-> link.tx, turn |-> link.turn]
  BY LinkIs
<1>6. [link EXCEPT !.tx = 0, !.turn = n]
        = [socket |-> link.socket, open |-> link.open, tx |-> 0, turn |-> n]
  <2>1. PICK s, o, x, u : /\ link = [socket |-> s, open |-> o, tx |-> x, turn |-> u]
                          /\ s = link.socket /\ o = link.open
    BY <1>5
  <2>2. PICK z : z = [link EXCEPT !.tx = 0, !.turn = n]
    OBVIOUS
  <2>3. z = [socket |-> s, open |-> o, tx |-> 0, turn |-> n]
    BY ONLY <2>1, <2>2
  <2> QED BY <2>1, <2>2, <2>3
<1> QED BY <1>3, <1>4, <1>6

(* A client that waits for nothing any more, and what it was told.         *)
LEMMA ClientRests ==
  ASSUME SimPortInv, UNCHANGED <<port, queue>>, down' \in Seq(Replies),
         bus' = L!Idle \/ bus' \in Exchanges,
         link' \in [socket: Slots \cup {L!NoSocket}, open: BOOLEAN, tx: {0}, turn: 1..Len(Units)],
         link'.open => link'.socket \in Slots,
         socks' \in [Slots -> {"free", "live", "dead"}],
         \A s \in Slots : socks'[s] = "live" => socks[s] = "live" \/ port.open,
         got' = got \/ got'.kind = "failed" \/ got'.of = got'.asked
  PROVE  SimPortInv'
<1>1. PortTypes /\ L!LineIsTrue
  BY DEF SimPortInv
<1>2. link' \in [socket: Slots \cup {L!NoSocket}, open: BOOLEAN, tx: Nat, turn: 1..Len(Units)]
        /\ link'.tx = 0
  OBVIOUS
<1>3. PortTypes'
  BY <1>1, <1>2 DEF PortTypes
<1>4. Matching'
  BY <1>2, <1>3, NothingMatches
<1>5. L!LineIsTrue'
  BY <1>1 DEF L!LineIsTrue, L!Alive
<1> QED BY <1>3, <1>4, <1>5 DEF SimPortInv

LEMMA ConnectPort == ASSUME SimPortInv, L!Connect PROVE SimPortInv'
<1>1. PortTypes /\ UNCHANGED <<port, queue, bus, down, got>> /\ link.tx = 0 /\ port.open
  BY DEF SimPortInv, L!Connect, L!Waits
<1>2. PICK s \in Slots : /\ socks' = [socks EXCEPT ![s] = IF L!IsLineOnline THEN "live" ELSE "dead"]
                          /\ link' = [link EXCEPT !.socket = s, !.open = TRUE]
  BY DEF L!Connect
<1>3. link' = [socket |-> s, open |-> TRUE, tx |-> 0, turn |-> link.turn] /\ link.turn \in 1..Len(Units)
  BY <1>1, <1>2, LinkIs
<1>4. socks' \in [Slots -> {"free", "live", "dead"}]
  BY <1>1, <1>2 DEF PortTypes
<1>5. link' \in [socket: Slots \cup {L!NoSocket}, open: BOOLEAN, tx: {0}, turn: 1..Len(Units)]
        /\ link'.socket \in Slots
  BY <1>3
<1>6. down' \in Seq(Replies) /\ (bus' = L!Idle \/ bus' \in Exchanges)
  BY <1>1 DEF PortTypes
<1> QED BY <1>1, <1>4, <1>5, <1>6, ClientRests

LEMMA RefusedPort == ASSUME SimPortInv, L!ConnectRefused PROVE SimPortInv'
<1>1. PortTypes /\ UNCHANGED <<port, socks, queue, bus, down>> /\ link.tx = 0 /\ ~link.open
      /\ got'.kind = "failed" /\ link' = [link EXCEPT !.socket = L!NoSocket, !.turn = 1]
  BY DEF SimPortInv, L!ConnectRefused, L!Waits, L!Results
<1>2. 1 \in 1..Len(Units)
  BY EndsOfLineAssumption
<1>3. link' = [socket |-> L!NoSocket, open |-> FALSE, tx |-> 0, turn |-> 1]
  BY <1>1, LinkIs
<1>4. link' \in [socket: Slots \cup {L!NoSocket}, open: BOOLEAN, tx: {0}, turn: 1..Len(Units)]
        /\ ~link'.open
  BY <1>2, <1>3
<1>5. /\ down' \in Seq(Replies) /\ (bus' = L!Idle \/ bus' \in Exchanges)
         /\ socks' \in [Slots -> {"free", "live", "dead"}]
      /\ \A s \in Slots : socks'[s] = "live" => socks[s] = "live"
  BY <1>1 DEF PortTypes
<1> QED BY <1>1, <1>4, <1>5, ClientRests

LEMMA TimeoutPort == ASSUME SimPortInv, L!SoftTimeout \/ L!HardTimeout PROVE SimPortInv'
<1>1. PortTypes /\ UNCHANGED <<port, socks, queue, down>> /\ got'.kind = "failed"
  BY DEF SimPortInv, L!SoftTimeout, L!HardTimeout, L!Results
<1>2. PICK n \in 1..Len(Units) :
           L!NextTurn(link) = [socket |-> link.socket, open |-> link.open, tx |-> 0, turn |-> n]
  BY <1>1, NextTurnIs
<1>3. \/ link' = [socket |-> link.socket, open |-> link.open, tx |-> 0, turn |-> n]
      \/ link' = [socket |-> L!NoSocket, open |-> FALSE, tx |-> 0, turn |-> n]
  <2>1. PICK l : l = L!NextTurn(link)
    OBVIOUS
  <2>2. link' = l \/ link' = [l EXCEPT !.socket = L!NoSocket, !.open = FALSE]
    BY <2>1 DEF L!SoftTimeout, L!HardTimeout
  <2>3. l = [socket |-> link.socket, open |-> link.open, tx |-> 0, turn |-> n]
    BY <1>2, <2>1
  <2> QED BY <2>2, <2>3
<1>4. /\ link' \in [socket: Slots \cup {L!NoSocket}, open: BOOLEAN, tx: {0}, turn: 1..Len(Units)]
      /\ link'.open => link'.socket \in Slots
  <2>1. CASE link' = [socket |-> link.socket, open |-> link.open, tx |-> 0, turn |-> n]
    BY <1>1, <2>1, LinkIs DEF PortTypes
  <2>2. CASE link' = [socket |-> L!NoSocket, open |-> FALSE, tx |-> 0, turn |-> n]
    BY <2>2
  <2> QED BY <1>3, <2>1, <2>2
<1>5. /\ down' \in Seq(Replies) /\ socks' \in [Slots -> {"free", "live", "dead"}]
      /\ \A s \in Slots : socks'[s] = "live" => socks[s] = "live"
  BY <1>1 DEF PortTypes
<1>6. bus' = L!Idle \/ bus' \in Exchanges
  <2>1. CASE bus' = bus
    BY <1>1, <2>1 DEF PortTypes
  <2>2. CASE L!Slow /\ bus' = [bus EXCEPT !.slow = @ - 1]
    <3>1. bus \in Exchanges
      BY <1>1, <2>2 DEF PortTypes, L!Slow, L!Idle
    <3>2. PICK r \in Requests, a \in {"silent", "refused", "ok"}, k \in Int :
            bus = [on |-> TRUE, request |-> r, answer |-> a, slow |-> k]
      BY <3>1 DEF Exchanges
    <3>3. bus' = [on |-> TRUE, request |-> r, answer |-> a, slow |-> k - 1]
      BY <2>2, <3>2
    <3>4. k - 1 \in Int
      OBVIOUS
    <3> QED BY ONLY <3>2, <3>3, <3>4, r \in Requests, a \in {"silent", "refused", "ok"} DEF Exchanges
  <2> QED BY <2>1, <2>2 DEF L!SoftTimeout, L!HardTimeout
<1> QED BY <1>1, <1>4, <1>5, <1>6, ClientRests

LEMMA ClosePort == ASSUME SimPortInv, L!ClientSeesClose PROVE SimPortInv'
<1>1. PortTypes /\ Matching /\ L!LineIsTrue /\ UNCHANGED <<port, socks, queue, bus, down, got>>
      /\ link' = [link EXCEPT !.open = FALSE]
  BY DEF SimPortInv, L!ClientSeesClose
<1>2. link' = [socket |-> link.socket, open |-> FALSE, tx |-> link.tx, turn |-> link.turn]
  BY <1>1, LinkIs
<1>3. PortTypes'
  BY <1>1, <1>2, LinkIs DEF PortTypes
<1>4. Travelling' = Travelling
  BY <1>1 DEF Travelling
<1>5. Matching'
  BY <1>1, <1>2, <1>4, StillMatching
<1>6. L!LineIsTrue'
  BY <1>1 DEF L!LineIsTrue, L!Alive
<1> QED BY <1>3, <1>5, <1>6 DEF SimPortInv

-------------------------------------------------------------------------------
(* A transaction that no request on the way has: one of as many numbers    *)
(* as there are taken, and one more.                                       *)
LEMMA TakenIs ==
  PortTypes => L!Transactions \subseteq {r.tx : r \in Travelling} /\ IsFiniteSet(L!Transactions)
               /\ \A r \in Travelling : r.tx \in L!Transactions
<1> SUFFICES ASSUME PortTypes
             PROVE  L!Transactions \subseteq {r.tx : r \in Travelling} /\ IsFiniteSet(L!Transactions)
                    /\ \A r \in Travelling : r.tx \in L!Transactions
  OBVIOUS
<1>1. PICK Q, D : Q = {queue[k] : k \in DOMAIN queue} /\ D = {down[k].request : k \in DOMAIN down}
  OBVIOUS
<1>2. queue \in Seq(Requests) /\ down \in Seq(Replies)
  BY DEF PortTypes
<1>3. L!ToSet(queue) = Q
  BY <1>1, <1>2 DEF L!ToSet
<1>4. {d.request : d \in L!ToSet(down)} = D
  BY <1>1, <1>2 DEF L!ToSet
<1>5. Travelling = Q \cup D \cup (IF bus.on THEN {bus.request} ELSE {})
  BY <1>1 DEF Travelling
<1>6. \A s : L!Outstanding(s) = {r \in Travelling : r.socket = s}
  BY <1>3, <1>4, <1>5 DEF L!Outstanding
<1>7. \A r \in Travelling : r.socket \in Slots
  BY TravellingIs DEF Requests
<1>8. L!Transactions = {r.tx : r \in Travelling}
  BY <1>6, <1>7 DEF L!Transactions
<1>9. IsFiniteSet(Travelling)
  <2>1. DOMAIN queue = 1..Len(queue) /\ DOMAIN down = 1..Len(down) /\ Len(queue) \in Nat
          /\ Len(down) \in Nat
    BY <1>2
  <2>2. IsFiniteSet(1..Len(queue)) /\ IsFiniteSet(1..Len(down))
    BY <2>1, FS_Interval
  <2>3. IsFiniteSet(Q)
    <3> DEFINE f == [k \in 1..Len(queue) |-> queue[k]]
    <3>1. Q = {f[k] : k \in 1..Len(queue)}
      BY <1>1, <2>1
    <3>2. f \in Surjection(1..Len(queue), Q)
      BY <3>1 DEF Surjection
    <3> QED BY <2>2, <3>2, FS_Surjection
  <2>4. IsFiniteSet(D)
    <3> DEFINE f == [k \in 1..Len(down) |-> down[k].request]
    <3>1. D = {f[k] : k \in 1..Len(down)}
      BY <1>1, <2>1
    <3>2. f \in Surjection(1..Len(down), D)
      BY <3>1 DEF Surjection
    <3> QED BY <2>2, <3>2, FS_Surjection
  <2>5. IsFiniteSet(Q \cup D)
    BY <2>3, <2>4, FS_Union
  <2>6. IsFiniteSet(IF bus.on THEN {bus.request} ELSE {})
    BY FS_EmptySet, FS_Singleton
  <2> QED BY <1>5, <2>5, <2>6, FS_Union
<1>10. IsFiniteSet(L!Transactions)
  <2> DEFINE f == [r \in Travelling |-> r.tx]
  <2>1. f \in Surjection(Travelling, L!Transactions)
    BY <1>8 DEF Surjection
  <2> QED BY <1>9, <2>1, FS_Surjection
<1> QED BY <1>8, <1>10

LEMMA AskPort == ASSUME SimPortInv, L!Ask PROVE SimPortInv'
<1>1. PortTypes /\ Matching /\ L!LineIsTrue /\ UNCHANGED <<port, socks, bus, down, got>>
      /\ link.open /\ link.tx = 0
  BY DEF SimPortInv, L!Ask, L!Waits
<1>2. PICK T : T = L!Transactions
  OBVIOUS
<1>3. IsFiniteSet(T) /\ \A r \in Travelling : r.tx \in T
  BY <1>1, <1>2, TakenIs
<1>4. L!Cardinality(T) = Cardinality(T)
  BY DEF L!Cardinality, Cardinality
<1>5. PICK tx : tx = CHOOSE n \in 1..(Cardinality(T) + 1) : n \notin T
  OBVIOUS
<1>20. /\ queue' = IF L!Alive(link.socket)
                   THEN Append(queue, [socket |-> link.socket, tx |-> tx, unit |-> L!UnitAsked])
                   ELSE queue
       /\ link' = [link EXCEPT !.tx = tx]
  <2>1. PICK x : x = CHOOSE n \in 1..(L!Cardinality(L!Transactions) + 1) : n \notin L!Transactions
    OBVIOUS
  <2>2. /\ queue' = IF L!Alive(link.socket)
                   THEN Append(queue, [socket |-> link.socket, tx |-> x, unit |-> L!UnitAsked])
                   ELSE queue
        /\ link' = [link EXCEPT !.tx = x]
    BY <2>1 DEF L!Ask
  <2>3. L!Cardinality(L!Transactions) = Cardinality(T)
    BY <1>2, <1>4
  <2>4. x = tx
    BY <1>2, <1>5, <2>1, <2>3
  <2> QED BY <2>2, <2>4
<1>6. tx \in Nat \ {0} /\ tx \notin T
  <2>1. PICK n : n = Cardinality(T) + 1
    OBVIOUS
  <2>2. Cardinality(T) \in Nat
    BY <1>3, FS_CardinalityType
  <2>3. \E k \in 1..n : k \notin T
    <3> SUFFICES ASSUME 1..n \subseteq T PROVE FALSE
      OBVIOUS
    <3>1. Cardinality(1..n) <= Cardinality(T)
      BY <1>3, FS_Subset
    <3>2. Cardinality(1..n) = n
      BY <2>1, <2>2, FS_Interval
    <3> QED BY <2>1, <2>2, <3>1, <3>2
  <2> QED BY <1>5, <2>1, <2>3
<1>7. PICK r : r = [socket |-> link.socket, tx |-> tx, unit |-> L!UnitAsked]
  OBVIOUS
<1>8. r \in Requests /\ r.unit = L!UnitAsked
  <2>1. link.turn \in DOMAIN Units /\ link.socket \in Slots
    BY <1>1, LinkIs, EndsOfLineAssumption DEF PortTypes
  <2> QED BY <1>6, <1>7, <2>1 DEF Requests, L!UnitAsked
<1>9. queue' = queue \/ queue' = Append(queue, r)
  BY <1>20, <1>7
<1>10. queue' \in Seq(Requests)
         /\ \A k \in DOMAIN queue' : queue'[k] = r \/ (k \in DOMAIN queue /\ queue'[k] = queue[k])
  <2>1. queue \in Seq(Requests)
    BY <1>1 DEF PortTypes
  <2>2. CASE queue' = queue
    BY <2>1, <2>2
  <2>3. CASE queue' = Append(queue, r)
    <3>1. queue' \in Seq(Requests) /\ DOMAIN queue = 1..Len(queue)
            /\ DOMAIN queue' = 1..(Len(queue) + 1)
          /\ Len(queue) \in Nat
      BY <1>8, <2>1, <2>3
    <3>2. \A k \in 1..(Len(queue) + 1) : queue'[k] = IF k = Len(queue) + 1 THEN r ELSE queue[k]
      BY <1>8, <2>1, <2>3
    <3> QED BY <3>1, <3>2
  <2> QED BY <1>9, <2>2, <2>3
<1>11. link' = [socket |-> link.socket, open |-> link.open, tx |-> tx, turn |-> link.turn]
  BY <1>1, <1>20, LinkIs
<1>12. PortTypes'
  BY <1>1, <1>6, <1>10, <1>11, LinkIs DEF PortTypes
<1>13. Travelling' \subseteq Travelling \cup {r}
  BY <1>1, <1>10 DEF Travelling
<1>14. L!UnitAsked' = L!UnitAsked
  BY <1>11 DEF L!UnitAsked
<1>15. \A x \in Travelling : x.tx # tx
  BY <1>3, <1>6
<1>16. Matching'
  BY <1>8, <1>11, <1>13, <1>14, <1>15 DEF Matching
<1>17. L!LineIsTrue'
  BY <1>1 DEF L!LineIsTrue, L!Alive
<1> QED BY <1>12, <1>16, <1>17 DEF SimPortInv

LEMMA AnsweredPort == ASSUME SimPortInv, L!Answered PROVE SimPortInv'
<1>1. PortTypes /\ Matching /\ L!LineIsTrue /\ UNCHANGED <<port, socks, queue, bus>>
      /\ down # <<>> /\ down' = Tail(down) /\ down \in Seq(Replies)
  BY DEF SimPortInv, L!Answered, PortTypes
<1>2. PICK d : d = Head(down)
  OBVIOUS
<1>3. d = down[1] /\ 1 \in DOMAIN down /\ d \in Replies /\ down' \in Seq(Replies)
      /\ \A k \in DOMAIN down' : k + 1 \in DOMAIN down /\ down'[k] = down[k + 1]
  BY <1>1, <1>2
<1>4. CASE d.request.socket = link.socket /\ d.request.tx = link.tx
  <2>1. got' = [of |-> d.request.unit, asked |-> L!UnitAsked, kind |-> d.kind]
          /\ link' = L!NextTurn(link)
    BY <1>2, <1>4 DEF L!Answered, L!Results
  <2>2. d.request \in Travelling
    BY <1>3 DEF Travelling
  <2>3. got'.of = got'.asked
    BY <1>1, <1>4, <2>1, <2>2 DEF Matching
  <2>4. PICK n \in 1..Len(Units) :
           link' = [socket |-> link.socket, open |-> link.open, tx |-> 0, turn |-> n]
    BY <1>1, <2>1, NextTurnIs
  <2>5. /\ link' \in [socket: Slots \cup {L!NoSocket}, open: BOOLEAN, tx: {0}, turn: 1..Len(Units)]
        /\ link'.open => link'.socket \in Slots
    BY <1>1, <2>4, LinkIs DEF PortTypes
  <2>6. /\ socks' \in [Slots -> {"free", "live", "dead"}] /\ (bus' = L!Idle \/ bus' \in Exchanges)
        /\ \A s \in Slots : socks'[s] = "live" => socks[s] = "live"
    BY <1>1 DEF PortTypes
  <2> QED BY <1>1, <1>3, <2>3, <2>5, <2>6, ClientRests
<1>5. CASE ~(d.request.socket = link.socket /\ d.request.tx = link.tx)
  <2>1. UNCHANGED <<link, got>>
    BY <1>2, <1>5 DEF L!Answered
  <2>2. PortTypes'
    BY <1>1, <1>3, <2>1 DEF PortTypes
  <2>3. {down'[k].request : k \in DOMAIN down'} \subseteq {down[k].request : k \in DOMAIN down}
    BY <1>3
  <2>4. Travelling' \subseteq Travelling
    BY <1>1, <2>3 DEF Travelling
  <2>5. Matching'
    BY <1>1, <2>1, <2>4, StillMatching
  <2>6. L!LineIsTrue'
    BY <1>1, <2>1 DEF L!LineIsTrue, L!Alive
  <2> QED BY <2>2, <2>5, <2>6 DEF SimPortInv
<1> QED BY <1>4, <1>5

LEMMA PortStep == SimPortInv /\ [L!SimNext]_simulated => SimPortInv'
<1> SUFFICES ASSUME SimPortInv, [L!SimNext]_simulated PROVE SimPortInv'
  OBVIOUS
<1>1. CASE L!Chaos
  <2>1. CASE L!HardTimeout
    BY <2>1, TimeoutPort
  <2>2. CASE ~L!HardTimeout
    BY <1>1, <2>2, PortSteps DEF L!Chaos
  <2> QED BY <2>1, <2>2
<1>2. CASE L!BusStep
  BY <1>2, ServeBeginsPort, ServeEndsPort DEF L!BusStep
<1>3. CASE L!ClientStep
  BY <1>3, ConnectPort, RefusedPort, AskPort, TimeoutPort DEF L!ClientStep
<1>4. CASE L!Answered \/ L!ClientSeesClose
  BY <1>4, AnsweredPort, ClosePort
<1>5. CASE L!Sync \/ L!ListenEnds \/ L!CloseEnds \/ (\E s \in Slots : L!ServerSeesClose(s))
           \/ (\E f \in L!Applicable : L!FaultEnds(f)) \/ UNCHANGED simulated
  BY <1>5, PortSteps
<1> QED BY <1>1, <1>2, <1>3, <1>4, <1>5 DEF L!SimNext

-------------------------------------------------------------------------------
(* The panel of faults.                                                    *)

ChangeKinds == {"none", "inject", "clear", "clearAll"}
Call == [at: {"none", "sent", "served", "settling"}, action: ChangeKinds, number: Nat]
Done == [action: ChangeKinds, key: P!Keys, number: Nat]
Removals == {"clear", "clearAll"}

PanelTypes ==
  /\ added \in Nat /\ acting \in [Breakable -> Nat]
  /\ calls \in [P!Keys -> Call]
  /\ panel \in [entries: SUBSET [fault: Breakable, number: Nat], hasData: BOOLEAN,
                status: {"pending", "ready", "unavailable", "error"}]
  /\ reading \in [at: {"none", "asked", "served"}, got: SUBSET [fault: Breakable, number: Nat]]
  /\ outcome \in [failures: SUBSET P!Keys, done: Done]

(* Since the removal of key, when the number was n, only later faults act. *)
Clean(key, n) == \A f \in Breakable : key \in {f, P!All} => acting[f] = 0 \/ acting[f] > n

(* What the simulator has done of a change whose answer is on its way.     *)
CallIsTrue(key) ==
  /\ calls[key].action = "inject" => key \in Breakable
  /\ calls[key].at = "served" =>
       /\ calls[key].number <= added
       /\ calls[key].action = "inject" => calls[key].number > 0
       /\ calls[key].action # "inject" => Clean(key, calls[key].number)

DoneIsTrue ==
  /\ outcome.done.number <= added
  /\ outcome.done.action = "inject" => outcome.done.key \in Breakable /\ outcome.done.number > 0
  /\ outcome.done.action \in Removals => Clean(outcome.done.key, outcome.done.number)

(* Entries that show what is done until somebody undoes it.                *)
Shows(entries) ==
  /\ outcome.done.action = "inject" /\ acting[outcome.done.key] = outcome.done.number =>
       \E e \in entries : e.fault = outcome.done.key
  /\ outcome.done.action \in Removals =>
       \A e \in entries : outcome.done.key \in {e.fault, P!All} => e.number > outcome.done.number

Numbers == \A f \in Breakable : acting[f] <= added

PanelInv ==
  /\ PanelTypes /\ Numbers
  /\ \A key \in P!Keys : CallIsTrue(key)
  /\ DoneIsTrue
  /\ Shows(panel.entries) /\ (reading.at = "served" => Shows(reading.got))

LEMMA InitPanel == ASSUME P!PanelInit PROVE PanelInv
<1> USE DEF P!PanelInit, P!NothingDone, P!NoCall, P!NoRead, P!Keys
<1>1. outcome = [failures |-> {}, done |-> [action |-> "none", key |-> P!All, number |-> 0]]
  OBVIOUS
<1>2. PanelTypes
  <2>1. outcome \in [failures: SUBSET P!Keys, done: Done]
    BY <1>1 DEF Done, ChangeKinds
  <2>2. calls \in [P!Keys -> Call]
    BY DEF Call, ChangeKinds
  <2> QED BY <2>1, <2>2 DEF PanelTypes
<1>3. \A key \in P!Keys : CallIsTrue(key)
  BY DEF CallIsTrue
<1>4. DoneIsTrue /\ \A S : Shows(S)
  BY <1>1 DEF DoneIsTrue, Shows, Removals
<1>5. Numbers
  BY DEF Numbers
<1> QED BY <1>2, <1>3, <1>4, <1>5 DEF PanelInv

-------------------------------------------------------------------------------
(* What a step does to the book: a fault it puts in gets a new number.     *)
BookMoves ==
  /\ added' \in Nat /\ added' >= added
  /\ acting' \in [Breakable -> Nat]
  /\ \A f \in Breakable : /\ acting'[f] <= added'
                          /\ acting'[f] \in {acting[f], 0} \/ acting'[f] > added

LEMMA AddMoves ==
  ASSUME PanelTypes, Numbers, NEW f \in Breakable, P!Add(f)
  PROVE  BookMoves /\ acting'[f] = added' /\ added' > 0
BY DEF PanelTypes, Numbers, P!Add, BookMoves

LEMMA ClearMoves ==
  ASSUME PanelTypes, Numbers, NEW key, P!Clear(key)
  PROVE  BookMoves /\ added' = added /\ \A f \in Breakable : key \in {f, P!All} => acting'[f] = 0
BY DEF PanelTypes, Numbers, P!Clear, BookMoves

LEMMA StillMoves == ASSUME PanelTypes, Numbers, UNCHANGED <<acting, added>> PROVE BookMoves
BY DEF PanelTypes, Numbers, BookMoves

LEMMA StaysClean ==
  ASSUME PanelTypes, BookMoves, NEW key, NEW n \in Nat, n <= added, Clean(key, n)
  PROVE  Clean(key, n)'
BY DEF PanelTypes, BookMoves, Clean

LEMMA StaysDone ==
  ASSUME PanelInv, BookMoves, outcome'.done = outcome.done
  PROVE  DoneIsTrue' /\ Numbers' /\ \A S : Shows(S) => Shows(S)'
<1>1. PanelTypes /\ DoneIsTrue /\ Numbers
  BY DEF PanelInv
<1>2. PICK d : d = outcome.done
  OBVIOUS
<1>3. d \in Done
  BY <1>1, <1>2 DEF PanelTypes
<1>4. d.number \in Nat /\ d.number <= added
  BY <1>1, <1>2, <1>3 DEF Done, ChangeKinds, DoneIsTrue
<1>5. d.action \in Removals => Clean(d.key, d.number)'
  BY <1>1, <1>2, <1>4, StaysClean DEF DoneIsTrue
<1>6. DoneIsTrue'
  BY <1>1, <1>2, <1>4, <1>5 DEF DoneIsTrue, BookMoves, PanelTypes
<1>7. d.action = "inject" /\ acting'[d.key] = d.number => acting[d.key] = d.number
  BY <1>1, <1>2, <1>4 DEF DoneIsTrue, BookMoves, PanelTypes
<1>8. \A S : Shows(S) => Shows(S)'
  BY <1>2, <1>7 DEF Shows
<1>9. Numbers'
  BY DEF Numbers, BookMoves
<1> QED BY <1>6, <1>8, <1>9

LEMMA StaysCall ==
  ASSUME PanelInv, BookMoves, NEW key \in P!Keys,
         \/ calls'[key] = calls[key]
         \/ calls'[key].at # "served" /\ (calls'[key].action = "inject" => key \in Breakable)
  PROVE  CallIsTrue(key)'
<1>1. PanelTypes /\ CallIsTrue(key)
  BY DEF PanelInv
<1>2. CASE calls'[key] = calls[key]
  <2>1. PICK c : c = calls[key]
    OBVIOUS
  <2>2. c.number \in Nat
    BY <1>1, <2>1 DEF PanelTypes, Call, ChangeKinds
  <2>3. c.at = "served" /\ c.action # "inject" => Clean(key, c.number)'
    BY <1>1, <2>1, <2>2, StaysClean DEF CallIsTrue
  <2> QED BY <1>1, <1>2, <2>1, <2>2, <2>3 DEF CallIsTrue, BookMoves, PanelTypes
<1>3. CASE calls'[key].at # "served" /\ (calls'[key].action = "inject" => key \in Breakable)
  BY <1>3 DEF CallIsTrue
<1> QED BY <1>2, <1>3

(* Changes under way are still so, or stopped being so.                    *)
LEMMA CallsMove ==
  ASSUME PanelInv, BookMoves, calls' \in [P!Keys -> Call],
         \A key \in P!Keys :
           \/ calls'[key] = calls[key]
           \/ calls'[key].at # "served" /\ (calls'[key].action = "inject" => key \in Breakable)
  PROVE  \A key \in P!Keys : CallIsTrue(key)'
BY StaysCall

-------------------------------------------------------------------------------
(* Steps that announce nothing.                                            *)
LEMMA OthersPanel == ASSUME PanelInv, P!OthersChange PROVE PanelInv'
<1>1. PanelTypes /\ Numbers /\ UNCHANGED <<panel, reading, calls, outcome>>
  BY DEF PanelInv, P!OthersChange, P!screen
<1>2. BookMoves
  <2>1. PICK f \in Breakable : P!Add(f) \/ P!Clear(f)
    BY DEF P!OthersChange
  <2> QED BY <1>1, <2>1, AddMoves, ClearMoves
<1>3. PanelTypes'
  BY <1>1, <1>2 DEF PanelTypes, BookMoves
<1>4. \A key \in P!Keys : CallIsTrue(key)'
  BY <1>1, <1>2, <1>3, CallsMove DEF PanelTypes
<1> QED BY <1>1, <1>2, <1>3, <1>4, StaysDone DEF PanelInv

LEMMA ServePanel == ASSUME PanelInv, NEW key \in P!Keys, P!Serve(key) PROVE PanelInv'
<1>1. PanelTypes /\ Numbers /\ UNCHANGED <<panel, reading, outcome>>
  BY DEF PanelInv, P!Serve
<1>2. PICK c : c = calls[key]
  OBVIOUS
<1>3. c \in Call /\ c = [at |-> c.at, action |-> c.action, number |-> c.number]
        /\ (c.action = "inject" => key \in Breakable)
  BY <1>1, <1>2 DEF PanelTypes, Call, ChangeKinds, PanelInv, CallIsTrue
<1>5. PICK n : n = added'
  OBVIOUS
<1>4. /\ BookMoves
      /\ c.action = "inject" => n > 0
      /\ c.action # "inject" => Clean(key, n)'
  <2>1. CASE c.action = "inject"
    BY <1>1, <1>2, <1>3, <1>5, <2>1, AddMoves DEF P!Serve
  <2>2. CASE c.action # "inject"
    <3>1. P!Clear(key)
      BY <1>2, <2>2 DEF P!Serve
    <3> QED BY <1>1, <2>2, <3>1, ClearMoves DEF Clean
  <2> QED BY <2>1, <2>2
<1>6. PICK s : s = [at |-> "served", action |-> c.action, number |-> n]
  OBVIOUS
<1>7. calls' = [calls EXCEPT ![key] = s]
  <2>1. calls' = [calls EXCEPT ![key] = [c EXCEPT !.at = "served", !.number = n]]
    BY <1>1, <1>2, <1>5 DEF P!Serve, PanelTypes
  <2>2. PICK z : z = [c EXCEPT !.at = "served", !.number = n]
    OBVIOUS
  <2>3. z = s
    <3>1. PICK a, k, m : c = [at |-> a, action |-> k, number |-> m] /\ k = c.action
      BY <1>3
    <3>2. z = [at |-> "served", action |-> k, number |-> n]
      BY ONLY <2>2, <3>1
    <3> QED BY <1>6, <3>1, <3>2
  <2> QED BY <2>1, <2>2, <2>3
<1>8. s \in Call
  BY <1>3, <1>4, <1>5, <1>6 DEF Call, ChangeKinds, BookMoves
<1>9. calls' \in [P!Keys -> Call] /\ calls'[key] = s
        /\ \A k \in P!Keys : k # key => calls'[k] = calls[k]
  BY <1>1, <1>7, <1>8 DEF PanelTypes
<1>10. PanelTypes'
  BY <1>1, <1>4, <1>9 DEF PanelTypes, BookMoves
<1>11. CallIsTrue(key)'
  <2>1. PICK x : x = calls'[key]
    OBVIOUS
  <2>2. x.at = "served" /\ x.action = c.action /\ x.number = n
    BY <1>6, <1>9, <2>1
  <2>3. n <= added'
    BY <1>4, <1>5 DEF BookMoves
  <2> QED BY <1>3, <1>4, <2>1, <2>2, <2>3 DEF CallIsTrue
<1>12. \A k \in P!Keys : CallIsTrue(k)'
  BY <1>4, <1>9, <1>11, StaysCall
<1> QED BY <1>1, <1>4, <1>10, <1>12, StaysDone DEF PanelInv

(* Changes asked for, failures, and what is put away of them.              *)
LEMMA CallsPanel ==
  ASSUME PanelInv, NEW key \in P!Keys,
         P!Fails(key) \/ P!Dismiss(key) \/ (\E a \in {"inject", "clear", "clearAll"} : P!Change(a, key))
  PROVE  PanelInv'
<1>1. PanelTypes /\ Numbers /\ UNCHANGED <<acting, added, panel, reading>>
  BY DEF PanelInv, P!Fails, P!Dismiss, P!Change
<1>2. PICK fs \in SUBSET P!Keys : outcome' = [failures |-> fs, done |-> outcome.done]
  <2>1. PICK fs, d : outcome = [failures |-> fs, done |-> d] /\ fs \in SUBSET P!Keys /\ d = outcome.done
    BY <1>1 DEF PanelTypes
  <2>2. outcome' = [outcome EXCEPT !.failures = fs \cup {key}]
          \/ outcome' = [outcome EXCEPT !.failures = fs \ {key}]
    BY <2>1 DEF P!Fails, P!Dismiss, P!Change
  <2> QED BY <2>1, <2>2
<1>3. BookMoves
  BY <1>1, StillMoves
<1>4. /\ calls' \in [P!Keys -> Call]
      /\ \A k \in P!Keys : \/ calls'[k] = calls[k]
                           \/ calls'[k].at # "served"
                              /\ (calls'[k].action = "inject" => k \in Breakable)
  <2>1. calls \in [P!Keys -> Call]
    BY <1>1 DEF PanelTypes
  <2>2. CASE P!Dismiss(key)
    BY <2>1, <2>2 DEF P!Dismiss
  <2>3. CASE P!Fails(key)
    BY <2>1, <2>3 DEF P!Fails, P!NoCall, Call, ChangeKinds
  <2>4. ASSUME NEW a \in {"inject", "clear", "clearAll"}, P!Change(a, key)
        PROVE  <1>4!:
    <3>1. PICK s : s = [at |-> "sent", action |-> a, number |-> 0]
      OBVIOUS
    <3>5. [P!NoCall EXCEPT !.at = "sent", !.action = a] = s
      <4>1. PICK z : z = P!NoCall
        OBVIOUS
      <4>2. PICK x, k, m : z = [at |-> x, action |-> k, number |-> m] /\ m = 0
        BY <4>1 DEF P!NoCall
      <4>3. PICK y : y = [z EXCEPT !.at = "sent", !.action = a]
        OBVIOUS
      <4>4. y = [at |-> "sent", action |-> a, number |-> m]
        BY ONLY <4>2, <4>3
      <4> QED BY <3>1, <4>1, <4>2, <4>3, <4>4
    <3>2. calls' = [calls EXCEPT ![key] = s]
      BY <2>4, <3>5 DEF P!Change
    <3>3. s \in Call /\ s.at = "sent" /\ s.action = a
      BY <3>1 DEF Call, ChangeKinds
    <3>4. a = "inject" => key \in Breakable
      BY <2>4 DEF P!Change, P!Asked, P!SwitchWorks
    <3> QED BY <2>1, <3>2, <3>3, <3>4
  <2> QED BY <2>2, <2>3, <2>4
<1>5. PanelTypes'
  BY <1>1, <1>2, <1>4 DEF PanelTypes
<1>6. \A k \in P!Keys : CallIsTrue(k)'
  BY <1>3, <1>4, CallsMove
<1>7. outcome'.done = outcome.done
  BY <1>2
<1> QED BY <1>1, <1>3, <1>5, <1>6, <1>7, StaysDone DEF PanelInv

LEMMA SettledIs ==
  ASSUME PanelTypes
  PROVE  /\ P!Settled \in [P!Keys -> Call]
         /\ \A k \in P!Keys : P!Settled[k] = calls[k]
            \/ P!Settled[k] = [at |-> "none", action |-> "none", number |-> 0]
BY DEF PanelTypes, P!Settled, P!NoCall, Call, ChangeKinds

(* Reads.                                                                  *)
LEMMA ReadPanel == ASSUME PanelInv, P!ReadMoves \/ P!ReadFails PROVE PanelInv'
<1>1. PanelTypes /\ Numbers /\ DoneIsTrue /\ UNCHANGED <<acting, added, outcome>>
  BY DEF PanelInv, P!ReadMoves, P!Poll, P!ReadServed, P!ReadArrives, P!ReadFails
<1>2. BookMoves
  BY <1>1, StillMoves
<1>3. /\ calls' \in [P!Keys -> Call]
      /\ \A k \in P!Keys : \/ calls'[k] = calls[k]
                           \/ calls'[k].at # "served"
                              /\ (calls'[k].action = "inject" => k \in Breakable)
  <2>1. calls' = calls \/ calls' = P!Settled
    BY DEF P!ReadMoves, P!Poll, P!ReadServed, P!ReadArrives, P!ReadFails
  <2>2. CASE calls' = calls
    BY <1>1, <2>2 DEF PanelTypes
  <2>3. CASE calls' = P!Settled
    BY <1>1, <2>3, SettledIs
  <2> QED BY <2>1, <2>2, <2>3
<1>4. \A k \in P!Keys : CallIsTrue(k)'
  BY <1>2, <1>3, CallsMove
<1>5. DoneIsTrue' /\ Numbers' /\ \A S : Shows(S) => Shows(S)'
  BY <1>1, <1>2, StaysDone
<1>6. CASE P!Poll
  <2>1. reading' = [at |-> "asked", got |-> {}] /\ UNCHANGED panel
    BY <1>6 DEF P!Poll, P!ReadAnew, P!NoRead
  <2>2. PanelTypes'
    BY <1>1, <1>3, <2>1 DEF PanelTypes
  <2> QED BY <1>4, <1>5, <2>1, <2>2 DEF PanelInv
<1>7. CASE P!ReadServed
  <2>1. reading' = [at |-> "served", got |-> P!Entries] /\ UNCHANGED panel
    BY <1>7 DEF P!ReadServed
  <2>2. P!Entries \in SUBSET [fault: Breakable, number: Nat]
    BY <1>1 DEF P!Entries, P!Acting, PanelTypes
  <2>3. PanelTypes'
    BY <1>1, <1>3, <2>1, <2>2 DEF PanelTypes
  <2>4. Shows(P!Entries)
    <3>1. PICK d : d = outcome.done
      OBVIOUS
    <3>2. d.number \in Nat
      BY <1>1, <3>1 DEF PanelTypes, Done, ChangeKinds
    <3>3. ASSUME d.action = "inject", acting[d.key] = d.number
            PROVE \E e \in P!Entries : e.fault = d.key
      <4>1. d.key \in P!Acting
        BY <1>1, <3>1, <3>2, <3>3 DEF DoneIsTrue, P!Acting
      <4>2. [fault |-> d.key, number |-> acting[d.key]] \in P!Entries
        BY <4>1 DEF P!Entries
      <4> QED BY <4>2
    <3>4. ASSUME d.action \in Removals, NEW e \in P!Entries, d.key \in {e.fault, P!All}
            PROVE e.number > d.number
      <4>1. PICK f \in P!Acting : e = [fault |-> f, number |-> acting[f]]
        BY DEF P!Entries
      <4>2. f \in Breakable /\ acting[f] # 0
        BY <1>1, <4>1 DEF P!Acting, PanelTypes
      <4>3. acting[f] = 0 \/ acting[f] > d.number
        BY <1>1, <3>1, <3>4, <4>1, <4>2 DEF DoneIsTrue, Clean
      <4> QED BY <4>1, <4>2, <4>3
    <3> QED BY <3>1, <3>3, <3>4 DEF Shows
  <2> QED BY <1>4, <1>5, <2>1, <2>3, <2>4 DEF PanelInv
<1>8. CASE P!ReadArrives
  <2>1. reading.at = "served" /\ reading' = [at |-> "none", got |-> {}]
        /\ panel' = [entries |-> reading.got, hasData |-> TRUE, status |-> "ready"]
    BY <1>8 DEF P!ReadArrives, P!NoRead
  <2>2. Shows(reading.got)
    BY <2>1 DEF PanelInv
  <2>3. PanelTypes'
    BY <1>1, <1>3, <2>1 DEF PanelTypes
  <2> QED BY <1>4, <1>5, <2>1, <2>2, <2>3 DEF PanelInv
<1>9. CASE P!ReadFails
  <2>1. reading' = [at |-> "none", got |-> {}]
    BY <1>9 DEF P!ReadFails, P!NoRead
  <2>2. PICK status_ \in {"unavailable", "error"} : panel' = [panel EXCEPT !.status = status_]
    BY <1>9 DEF P!ReadFails
  <2>3. panel = [entries |-> panel.entries, hasData |-> panel.hasData, status |-> panel.status]
    BY <1>1 DEF PanelTypes
  <2>4. panel' = [entries |-> panel.entries, hasData |-> panel.hasData, status |-> status_]
    BY <2>2, <2>3
  <2>5. PanelTypes'
    BY <1>1, <1>3, <2>1, <2>4 DEF PanelTypes
  <2>6. panel'.entries = panel.entries /\ Shows(panel.entries)
    BY <2>4 DEF PanelInv
  <2> QED BY <1>4, <1>5, <2>1, <2>5, <2>6 DEF PanelInv
<1> QED BY <1>6, <1>7, <1>8, <1>9 DEF P!ReadMoves

(* What is done is what the panel shows from then on.                      *)
LEMMA SucceedPanel == ASSUME PanelInv, NEW key \in P!Keys, P!Succeed(key) PROVE PanelInv'
<1>1. PanelTypes /\ Numbers /\ UNCHANGED <<acting, added>>
  BY DEF PanelInv, P!Succeed
<1>2. BookMoves
  BY <1>1, StillMoves
<1>3. PICK c : c = calls[key]
  OBVIOUS
<1>4. c \in Call /\ c.at = "served" /\ CallIsTrue(key) /\ c.number \in Nat
  BY <1>1, <1>3 DEF P!Succeed, PanelInv, PanelTypes, Call, ChangeKinds
<1>5. PICK d : d = [action |-> c.action, key |-> key, number |-> c.number]
  OBVIOUS
<1>6. d \in Done /\ d.action = c.action /\ d.key = key /\ d.number = c.number
  BY <1>4, <1>5 DEF Done, Call, ChangeKinds
<1>7. outcome' = [failures |-> outcome.failures \ {key}, done |-> d]
  BY <1>3, <1>5 DEF P!Succeed
<1>8. outcome'.done = d
  BY <1>7
<1>9. reading' = [at |-> "asked", got |-> {}]
  BY DEF P!Succeed, P!ReadAnew, P!NoRead
<1>10. /\ calls' \in [P!Keys -> Call]
       /\ \A k \in P!Keys : \/ calls'[k] = calls[k]
                            \/ calls'[k].at # "served"
                               /\ (calls'[k].action = "inject" => k \in Breakable)
  <2>1. PICK st : st = P!Settled
    OBVIOUS
  <2>2. st \in [P!Keys -> Call]
          /\ \A k \in P!Keys : st[k] = calls[k] \/ st[k] = [at |-> "none", action |-> "none", number |-> 0]
    BY <1>1, <2>1, SettledIs
  <2>3. calls' = [st EXCEPT ![key].at = "settling"]
    BY <2>1 DEF P!Succeed
  <2>4. st[key] = c
    BY <1>3, <1>4, <2>1 DEF P!Settled
  <2>5. PICK s : s = [at |-> "settling", action |-> c.action, number |-> c.number]
    OBVIOUS
  <2>6. c = [at |-> c.at, action |-> c.action, number |-> c.number]
    BY <1>4 DEF Call, ChangeKinds
  <2>7. calls' = [st EXCEPT ![key] = s]
    <3>1. [c EXCEPT !.at = "settling"] = s
      BY ONLY <2>5, <2>6
    <3> QED BY <2>2, <2>3, <2>4, <3>1
  <2>8. s \in Call /\ s.at = "settling" /\ s.action = c.action
    BY <1>4, <2>5 DEF Call, ChangeKinds
  <2>9. c.action = "inject" => key \in Breakable
    BY <1>3, <1>4 DEF CallIsTrue
  <2> QED BY <2>2, <2>7, <2>8, <2>9
<1>11. \A k \in P!Keys : CallIsTrue(k)'
  BY <1>2, <1>10, CallsMove
<1>12. DoneIsTrue'
  <2>1. c.action \in Removals => Clean(key, c.number)
    BY <1>3, <1>4 DEF CallIsTrue, Removals
  <2>2. Clean(key, c.number) => Clean(key, c.number)'
    BY <1>1 DEF Clean
  <2> QED BY <1>1, <1>3, <1>4, <1>6, <1>8, <2>1, <2>2 DEF DoneIsTrue, CallIsTrue
<1>13. PICK es : es = P!FaultsAfter(key)
  OBVIOUS
<1>14. panel' = [entries |-> es, hasData |-> panel.hasData, status |-> "ready"]
  <2>1. panel = [entries |-> panel.entries, hasData |-> panel.hasData, status |-> panel.status]
    BY <1>1 DEF PanelTypes
  <2>2. panel' = [panel EXCEPT !.entries = es, !.status = "ready"]
    BY <1>13 DEF P!Succeed
  <2>3. PICK p, h, st : panel = [entries |-> p, hasData |-> h, status |-> st] /\ h = panel.hasData
    BY <2>1
  <2>4. panel' = [entries |-> es, hasData |-> h, status |-> "ready"]
    BY ONLY <2>2, <2>3
  <2> QED BY <2>3, <2>4
<1>15. PICK rest : rest = {e \in panel.entries : key \notin {e.fault, P!All}}
  OBVIOUS
<1>16. es = IF c.action = "inject" THEN rest \cup {[fault |-> key, number |-> c.number]} ELSE rest
  BY <1>3, <1>13, <1>15 DEF P!FaultsAfter
<1>17. es \in SUBSET [fault: Breakable, number: Nat]
  <2>1. rest \in SUBSET [fault: Breakable, number: Nat]
    BY <1>1, <1>15 DEF PanelTypes
  <2>2. c.action = "inject" => key \in Breakable
    BY <1>3, <1>4 DEF CallIsTrue
  <2> QED BY <1>4, <1>16, <2>1, <2>2
<1>18. PanelTypes'
  <2>1. outcome' \in [failures: SUBSET P!Keys, done: Done]
    BY <1>1, <1>6, <1>7 DEF PanelTypes
  <2>2. panel' \in [entries: SUBSET [fault: Breakable, number: Nat], hasData: BOOLEAN,
                    status: {"pending", "ready", "unavailable", "error"}]
    BY <1>1, <1>14, <1>17 DEF PanelTypes
  <2> QED BY <1>1, <1>9, <1>10, <2>1, <2>2 DEF PanelTypes
<1>19. Shows(panel.entries)'
  <2>1. panel'.entries = es
    BY <1>14
  <2>2. c.action = "inject" => \E e \in es : e.fault = key
    <3>1. [fault |-> key, number |-> c.number].fault = key
      OBVIOUS
    <3> QED BY <1>16, <3>1
  <2>3. c.action \in Removals => \A e \in es : key \notin {e.fault, P!All}
    BY <1>15, <1>16 DEF Removals
  <2> QED BY <1>6, <1>8, <2>1, <2>2, <2>3 DEF Shows
<1>20. Numbers'
  BY <1>1 DEF Numbers
<1> QED BY <1>9, <1>11, <1>12, <1>18, <1>19, <1>20 DEF PanelInv

LEMMA PanelStep == PanelInv /\ [P!PanelNext]_shown => PanelInv'
<1> SUFFICES ASSUME PanelInv, [P!PanelNext]_shown PROVE PanelInv'
  OBVIOUS
<1>1. CASE P!OthersChange
  BY <1>1, OthersPanel
<1>2. CASE P!ReadMoves \/ P!ReadFails
  BY <1>2, ReadPanel
<1>3. ASSUME NEW key \in P!Keys,
             \/ \E a \in {"inject", "clear", "clearAll"} : P!Change(a, key)
             \/ P!ChangeMoves(key) \/ P!Fails(key) \/ P!Dismiss(key)
      PROVE  PanelInv'
  BY <1>3, CallsPanel, ServePanel, SucceedPanel DEF P!ChangeMoves
<1>4. CASE UNCHANGED shown
  BY <1>4 DEF shown, PanelInv, PanelTypes, Numbers, CallIsTrue, Clean, DoneIsTrue, Shows
<1> QED BY <1>1, <1>2, <1>3, <1>4 DEF P!PanelNext

LEMMA PanelSound == PanelInv => P!PanelIsSound
<1> SUFFICES ASSUME PanelInv PROVE P!PanelIsSound
  OBVIOUS
<1>1. P!OfferedIsTaken
  BY DEF P!OfferedIsTaken, P!Offered, P!LineFaults, P!DeviceFaults, P!LabAccepts, P!SimTakes, P!Targets,
         P!Kinds, P!DeviceOnlyKinds, P!LineOnlyKinds
<1>2. P!DoneIsShown
  BY DEF P!DoneIsShown, P!Known, PanelInv, Shows, Removals
<1> QED BY <1>1, <1>2 DEF P!PanelIsSound

-------------------------------------------------------------------------------
(* One sequential cycle of polling per line, whatever starts, stops and    *)
(* trips of the watchdog overlap; and a worker whose stop has ended runs   *)
(* no loop and has at most one connection per trip, opened or left by a    *)
(* pass given up (line-worker.ts: start, stop, runLoop and guardedCycle).  *)
THEOREM LineKeepsOneCycle == Spec => [](OneCycle /\ ClosedWhenStopped)
<1>1. SafeInv => OneCycle /\ ClosedWhenStopped
  BY WorkerSound DEF OneCycleOrNone
<1> QED BY <1>1, InitSafe, SafeStep, PTL DEF Spec

(* What was overtaken touches nothing of what overtook it: a late stop     *)
(* leaves the port of the new cycle alone, and a pass the watchdog gave up *)
(* counts for no breaker (stop and guardedCycle of line-worker.ts).        *)
THEOREM LateStepsAreHarmless == Spec => LateStepsSpareTheCycle
<1>1. LineInv /\ [Next]_vars =>
        [\A k \in Stops : StopEnds(k) =>
           client' = client \/ \A r \in Runs : runs[r].state # "cycle"]_vars
  <2> SUFFICES ASSUME LineInv, NEW k \in Stops, StopEnds(k), client' # client,
                      NEW r \in Runs, runs[r].state = "cycle"
               PROVE  FALSE
    OBVIOUS
  <2>1. ~running /\ stops[k].state = "pending" /\ Ended(stops[k].of)
    BY DEF StopEnds
  <2> QED BY <2>1 DEF LineInv, TurnInv, Overtaken, MayGoOn
<1>2. LineInv /\ [Next]_vars =>
        [\A p \in abandoned : PassStep(p) /\ p \notin abandoned' => UNCHANGED breaker]_vars
  <2> SUFFICES ASSUME LineInv, NEW p \in abandoned, PassStep(p) PROVE UNCHANGED breaker
    OBVIOUS
  <2>1. p.gen # generation
    BY DEF LineInv, Generations, IsPass
  <2>2. \A ok \in BOOLEAN, reconnect \in BOOLEAN : DeviceDone(p, ok, reconnect) => UNCHANGED breaker
    BY <2>1 DEF DeviceDone
  <2> QED BY <2>2 DEF PassStep, Connect, ConnectFails, ReadBlock, ReadDone, ReadFails, ReadBreaks
<1> QED BY <1>1, <1>2, LineAlways, PTL DEF Spec, LateStepsSpareTheCycle, StopSparesCycle,
  AbandonedPassCountsNothing

LEMMA InitEnds == LineInit => SafeInv /\ SimPortInv /\ PanelInv
BY InitSafe, InitSimPort, InitPanel DEF LineInit

(* A step is of one of the three, and the other two keep their state.      *)
LEMMA StepEnds ==
  (SafeInv /\ SimPortInv /\ PanelInv) /\ [LineNext]_ends => (SafeInv /\ SimPortInv /\ PanelInv)'
<1> SUFFICES ASSUME SafeInv, SimPortInv, PanelInv, [LineNext]_ends
             PROVE  SafeInv' /\ SimPortInv' /\ PanelInv'
  OBVIOUS
<1>1. [Next]_vars /\ [L!SimNext]_simulated /\ [P!PanelNext]_shown
  BY DEF LineNext, ends, worker
<1> QED BY <1>1, SafeStep, PortStep, PanelStep

(* One cycle runs on the line; a stopped worker runs none and keeps no     *)
(* connection but of passes the watchdog gave up, one per trip at most;    *)
(* the client takes only what the device it asks has answered, and a port  *)
(* closed by a fault leaves no connection behind; and the panel shows what *)
(* it says is done until somebody undoes it (line-worker.ts,               *)
(* line-server.ts with modbus-link.ts, and onSuccess of useFaultActions).  *)
THEOREM LineStaysSound == LineSpec => []LineIsSound
<1>1. SafeInv /\ SimPortInv /\ PanelInv => LineIsSound
  BY WorkerSound, PanelSound DEF SimPortInv, LineIsSound
<1> QED BY <1>1, InitEnds, StepEnds, PTL DEF LineSpec
===============================================================================
