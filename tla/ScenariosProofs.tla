---------------------------- MODULE ScenariosProofs ----------------------------
(***************************************************************************)
(* Proofs about the runs of scenarios, for any number of gateways, runs,   *)
(* faults and mishaps and any scenarios.                                   *)
(*                                                                         *)
(* The argument: what the executor of a run holds on the stand is on its   *)
(* list before it acts (InHand); who will close a run is its executor, the *)
(* start that has created it, or nobody and then the run is known to be    *)
(* lost (Kept); and what waits to be written of the progress lies between  *)
(* what is written and what is done (InOrder).                             *)
(***************************************************************************)
EXTENDS Scenarios, TLAPS

Ats == Unsettled \cup {"none", "settled", "ended", "dead"}
Rows == [status : {"none", "queued", "running", "passed", "failed"},
         owner : Gateways \cup {Nothing}, fresh : BOOLEAN, step : Nat,
         by : {"nobody", "finish", "start", "sweep", "stop"}, lost : BOOLEAN]
Gates == [at : {"down", "booting", "up", "stopping", "halting"}, start : Runs \cup {NoRun}]
Execs == [at : Ats, script : Scripts \cup {<<>>}, done : Nat, ok : BOOLEAN, held : SUBSET Faults,
          left : SUBSET Faults, unheard : SUBSET Faults,
          halted : {"no", "stopping", "taken", "given up"}, chain : Seq(Nat)]

Types ==
  /\ row \in [Runs -> Rows] /\ gate \in [Gateways -> Gates]
  /\ exec \in [Runs -> Execs] /\ book \in [Faults -> Runs \cup {NoRun}]

Listed(e) == e.held \cup e.left \cup e.unheard

(* An execution by itself: a run that has not failed yet has left nothing, *)
(* and is over after its last step.                                        *)
Sound(e) ==
  /\ e.at \in {"starting", "running"} => e.ok /\ e.script # <<>> /\ e.done < Len(e.script)
  /\ e.at \in {"cleaning", "settled"} /\ e.ok => e.done = Len(e.script)
  /\ e.at \in {"settled", "ended"} => e.held = {}
  /\ e.at \in Unsettled \cup {"settled"} /\ e.ok => e.left = {} /\ e.unheard = {}
  /\ e.at = "none" => Listed(e) = {}
  /\ \A i, j \in DOMAIN e.chain : i <= j => e.chain[i] <= e.chain[j]
  /\ \A i \in DOMAIN e.chain : e.chain[i] <= e.done

(* What a run may have on the stand is on its list, unless it was killed.  *)
InHand(r) == exec[r].at # "dead" => \A f \in Faults : book[f] = r => f \in Listed(exec[r])

InOrder(r) ==
  /\ Alive(r) /\ Active(r) => /\ row[r].step <= exec[r].done
                              /\ \A i \in DOMAIN exec[r].chain : row[r].step <= exec[r].chain[i]
  /\ exec[r].at = "none" => row[r].step = 0
  /\ row[r].status = "none" => row[r] = NoRow /\ exec[r].at = "none"

Kept(r) ==
  /\ Active(r) => Alive(r) \/ KeptByStart(r) \/ row[r].lost
  /\ Alive(r) /\ exec[r].halted = "given up" => ~Active(r) \/ row[r].lost
  /\ Acting(r) /\ row[r].owner \in Gateways /\ gate[row[r].owner].at = "halting" => Halted(r)
  /\ row[r].status # "none" => row[r].owner \in Gateways

Started(g) ==
  gate[g].start # NoRun =>
    /\ row[gate[g].start].status # "none" /\ row[gate[g].start].owner = g
    /\ exec[gate[g].start].at = "none"

RunInv(r) == Sound(exec[r]) /\ InHand(r) /\ InOrder(r) /\ Kept(r)

StandInv == Types /\ (\A r \in Runs : RunInv(r)) /\ (\A g \in Gateways : Started(g))

-------------------------------------------------------------------------------
LEMMA NoExecutionIs ==
  /\ NoExecution \in Execs /\ Sound(NoExecution) /\ Listed(NoExecution) = {}
  /\ NoExecution.at = "none" /\ NoExecution.chain = <<>> /\ NoExecution.done = 0
BY DEF NoExecution, Execs, Ats, Sound, Unsettled, Listed

LEMMA InitStand == Init => StandInv
<1> SUFFICES ASSUME Init PROVE StandInv
  OBVIOUS
<1>1. Types
  BY NoExecutionIs DEF Init, Types, Rows, Gates, NoRow
<1>2. ASSUME NEW r \in Runs PROVE RunInv(r)
  <2>1. exec[r] = NoExecution /\ row[r] = NoRow
    BY DEF Init
  <2>2. \A f \in Faults : book[f] # r
    BY DEF Init, NoRun, Runs
  <2> QED BY <2>1, <2>2, NoExecutionIs DEF RunInv, InHand, InOrder, Kept, NoRow, Active, Alive, Acting, Unsettled
<1>3. \A g \in Gateways : Started(g)
  BY DEF Init, Started
<1> QED BY <1>1, <1>2, <1>3 DEF StandInv

-------------------------------------------------------------------------------
(* Runs that a step leaves alone: nobody puts their faults in, their       *)
(* gateway does not begin to halt, and the start that keeps them stays.    *)
LEMMA LeftAlone ==
  ASSUME StandInv, NEW q \in Runs, exec'[q] = exec[q], row'[q] = row[q],
         \A f \in Faults : book'[f] = q => book[f] = q,
         KeptByStart(q) => KeptByStart(q)',
         \A g \in Gateways : gate'[g].at = "halting" /\ Acting(q) /\ row[q].owner = g =>
                               gate[g].at = "halting" \/ Halted(q)
  PROVE  RunInv(q)'
<1>1. RunInv(q)
  BY DEF StandInv
<1>2. Sound(exec'[q]) /\ InHand(q)'
  BY <1>1 DEF RunInv, InHand
<1>3. InOrder(q)'
  BY <1>1 DEF RunInv, InOrder, Alive, Active
<1>4. Kept(q)'
  BY <1>1 DEF RunInv, Kept, Active, Alive, Acting, Halted
<1> QED BY <1>2, <1>3, <1>4 DEF RunInv

(* Steps of an executor that tell nobody: the list knows what it does.     *)
LEMMA ExecutorSteps ==
  ASSUME StandInv, NEW r \in Runs, NEW e \in Execs, Put(r, e), UNCHANGED <<row, gate>>,
         Alive(r), e.at \in Unsettled \cup {"settled"},
         exec[r].at = "settled" => e.at = "settled",
         Sound(e), exec[r].done <= e.done,
         \A i \in DOMAIN e.chain : e.chain[i] >= exec[r].done \/ \E j \in DOMAIN exec[r].chain : e.chain[i] = exec[r].chain[j],
         e.halted = exec[r].halted \/ e.halted = "taken",
         Halted(r) => e.halted # "no",
         Listed(exec[r]) \subseteq Listed(e) \cup {f \in Faults : book'[f] # r},
         book' \in [Faults -> Runs \cup {NoRun}],
         \A f \in Faults : book'[f] = book[f] \/ book'[f] = NoRun \/ (book'[f] = r /\ f \in Listed(e))
  PROVE  StandInv'
<1>1. Types /\ RunInv(r)
  BY DEF StandInv
<1>2. exec' = [exec EXCEPT ![r] = e] /\ exec'[r] = e /\ \A q \in Runs : q # r => exec'[q] = exec[q]
  BY <1>1 DEF Put, Types
<1>3. Types'
  BY <1>1, <1>2 DEF Types
<1>4. ASSUME NEW q \in Runs, q # r PROVE RunInv(q)'
  <2>1. q # NoRun
    BY DEF Runs, NoRun
  <2> QED BY <1>2, <1>4, <2>1, LeftAlone DEF KeptByStart
<1>5. InHand(r)'
  <2>1. \A f \in Faults : book[f] = r => f \in Listed(exec[r])
    BY <1>1 DEF RunInv, InHand, Alive, Unsettled
  <2>2. r # NoRun
    BY DEF Runs, NoRun
  <2> QED BY <1>2, <2>1, <2>2 DEF InHand
<1>6. InOrder(r)'
  <2>1. exec[r].at # "none" /\ e.at # "none"
    BY DEF Alive, Unsettled
  <2>2. Active(r) => row[r].step <= exec[r].done /\ \A i \in DOMAIN exec[r].chain : row[r].step <= exec[r].chain[i]
    BY <1>1 DEF RunInv, InOrder
  <2>3. exec[r].done \in Nat /\ e.done \in Nat /\ row[r].step \in Nat /\ e.chain \in Seq(Nat)
    BY <1>1 DEF Types, Execs, Rows
  <2>4. \A i \in DOMAIN e.chain : e.chain[i] \in Nat
    BY <2>3
  <2>5. Active(r) => row[r].step <= e.done /\ \A i \in DOMAIN e.chain : row[r].step <= e.chain[i]
    BY <2>2, <2>3, <2>4
  <2> QED BY <1>1, <1>2, <2>1, <2>5 DEF RunInv, InOrder, Active
<1>7. Kept(r)'
  <2>1. Acting(r)' => Acting(r)
    BY <1>2 DEF Acting, Alive, Unsettled
  <2>2. Alive(r)'
    BY <1>2 DEF Alive
  <2>3. e.halted = "given up" => exec[r].halted = "given up"
    OBVIOUS
  <2>4. UNCHANGED <<Active(r), KeptByStart(r)>>
    BY DEF Active, KeptByStart
  <2> QED BY <1>1, <1>2, <2>1, <2>2, <2>3, <2>4 DEF RunInv, Kept, Halted, Active
<1>8. ASSUME NEW g \in Gateways PROVE Started(g)'
  <2>1. Started(g) /\ gate[g].start \in Runs \cup {NoRun}
    BY <1>1 DEF StandInv, Types, Gates
  <2>2. exec[r].at # "none"
    BY DEF Alive, Unsettled
  <2> QED BY <1>2, <2>1, <2>2 DEF Started
<1> QED BY <1>3, <1>2, <1>1, <1>4, <1>5, <1>6, <1>7, <1>8 DEF StandInv, RunInv

(* Steps on the table and of gateways that touch no execution.             *)
RowKeeps(r) ==
  /\ row'[r] \in Rows
  /\ row[r].status = "none" => row'[r] = row[r]
  /\ row[r].status # "none" => row'[r].status # "none"
  /\ row'[r].owner = row[r].owner /\ row'[r].step = row[r].step
  /\ row'[r].status \in {"queued", "running"} =>
       row[r].status \in {"queued", "running"} /\ row'[r].lost = row[r].lost

LEMMA TableSteps ==
  ASSUME StandInv, UNCHANGED exec, row' \in [Runs -> Rows], \A r \in Runs : RowKeeps(r),
         gate' \in [Gateways -> Gates],
         \A g \in Gateways : gate'[g].start = gate[g].start /\ (gate'[g].at = "halting" => gate[g].at = "halting"),
         book' \in [Faults -> Runs \cup {NoRun}], \A f \in Faults : book'[f] \in {book[f], NoRun}
  PROVE  StandInv'
<1>1. Types
  BY DEF StandInv
<1>2. Types'
  BY <1>1 DEF Types
<1>3. ASSUME NEW r \in Runs PROVE RunInv(r)'
  <2>1. RunInv(r) /\ RowKeeps(r)
    BY DEF StandInv
  <2>2. Sound(exec'[r])
    BY <2>1 DEF RunInv
  <2>3. InHand(r)'
    <3>1. r # NoRun
      BY DEF Runs, NoRun
    <3> QED BY <2>1, <3>1 DEF RunInv, InHand
  <2>4. InOrder(r)'
    BY <2>1 DEF RunInv, InOrder, RowKeeps, Active, Alive
  <2>5. Kept(r)'
    BY <2>1 DEF RunInv, Kept, RowKeeps, Active, Alive, Acting, Halted, KeptByStart
  <2> QED BY <2>2, <2>3, <2>4, <2>5 DEF RunInv
<1>4. ASSUME NEW g \in Gateways PROVE Started(g)'
  <2>1. Started(g) /\ gate[g].start \in Runs \cup {NoRun}
    BY <1>1 DEF StandInv, Types, Gates
  <2> QED BY <2>1 DEF Started, RowKeeps
<1> QED BY <1>2, <1>3, <1>4 DEF StandInv

-------------------------------------------------------------------------------
(* What is written to the table.                                           *)
LEMMA SweptIs ==
  ASSUME Types, NEW rs \in SUBSET Runs
  PROVE  /\ Swept(rs) \in [Runs -> Rows]
         /\ \A r \in Runs \ rs : Swept(rs)[r] = row[r]
         /\ \A r \in rs : /\ Swept(rs)[r].status = "failed" /\ Swept(rs)[r].by = "sweep"
                          /\ Swept(rs)[r].owner = row[r].owner /\ Swept(rs)[r].step = row[r].step
<1>1. PICK t : t = Swept(rs)
  OBVIOUS
<1>2. t = [r \in Runs |-> IF r \in rs THEN [row[r] EXCEPT !.status = "failed", !.by = "sweep",
                                                         !.fresh = FALSE, !.lost = FALSE] ELSE row[r]]
  BY <1>1 DEF Swept
<1>3. ASSUME NEW r \in Runs
      PROVE  /\ t[r] \in Rows
             /\ r \notin rs => t[r] = row[r]
             /\ r \in rs => /\ t[r].status = "failed" /\ t[r].by = "sweep"
                          /\ t[r].owner = row[r].owner /\ t[r].step = row[r].step
  <2>1. row[r] \in Rows
    BY DEF Types
  <2>2. r \in rs => t[r] = [row[r] EXCEPT !.status = "failed", !.by = "sweep", !.fresh = FALSE, !.lost = FALSE]
    BY <1>2
  <2>3. r \notin rs => t[r] = row[r]
    BY <1>2
  <2> QED BY <2>1, <2>2, <2>3 DEF Rows
<1>4. t \in [Runs -> Rows]
  BY <1>2, <1>3
<1> QED BY <1>1, <1>3, <1>4

LEMMA LostIs ==
  ASSUME Types, NEW rs \in SUBSET Runs
  PROVE  /\ Lost(rs) \in [Runs -> Rows]
         /\ \A r \in Runs :
              /\ Lost(rs)[r].status = row[r].status /\ Lost(rs)[r].owner = row[r].owner
              /\ Lost(rs)[r].step = row[r].step /\ Lost(rs)[r].by = row[r].by
              /\ row[r].lost => Lost(rs)[r].lost
              /\ r \in rs /\ Active(r) => Lost(rs)[r].lost
              /\ r \notin rs \/ ~Active(r) => Lost(rs)[r] = row[r]
<1>1. PICK t : t = Lost(rs)
  OBVIOUS
<1>2. t = [r \in Runs |-> IF r \in rs /\ Active(r) THEN [row[r] EXCEPT !.lost = TRUE] ELSE row[r]]
  BY <1>1 DEF Lost
<1>3. ASSUME NEW r \in Runs
      PROVE  /\ t[r] \in Rows
             /\ t[r].status = row[r].status /\ t[r].owner = row[r].owner
             /\ t[r].step = row[r].step /\ t[r].by = row[r].by
             /\ row[r].lost => t[r].lost
             /\ r \in rs /\ Active(r) => t[r].lost
             /\ r \notin rs \/ ~Active(r) => t[r] = row[r]
  <2>1. row[r] \in Rows
    BY DEF Types
  <2>2. r \in rs /\ Active(r) => t[r] = [row[r] EXCEPT !.lost = TRUE]
    BY <1>2
  <2>3. r \notin rs \/ ~Active(r) => t[r] = row[r]
    BY <1>2
  <2> QED BY <2>1, <2>2, <2>3 DEF Rows
<1>4. t \in [Runs -> Rows]
  BY <1>2, <1>3
<1> QED BY <1>1, <1>3, <1>4

LEMMA CloseIs ==
  ASSUME Types, NEW r \in Runs, NEW status \in {"passed", "failed"}, NEW step \in Nat,
         NEW by \in {"finish", "start", "stop"}
  PROVE  /\ Close(row, r, status, step, by) \in [Runs -> Rows]
         /\ \A q \in Runs : q # r => Close(row, r, status, step, by)[q] = row[q]
         /\ Close(row, r, status, step, by)[r].owner = row[r].owner
         /\ ~Active(r) => Close(row, r, status, step, by)[r] = row[r]
         /\ Active(r) => /\ Close(row, r, status, step, by)[r].status = status
                         /\ Close(row, r, status, step, by)[r].step = step
BY DEF Types, Rows, Close, Active

LEMMA SweptKeeps ==
  ASSUME StandInv, NEW rs \in SUBSET Runs, \A r \in rs : Active(r), row' = Swept(rs)
  PROVE  row' \in [Runs -> Rows] /\ \A r \in Runs : RowKeeps(r)
<1>1. Types
  BY DEF StandInv
<1>2. ASSUME NEW r \in Runs PROVE RowKeeps(r)
  <2>1. row[r] \in Rows
    BY <1>1 DEF Types
  <2> QED BY <1>1, <2>1, SweptIs DEF RowKeeps, Active
<1> QED BY <1>1, <1>2, SweptIs

LEMMA StaleIs == \A owned : Stale(owned) \in SUBSET Runs /\ \A r \in Stale(owned) : Active(r)
BY DEF Stale

LEMMA RowsStay == ASSUME StandInv, UNCHANGED row PROVE row' \in [Runs -> Rows] /\ \A r \in Runs : RowKeeps(r)
BY DEF StandInv, Types, RowKeeps

LEMMA SweepStand == ASSUME StandInv, NEW g \in Gateways, Sweep(g) PROVE StandInv'
<1>1. row' \in [Runs -> Rows] /\ \A r \in Runs : RowKeeps(r)
  BY SweptKeeps, StaleIs DEF Sweep
<1> QED BY <1>1, TableSteps DEF Sweep, StandInv, Types

LEMMA BootStand == ASSUME StandInv, NEW g \in Gateways, Boot(g) PROVE StandInv'
<1>1. row' \in [Runs -> Rows] /\ \A r \in Runs : RowKeeps(r)
  BY SweptKeeps, StaleIs, RowsStay DEF Boot
<1>2. gate' = [gate EXCEPT ![g].at = "up"] /\ UNCHANGED <<exec, book>>
  BY DEF Boot
<1>3. /\ gate' \in [Gateways -> Gates]
      /\ \A h \in Gateways : gate'[h].start = gate[h].start /\ (gate'[h].at = "halting" => gate[h].at = "halting")
  BY <1>2 DEF StandInv, Types, Gates
<1> QED BY <1>1, <1>2, <1>3, TableSteps DEF StandInv, Types

LEMMA GateStand == ASSUME StandInv, NEW g \in Gateways, Shutdown(g) \/ Restart(g) PROVE StandInv'
<1>1. row' \in [Runs -> Rows] /\ \A r \in Runs : RowKeeps(r)
  BY RowsStay DEF Shutdown, Restart
<1>2. (\E a \in {"stopping", "booting"} : gate' = [gate EXCEPT ![g].at = a]) /\ UNCHANGED <<exec, book>>
  BY DEF Shutdown, Restart
<1>3. /\ gate' \in [Gateways -> Gates]
      /\ \A h \in Gateways : gate'[h].start = gate[h].start /\ (gate'[h].at = "halting" => gate[h].at = "halting")
  BY <1>2 DEF StandInv, Types, Gates
<1> QED BY <1>1, <1>2, <1>3, TableSteps DEF StandInv, Types

LEMMA StaleStand == ASSUME StandInv, NEW r \in Runs, GoesStale(r) PROVE StandInv'
<1>1. row' = [row EXCEPT ![r].fresh = FALSE] /\ UNCHANGED <<gate, exec, book>>
  BY DEF GoesStale
<1>2. row' \in [Runs -> Rows] /\ \A q \in Runs : RowKeeps(q)
  <2>1. row \in [Runs -> Rows] /\ row[r].status # "none"
    BY DEF StandInv, Types, GoesStale, Active
  <2> QED BY <1>1, <2>1 DEF Rows, RowKeeps
<1> QED BY <1>1, <1>2, TableSteps DEF StandInv, Types

LEMMA ExpireStand == ASSUME StandInv, NEW f \in Faults, Expire(f) PROVE StandInv'
<1>1. book' \in [Faults -> Runs \cup {NoRun}] /\ \A k \in Faults : book'[k] \in {book[k], NoRun}
  BY DEF StandInv, Types, Expire, Without
<1> QED BY <1>1, RowsStay, TableSteps DEF StandInv, Types, Expire

-------------------------------------------------------------------------------
(* Steps of the executor.                                                  *)
LEMMA LenIs ==
  ASSUME NEW s \in Scripts
  PROVE  /\ s \in Seq([kind : {"inject", "clear", "simScenario", "wait"}, faults : SUBSET Faults])
         /\ Len(s) \in Nat /\ s # <<>> /\ Len(s) > 0
<1>1. s \in Seq([kind : {"inject", "clear", "simScenario", "wait"}, faults : SUBSET Faults]) /\ s # <<>>
  BY ScenarioAssumption DEF ScenarioAssumption
<1> QED BY <1>1

LEMMA ExecIs ==
  ASSUME StandInv, NEW r \in Runs
  PROVE  /\ exec[r] \in Execs /\ Sound(exec[r])
         /\ exec[r].done \in Nat /\ exec[r].chain \in Seq(Nat)
         /\ exec[r].script # <<>> => Len(exec[r].script) \in Nat
         /\ Alive(r) => \A f \in Faults : book[f] = r => f \in Listed(exec[r])
<1>1. exec[r] \in Execs /\ RunInv(r)
  BY DEF StandInv, Types
<1>2. exec[r].script # <<>> => Len(exec[r].script) \in Nat
  <2>1. exec[r].script \in Scripts \cup {<<>>}
    BY <1>1 DEF Execs
  <2> QED BY <2>1, LenIs
<1>3. exec[r].done \in Nat /\ exec[r].chain \in Seq(Nat)
  BY <1>1 DEF Execs
<1>4. Alive(r) => exec[r].at # "dead"
  BY DEF Alive, Unsettled
<1> QED BY <1>1, <1>2, <1>3, <1>4 DEF RunInv, InHand

LEMMA StepIs ==
  ASSUME StandInv, NEW r \in Runs, exec[r].at = "running"
  PROVE  /\ Step(r).faults \in SUBSET Faults
         /\ exec[r].ok /\ exec[r].left = {} /\ exec[r].unheard = {}
         /\ exec[r].script \in Scripts /\ exec[r].done + 1 \in 1..Len(exec[r].script)
<1>1. exec[r] \in Execs /\ Sound(exec[r]) /\ exec[r].done \in Nat
  BY ExecIs
<1>2. exec[r].script \in Scripts /\ exec[r].done < Len(exec[r].script) /\ exec[r].ok
  BY <1>1 DEF Sound, Execs
<1>3. exec[r].script \in Seq([kind : {"inject", "clear", "simScenario", "wait"}, faults : SUBSET Faults])
  BY <1>2, ScenarioAssumption DEF ScenarioAssumption
<1>4. exec[r].done + 1 \in 1..Len(exec[r].script)
  BY <1>1, <1>2, <1>3
<1>5. Step(r) \in [kind : {"inject", "clear", "simScenario", "wait"}, faults : SUBSET Faults]
  <2>1. PICK S : S = [kind : {"inject", "clear", "simScenario", "wait"}, faults : SUBSET Faults]
    OBVIOUS
  <2>2. exec[r].script \in Seq(S)
    BY <1>3, <2>1
  <2>3. exec[r].script[exec[r].done + 1] \in S
    BY <1>4, <2>2
  <2> QED BY <2>1, <2>3 DEF Step
<1> QED BY <1>1, <1>2, <1>4, <1>5 DEF Sound, Unsettled

(* One step done, or failed, with something more or less on the list.      *)
LEMMA PassedIs ==
  ASSUME NEW e \in Execs, NEW fs \in SUBSET Faults, e.at = "running", Sound(e), e.script \in Scripts
  PROVE  LET p == Passed([e EXCEPT !.held = fs])
         IN  /\ p \in Execs /\ Sound(p) /\ p.at \in {"running", "cleaning"} /\ p.held = fs
             /\ p.done = e.done + 1 /\ p.chain = e.chain /\ p.halted = e.halted
             /\ p.left = e.left /\ p.unheard = e.unheard
<1>1. PICK n : n = [e EXCEPT !.held = fs]
  OBVIOUS
<1>2. /\ n \in Execs /\ n.at = e.at /\ n.held = fs /\ n.done = e.done /\ n.chain = e.chain /\ n.halted = e.halted
      /\ n.left = e.left /\ n.unheard = e.unheard /\ n.script = e.script /\ n.ok = e.ok
  BY <1>1 DEF Execs
<1>3. PICK a : a = IF n.done + 1 = Len(n.script) THEN "cleaning" ELSE "running"
  OBVIOUS
<1>4. PICK p : p = [n EXCEPT !.done = n.done + 1, !.at = a]
  OBVIOUS
<1>5. p = Passed([e EXCEPT !.held = fs])
  BY <1>1, <1>3, <1>4 DEF Passed
<1>6. n.done + 1 \in Nat /\ a \in Ats /\ a \in {"running", "cleaning"}
  <2>1. n.done \in Nat
    BY <1>2 DEF Execs
  <2>2. a \in {"running", "cleaning"}
    BY <1>3
  <2> QED BY <2>1, <2>2 DEF Ats, Unsettled
<1>7. /\ p \in Execs /\ p.at = a /\ p.held = fs /\ p.done = e.done + 1 /\ p.chain = e.chain /\ p.halted = e.halted
      /\ p.left = e.left /\ p.unheard = e.unheard /\ p.script = e.script /\ p.ok = e.ok
  BY <1>2, <1>4, <1>6 DEF Execs
<1>8. Sound(p)
  <2>1. e.ok /\ e.script # <<>> /\ e.done < Len(e.script) /\ e.left = {} /\ e.unheard = {}
    BY DEF Sound, Unsettled
  <2>2. Len(e.script) \in Nat /\ e.done \in Nat
    BY LenIs DEF Execs
  <2>3. a = "running" => p.done < Len(p.script)
    BY <1>2, <1>3, <1>7, <2>1, <2>2
  <2>4. a = "cleaning" => p.done = Len(p.script)
    BY <1>2, <1>3, <1>7
  <2>5. \A i \in DOMAIN e.chain : e.chain[i] \in Nat /\ e.chain[i] <= e.done
    <3>1. e.chain \in Seq(Nat)
      BY DEF Execs
    <3>2. \A i \in DOMAIN e.chain : e.chain[i] <= e.done
      BY DEF Sound
    <3> QED BY <3>1, <3>2
  <2>6. \A i \in DOMAIN p.chain : p.chain[i] <= p.done
    BY <1>7, <2>2, <2>5
  <2>7. \A i, j \in DOMAIN p.chain : i <= j => p.chain[i] <= p.chain[j]
    BY <1>7 DEF Sound
  <2> QED BY <1>6, <1>7, <2>1, <2>3, <2>4, <2>6, <2>7 DEF Sound, Unsettled
<1> QED BY <1>5, <1>6, <1>7, <1>8

LEMMA FailedIs ==
  ASSUME NEW n \in Execs,
         \A i, j \in DOMAIN n.chain : i <= j => n.chain[i] <= n.chain[j],
         \A i \in DOMAIN n.chain : n.chain[i] <= n.done
  PROVE  /\ Failed(n) \in Execs /\ Sound(Failed(n)) /\ Failed(n).at = "cleaning" /\ ~Failed(n).ok
         /\ Failed(n).held = n.held /\ Failed(n).unheard = n.unheard /\ Failed(n).left = n.left
         /\ Failed(n).done = n.done /\ Failed(n).chain = n.chain /\ Failed(n).halted = n.halted
<1>1. PICK p : p = Failed(n)
  OBVIOUS
<1>2. /\ p \in Execs /\ p.at = "cleaning" /\ p.ok = FALSE /\ p.held = n.held /\ p.unheard = n.unheard
      /\ p.left = n.left /\ p.done = n.done /\ p.chain = n.chain /\ p.halted = n.halted
  BY <1>1 DEF Failed, Execs, Ats, Unsettled
<1>3. Sound(p)
  BY <1>2 DEF Sound
<1> QED BY <1>1, <1>2, <1>3

LEMMA SameList == ASSUME NEW e \in Execs PROVE e = [e EXCEPT !.held = e.held]
BY DEF Execs

LEMMA BookIs ==
  ASSUME StandInv, NEW r \in Runs, NEW fs \in SUBSET Faults
  PROVE  /\ book \in [Faults -> Runs \cup {NoRun}]
         /\ With(r, fs) \in [Faults -> Runs \cup {NoRun}]
         /\ Without(fs) \in [Faults -> Runs \cup {NoRun}]
         /\ \A f \in Faults : With(r, fs)[f] = IF f \in fs THEN r ELSE book[f]
         /\ \A f \in Faults : Without(fs)[f] = IF f \in fs THEN NoRun ELSE book[f]
BY DEF StandInv, Types, With, Without

(* A step of the scenario, or of the cleaning: the progress waits as it did. *)
LEMMA Played ==
  ASSUME StandInv, NEW r \in Runs, NEW e \in Execs, Put(r, e), UNCHANGED <<row, gate>>,
         Acting(r), e.at \in Unsettled \cup {"settled"}, Sound(e),
         exec[r].done <= e.done, e.chain = exec[r].chain, e.halted = exec[r].halted,
         Listed(exec[r]) \subseteq Listed(e) \cup {f \in Faults : book'[f] # r},
         book' \in [Faults -> Runs \cup {NoRun}],
         \A f \in Faults : book'[f] = book[f] \/ book'[f] = NoRun \/ (book'[f] = r /\ f \in Listed(e))
  PROVE  StandInv'
<1>1. Alive(r) /\ exec[r].at # "settled"
  BY DEF Acting, Alive, Unsettled
<1>2. \A i \in DOMAIN e.chain : e.chain[i] = exec[r].chain[i] /\ i \in DOMAIN exec[r].chain
  OBVIOUS
<1>3. Halted(r) => e.halted # "no"
  BY DEF Halted
<1> QED BY <1>1, <1>2, <1>3, ExecutorSteps

(* The step of the scenario that is next is passed, or the run fails.      *)
LEMMA PassedStand ==
  ASSUME StandInv, NEW r \in Runs, exec[r].at = "running", NEW fs \in SUBSET Faults,
         Put(r, Passed([exec[r] EXCEPT !.held = fs])), UNCHANGED <<row, gate>>,
         book' \in [Faults -> Runs \cup {NoRun}],
         exec[r].held \subseteq fs \cup {f \in Faults : book'[f] # r},
         \A f \in Faults : book'[f] = book[f] \/ book'[f] = NoRun \/ (book'[f] = r /\ f \in fs)
  PROVE  StandInv'
<1>1. exec[r] \in Execs /\ Sound(exec[r]) /\ exec[r].script \in Scripts /\ exec[r].done \in Nat
  BY ExecIs, StepIs
<1>2. PICK p : p = Passed([exec[r] EXCEPT !.held = fs])
  OBVIOUS
<1>3. /\ p \in Execs /\ Sound(p) /\ p.at \in {"running", "cleaning"} /\ p.held = fs
      /\ p.done = exec[r].done + 1 /\ p.chain = exec[r].chain /\ p.halted = exec[r].halted
      /\ p.left = exec[r].left /\ p.unheard = exec[r].unheard
  BY <1>1, <1>2, PassedIs
<1>4. Acting(r) /\ p.at \in Unsettled \cup {"settled"} /\ exec[r].done <= p.done
  BY <1>1, <1>3 DEF Acting, Unsettled
<1>5. Listed(exec[r]) \subseteq Listed(p) \cup {f \in Faults : book'[f] # r} /\ fs \subseteq Listed(p)
  BY <1>3 DEF Listed
<1>6. Put(r, p)
  BY <1>2
<1> QED BY <1>3, <1>4, <1>5, <1>6, Played

LEMMA FailedStand ==
  ASSUME StandInv, NEW r \in Runs, exec[r].at = "running", NEW fs \in SUBSET Faults, NEW us \in SUBSET Faults,
         NEW n, (n = [exec[r] EXCEPT !.held = fs] /\ us = exec[r].unheard)
                  \/ (n = [exec[r] EXCEPT !.unheard = us] /\ fs = exec[r].held),
         Put(r, Failed(n)), UNCHANGED <<row, gate>>,
         book' \in [Faults -> Runs \cup {NoRun}], exec[r].held \subseteq fs,
         \A f \in Faults : book'[f] = book[f] \/ book'[f] = NoRun \/ (book'[f] = r /\ f \in fs \cup us)
  PROVE  StandInv'
<1>1. exec[r] \in Execs /\ Sound(exec[r]) /\ exec[r].done \in Nat /\ exec[r].unheard = {}
  BY ExecIs, StepIs
<1>2. PICK p : p = Failed(n)
  OBVIOUS
<1>3. /\ p \in Execs /\ Sound(p) /\ p.at = "cleaning" /\ p.held = fs
      /\ p.done = exec[r].done /\ p.chain = exec[r].chain /\ p.halted = exec[r].halted
      /\ p.left = exec[r].left /\ p.unheard = us
  <2>1. /\ n \in Execs /\ n.held = fs /\ n.unheard = us /\ n.done = exec[r].done
        /\ n.chain = exec[r].chain /\ n.halted = exec[r].halted /\ n.left = exec[r].left
    BY <1>1 DEF Execs
  <2>2. /\ \A i, j \in DOMAIN n.chain : i <= j => n.chain[i] <= n.chain[j]
        /\ \A i \in DOMAIN n.chain : n.chain[i] <= n.done
    BY <1>1, <2>1 DEF Sound
  <2> QED BY <1>2, <2>1, <2>2, FailedIs
<1>4. Acting(r) /\ p.at \in Unsettled \cup {"settled"} /\ exec[r].done <= p.done
  BY <1>1, <1>3 DEF Acting, Unsettled
<1>5. Listed(exec[r]) \subseteq Listed(p) /\ fs \cup us \subseteq Listed(p)
  BY <1>1, <1>3 DEF Listed
<1>6. Put(r, p)
  BY <1>2
<1> QED BY <1>3, <1>4, <1>5, <1>6, Played

LEMMA FailedPlain ==
  ASSUME StandInv, NEW r \in Runs, exec[r].at = "running", Put(r, Failed(exec[r])), UNCHANGED <<row, gate>>,
         book' \in [Faults -> Runs \cup {NoRun}],
         \A f \in Faults : book'[f] = book[f] \/ book'[f] = NoRun
  PROVE  StandInv'
<1>1. exec[r] \in Execs
  BY ExecIs
<1>2. PICK fs \in SUBSET Faults, us \in SUBSET Faults : fs = exec[r].held /\ us = exec[r].unheard
  BY <1>1 DEF Execs
<1>3. PICK n : n = exec[r]
  OBVIOUS
<1>4. n = [exec[r] EXCEPT !.held = fs]
  BY <1>1, <1>2, <1>3, SameList
<1>5. Put(r, Failed(n))
  BY <1>3
<1>6. exec[r].held \subseteq fs
  BY <1>2
<1>7. \A f \in Faults : book'[f] = book[f] \/ book'[f] = NoRun \/ (book'[f] = r /\ f \in fs \cup us)
  OBVIOUS
<1>8. (n = [exec[r] EXCEPT !.held = fs] /\ us = exec[r].unheard)
        \/ (n = [exec[r] EXCEPT !.unheard = us] /\ fs = exec[r].held)
  BY <1>2, <1>4
<1> QED BY <1>5, <1>6, <1>7, <1>8, FailedStand

LEMMA TooLateStand == ASSUME StandInv, NEW r \in Runs, TooLate(r) PROVE StandInv'
BY FailedPlain, BookIs DEF TooLate

LEMMA WaitStand == ASSUME StandInv, NEW r \in Runs, Wait(r) PROVE StandInv'
<1>1. exec[r] \in Execs /\ exec[r].at = "running" /\ UNCHANGED <<row, gate, book>>
  BY ExecIs DEF Wait
<1>2. exec[r].held \in SUBSET Faults /\ book \in [Faults -> Runs \cup {NoRun}]
  BY <1>1, BookIs DEF Execs
<1>3. CASE Put(r, Failed(exec[r]))
  BY <1>1, <1>2, <1>3, FailedPlain
<1>4. CASE Put(r, Passed(exec[r]))
  <2>1. Put(r, Passed([exec[r] EXCEPT !.held = exec[r].held]))
    BY <1>1, <1>4, SameList
  <2> QED BY <1>1, <1>2, <2>1, PassedStand
<1> QED BY <1>3, <1>4 DEF Wait

LEMMA InjectStand == ASSUME StandInv, NEW r \in Runs, Inject(r) PROVE StandInv'
<1>1. exec[r] \in Execs /\ exec[r].at = "running" /\ UNCHANGED <<row, gate>> /\ Step(r).faults \in SUBSET Faults
  BY ExecIs, StepIs DEF Inject
<1>2. PICK fs \in SUBSET Faults : fs = exec[r].held \cup Step(r).faults
  BY <1>1 DEF Execs
<1>3. PICK n : n = [exec[r] EXCEPT !.held = exec[r].held \cup Step(r).faults]
  OBVIOUS
<1>4. n = [exec[r] EXCEPT !.held = fs] /\ exec[r].held \subseteq fs /\ exec[r].unheard \in SUBSET Faults
  BY <1>1, <1>2, <1>3 DEF Execs
<1>5. book' \in {book, With(r, Step(r).faults)}
  BY DEF Inject
<1>6. /\ book' \in [Faults -> Runs \cup {NoRun}]
      /\ \A f \in Faults : book'[f] = book[f] \/ book'[f] = NoRun \/ (book'[f] = r /\ f \in fs)
  BY <1>1, <1>2, <1>5, BookIs
<1>7. CASE Put(r, Failed(n))
  BY <1>1, <1>4, <1>6, <1>7, FailedStand
<1>8. CASE Put(r, Passed(n))
  <2>1. Put(r, Passed([exec[r] EXCEPT !.held = fs]))
    BY <1>4, <1>8
  <2> QED BY <1>1, <1>4, <1>6, <2>1, PassedStand
<1> QED BY <1>3, <1>7, <1>8 DEF Inject

LEMMA ClearStand == ASSUME StandInv, NEW r \in Runs, Clear(r) PROVE StandInv'
<1>1. exec[r] \in Execs /\ exec[r].at = "running" /\ UNCHANGED <<row, gate>> /\ Step(r).faults \in SUBSET Faults
  BY ExecIs, StepIs DEF Clear
<1>2. book' \in {book, Without(Step(r).faults)}
  BY DEF Clear
<1>3. book' \in [Faults -> Runs \cup {NoRun}] /\ \A f \in Faults : book'[f] = book[f] \/ book'[f] = NoRun
  BY <1>1, <1>2, BookIs
<1>4. CASE Put(r, Failed(exec[r]))
  BY <1>1, <1>3, <1>4, FailedPlain
<1>5. CASE /\ book' = Without(Step(r).faults)
           /\ Put(r, Passed([exec[r] EXCEPT !.held = exec[r].held \ Step(r).faults]))
  <2>1. PICK fs \in SUBSET Faults : fs = exec[r].held \ Step(r).faults
    BY <1>1 DEF Execs
  <2>2. Put(r, Passed([exec[r] EXCEPT !.held = fs]))
    BY <1>5, <2>1
  <2>3. exec[r].held \subseteq fs \cup {f \in Faults : book'[f] # r}
    <3>1. r # NoRun
      BY DEF Runs, NoRun
    <3>2. exec[r].held \in SUBSET Faults
      BY <1>1 DEF Execs
    <3> QED BY <1>1, <1>5, <2>1, <3>1, <3>2, BookIs
  <2> QED BY <1>1, <1>3, <2>2, <2>3, PassedStand
<1> QED BY <1>4, <1>5 DEF Clear

LEMMA SimStand == ASSUME StandInv, NEW r \in Runs, SimScenario(r) PROVE StandInv'
<1>1. exec[r] \in Execs /\ exec[r].at = "running" /\ UNCHANGED <<row, gate>> /\ Step(r).faults \in SUBSET Faults
  BY ExecIs, StepIs DEF SimScenario
<1>2. book \in [Faults -> Runs \cup {NoRun}] /\ exec[r].held \in SUBSET Faults
  BY <1>1, BookIs DEF Execs
<1>3. CASE UNCHANGED book /\ Put(r, Failed(exec[r]))
  BY <1>1, <1>2, <1>3, FailedPlain
<1>4. CASE /\ book' = With(r, Step(r).faults)
           /\ Put(r, Passed([exec[r] EXCEPT !.held = exec[r].held \cup Step(r).faults]))
  <2>1. PICK fs \in SUBSET Faults : fs = exec[r].held \cup Step(r).faults
    BY <1>2, <1>1
  <2>2. Put(r, Passed([exec[r] EXCEPT !.held = fs]))
    BY <1>4, <2>1
  <2>3. /\ book' \in [Faults -> Runs \cup {NoRun}] /\ exec[r].held \subseteq fs
        /\ \A f \in Faults : book'[f] = book[f] \/ (book'[f] = r /\ f \in fs)
    BY <1>1, <1>4, <2>1, BookIs
  <2> QED BY <1>1, <2>2, <2>3, PassedStand
<1>5. CASE /\ book' = With(r, Step(r).faults)
           /\ Put(r, Failed([exec[r] EXCEPT !.unheard = Step(r).faults]))
  <2>1. PICK us \in SUBSET Faults : us = Step(r).faults
    BY <1>1
  <2>2. PICK n : n = [exec[r] EXCEPT !.unheard = us]
    OBVIOUS
  <2>3. Put(r, Failed(n))
    BY <1>5, <2>1, <2>2
  <2>4. /\ book' \in [Faults -> Runs \cup {NoRun}]
        /\ \A f \in Faults : book'[f] = book[f] \/ (book'[f] = r /\ f \in us)
    BY <1>1, <1>5, <2>1, BookIs
  <2>5. PICK fs \in SUBSET Faults : fs = exec[r].held
    BY <1>2
  <2>6. (n = [exec[r] EXCEPT !.held = fs] /\ us = exec[r].unheard)
          \/ (n = [exec[r] EXCEPT !.unheard = us] /\ fs = exec[r].held)
    BY <2>2, <2>5
  <2>7. exec[r].held \subseteq fs
    BY <2>5
  <2>8. \A f \in Faults : book'[f] = book[f] \/ book'[f] = NoRun \/ (book'[f] = r /\ f \in fs \cup us)
    BY <2>4
  <2> QED BY <1>1, <2>3, <2>4, <2>6, <2>7, <2>8, FailedStand
<1> QED BY <1>3, <1>4, <1>5 DEF SimScenario

LEMMA FirstStand == ASSUME StandInv, NEW r \in Runs, FirstFacts(r) PROVE StandInv'
<1>1. /\ exec[r] \in Execs /\ Sound(exec[r]) /\ exec[r].at = "starting" /\ UNCHANGED <<row, gate, book>>
      /\ exec[r].done \in Nat /\ book \in [Faults -> Runs \cup {NoRun}]
  BY ExecIs, BookIs DEF FirstFacts
<1>2. PICK e : Put(r, e) /\ (e = [exec[r] EXCEPT !.at = "running"]
                              \/ e = [exec[r] EXCEPT !.at = "cleaning", !.ok = FALSE])
  BY DEF FirstFacts
<1>3. /\ e \in Execs /\ e.at \in {"running", "cleaning"} /\ e.done = exec[r].done /\ e.chain = exec[r].chain
      /\ e.halted = exec[r].halted /\ e.held = exec[r].held /\ e.left = exec[r].left
      /\ e.unheard = exec[r].unheard /\ e.script = exec[r].script
      /\ e.at = "running" => e.ok = exec[r].ok
      /\ e.at = "cleaning" => e.ok = FALSE
  BY <1>1, <1>2 DEF Execs, Ats, Unsettled
<1>4. Sound(e)
  BY <1>1, <1>3 DEF Sound, Unsettled
<1>5. Acting(r) /\ e.at \in Unsettled \cup {"settled"} /\ Listed(exec[r]) = Listed(e) /\ exec[r].done <= e.done
  BY <1>1, <1>3 DEF Acting, Unsettled, Listed
<1> QED BY <1>1, <1>2, <1>3, <1>4, <1>5, Played

LEMMA CleanStand == ASSUME StandInv, NEW r \in Runs, CleanOne(r) PROVE StandInv'
<1>1. /\ exec[r] \in Execs /\ Sound(exec[r]) /\ exec[r].at = "cleaning" /\ UNCHANGED <<row, gate>>
      /\ exec[r].done \in Nat
  BY ExecIs DEF CleanOne
<1>2. PICK f \in exec[r].held :
        \/ book' = Without({f}) /\ Put(r, [exec[r] EXCEPT !.held = exec[r].held \ {f}])
        \/ /\ book' \in {book, Without({f})}
           /\ Put(r, [exec[r] EXCEPT !.held = exec[r].held \ {f}, !.left = exec[r].left \cup {f}, !.ok = FALSE])
  BY DEF CleanOne
<1>3. f \in Faults /\ exec[r].held \in SUBSET Faults /\ exec[r].left \in SUBSET Faults
  BY <1>1 DEF Execs
<1>4. /\ book' \in [Faults -> Runs \cup {NoRun}]
      /\ \A k \in Faults : book'[k] = book[k] \/ book'[k] = NoRun
  BY <1>2, <1>3, BookIs
<1>5. PICK hs \in SUBSET Faults : hs = exec[r].held \ {f}
  BY <1>3
<1>6. PICK ls \in SUBSET Faults : ls = exec[r].left \cup {f}
  BY <1>3
<1>7. CASE book' = Without({f}) /\ Put(r, [exec[r] EXCEPT !.held = exec[r].held \ {f}])
  <2>1. PICK e : e = [exec[r] EXCEPT !.held = hs]
    OBVIOUS
  <2>2. /\ e \in Execs /\ e.at = "cleaning" /\ e.done = exec[r].done /\ e.chain = exec[r].chain
        /\ e.halted = exec[r].halted /\ e.held = hs /\ e.left = exec[r].left
        /\ e.unheard = exec[r].unheard /\ e.script = exec[r].script /\ e.ok = exec[r].ok
    BY <1>1, <2>1 DEF Execs
  <2>3. Sound(e)
    BY <1>1, <2>2 DEF Sound, Unsettled
  <2>4. r # NoRun
    BY DEF Runs, NoRun
  <2>5. Listed(exec[r]) \subseteq Listed(e) \cup {k \in Faults : book'[k] # r}
    <3>1. book'[f] = NoRun
      BY <1>3, <1>7, BookIs
    <3> QED BY <1>3, <1>5, <2>2, <2>4, <3>1 DEF Listed
  <2>6. Acting(r) /\ e.at \in Unsettled \cup {"settled"} /\ exec[r].done <= e.done
    BY <1>1, <2>2 DEF Acting, Unsettled
  <2>7. Put(r, e)
    BY <1>5, <1>7, <2>1
  <2> QED BY <1>1, <1>4, <2>2, <2>3, <2>5, <2>6, <2>7, Played
<1>8. CASE Put(r, [exec[r] EXCEPT !.held = exec[r].held \ {f}, !.left = exec[r].left \cup {f}, !.ok = FALSE])
  <2>1. PICK e : e = [exec[r] EXCEPT !.held = hs, !.left = ls, !.ok = FALSE]
    OBVIOUS
  <2>2. /\ e \in Execs /\ e.at = "cleaning" /\ e.done = exec[r].done /\ e.chain = exec[r].chain
        /\ e.halted = exec[r].halted /\ e.held = hs /\ e.left = ls
        /\ e.unheard = exec[r].unheard /\ e.script = exec[r].script /\ e.ok = FALSE
    BY <1>1, <2>1 DEF Execs
  <2>3. Sound(e)
    BY <1>1, <2>2 DEF Sound, Unsettled
  <2>5. Listed(exec[r]) \subseteq Listed(e)
    BY <1>5, <1>6, <2>2 DEF Listed
  <2>6. Acting(r) /\ e.at \in Unsettled \cup {"settled"} /\ exec[r].done <= e.done
    BY <1>1, <2>2 DEF Acting, Unsettled
  <2>7. Put(r, e)
    BY <1>5, <1>6, <1>8, <2>1
  <2> QED BY <1>1, <1>4, <2>2, <2>3, <2>5, <2>6, <2>7, Played
<1> QED BY <1>2, <1>7, <1>8

LEMMA SettleStand == ASSUME StandInv, NEW r \in Runs, Settle(r) PROVE StandInv'
<1>1. /\ exec[r] \in Execs /\ Sound(exec[r]) /\ exec[r].at = "cleaning" /\ UNCHANGED <<row, gate, book>>
      /\ exec[r].done \in Nat /\ book \in [Faults -> Runs \cup {NoRun}] /\ exec[r].held = {}
  BY ExecIs, BookIs DEF Settle
<1>2. PICK e : Put(r, e) /\ e = [exec[r] EXCEPT !.at = "settled"]
  BY DEF Settle
<1>3. /\ e \in Execs /\ e.at = "settled" /\ e.done = exec[r].done /\ e.chain = exec[r].chain
      /\ e.halted = exec[r].halted /\ e.held = exec[r].held /\ e.left = exec[r].left
      /\ e.unheard = exec[r].unheard /\ e.script = exec[r].script /\ e.ok = exec[r].ok
  BY <1>1, <1>2 DEF Execs, Ats, Unsettled
<1>4. Sound(e)
  BY <1>1, <1>3 DEF Sound, Unsettled
<1>5. Acting(r) /\ e.at \in Unsettled \cup {"settled"} /\ Listed(exec[r]) = Listed(e) /\ exec[r].done <= e.done
  BY <1>1, <1>3 DEF Acting, Unsettled, Listed
<1> QED BY <1>1, <1>2, <1>3, <1>4, <1>5, Played

-------------------------------------------------------------------------------
(* The progress and the beats.                                             *)
LEMMA FlushStand == ASSUME StandInv, NEW r \in Runs, Flush(r) PROVE StandInv'
<1>1. /\ exec[r] \in Execs /\ Sound(exec[r]) /\ exec[r].at \in {"running", "cleaning"}
      /\ UNCHANGED <<row, gate, book>> /\ book \in [Faults -> Runs \cup {NoRun}]
      /\ exec[r].done \in Nat /\ exec[r].chain \in Seq(Nat)
  BY ExecIs, BookIs DEF Flush
<1>2. PICK c : c = Append(exec[r].chain, exec[r].done)
  OBVIOUS
<1>3. PICK e : Put(r, e) /\ e = [exec[r] EXCEPT !.chain = c]
  BY <1>2 DEF Flush
<1>4. c \in Seq(Nat) /\ DOMAIN c = 1..(Len(exec[r].chain) + 1) /\ Len(exec[r].chain) \in Nat
  BY <1>1, <1>2
<1>5. \A i \in DOMAIN c : c[i] = IF i \in DOMAIN exec[r].chain THEN exec[r].chain[i] ELSE exec[r].done
  BY <1>1, <1>2, <1>4
<1>6. /\ e \in Execs /\ e.at = exec[r].at /\ e.done = exec[r].done /\ e.chain = c
      /\ e.halted = exec[r].halted /\ e.held = exec[r].held /\ e.left = exec[r].left
      /\ e.unheard = exec[r].unheard /\ e.script = exec[r].script /\ e.ok = exec[r].ok
  BY <1>1, <1>3, <1>4 DEF Execs
<1>7. \A i \in DOMAIN c : c[i] <= exec[r].done
  BY <1>1, <1>5 DEF Sound
<1>8. \A i, j \in DOMAIN c : i <= j => c[i] <= c[j]
  <2> SUFFICES ASSUME NEW i \in DOMAIN c, NEW j \in DOMAIN c, i <= j PROVE c[i] <= c[j]
    OBVIOUS
  <2>1. CASE j \in DOMAIN exec[r].chain
    <3>1. i \in DOMAIN exec[r].chain
      BY <1>1, <1>4, <2>1
    <3> QED BY <1>1, <1>5, <2>1, <3>1 DEF Sound
  <2>2. CASE j \notin DOMAIN exec[r].chain
    BY <1>5, <1>7, <2>2
  <2> QED BY <2>1, <2>2
<1>9. Sound(e)
  BY <1>1, <1>6, <1>7, <1>8 DEF Sound, Unsettled
<1>10. /\ Alive(r) /\ e.at \in Unsettled \cup {"settled"} /\ exec[r].at # "settled" /\ Listed(exec[r]) = Listed(e)
       /\ exec[r].done <= e.done /\ (Halted(r) => e.halted # "no")
  BY <1>1, <1>6 DEF Alive, Unsettled, Listed, Halted
<1>11. \A i \in DOMAIN e.chain :
         e.chain[i] >= exec[r].done \/ \E j \in DOMAIN exec[r].chain : e.chain[i] = exec[r].chain[j]
  BY <1>1, <1>5, <1>6
<1> QED BY <1>1, <1>3, <1>6, <1>9, <1>10, <1>11, ExecutorSteps

(* The execution of a run that another has taken, or that only drops what  *)
(* it had to write.                                                        *)
LEMMA HaltedIs ==
  ASSUME StandInv, NEW r \in Runs, NEW reason \in {"no", "stopping", "taken"}
  PROVE  LET e == HaltedFor(r, reason)
         IN  /\ e \in Execs /\ Sound(e) /\ Listed(e) = Listed(exec[r]) /\ e.at = exec[r].at
             /\ e.done = exec[r].done /\ e.chain = exec[r].chain /\ e.script = exec[r].script
             /\ e.held = exec[r].held /\ e.left = exec[r].left /\ e.unheard = exec[r].unheard /\ e.ok = exec[r].ok
             /\ Halted(r) \/ ~Acting(r) => e = exec[r]
             /\ ~Halted(r) /\ Acting(r) => e.halted = reason
             /\ e.halted = exec[r].halted \/ e.halted = reason
<1>1. exec[r] \in Execs /\ Sound(exec[r])
  BY ExecIs
<1>2. PICK e : e = HaltedFor(r, reason)
  OBVIOUS
<1>3. CASE e = exec[r] /\ (Halted(r) \/ ~Acting(r))
  BY <1>1, <1>2, <1>3
<1>4. CASE Acting(r) /\ ~Halted(r)
  <2>1. e = [exec[r] EXCEPT !.halted = reason]
    BY <1>2, <1>4 DEF HaltedFor
  <2>2. /\ e \in Execs /\ e.at = exec[r].at
        /\ e.done = exec[r].done /\ e.chain = exec[r].chain /\ e.script = exec[r].script
        /\ e.held = exec[r].held /\ e.left = exec[r].left /\ e.unheard = exec[r].unheard /\ e.ok = exec[r].ok
        /\ e.halted = reason
    BY <1>1, <2>1 DEF Execs
  <2>3. Sound(e) /\ Listed(e) = Listed(exec[r])
    BY <1>1, <2>2 DEF Sound, Listed
  <2> QED BY <1>2, <1>4, <2>2, <2>3
<1> QED BY <1>2, <1>3, <1>4 DEF HaltedFor

LEMMA BeatStand == ASSUME StandInv, NEW r \in Runs, Beat(r) PROVE StandInv'
<1>1. CASE row' = [row EXCEPT ![r].fresh = TRUE] /\ UNCHANGED exec
  <2>1. row' \in [Runs -> Rows] /\ \A q \in Runs : RowKeeps(q)
    <3>1. row \in [Runs -> Rows] /\ Alive(r) /\ RunInv(r)
      BY DEF StandInv, Types, Beat, Acting, Alive
    <3>2. row[r].status # "none"
      BY <3>1 DEF RunInv, InOrder, Alive, Unsettled
    <3> QED BY <1>1, <3>1, <3>2 DEF Rows, RowKeeps
  <2> QED BY <1>1, <2>1, TableSteps DEF StandInv, Types, Beat
<1>2. CASE Put(r, HaltedFor(r, "taken")) /\ UNCHANGED row
  <2>1. PICK e : e = HaltedFor(r, "taken")
    OBVIOUS
  <2>2. /\ e \in Execs /\ Sound(e) /\ Listed(e) = Listed(exec[r]) /\ e.at = exec[r].at
        /\ e.done = exec[r].done /\ e.chain = exec[r].chain
        /\ Halted(r) \/ ~Acting(r) => e = exec[r]
        /\ e.halted = exec[r].halted \/ e.halted = "taken"
    BY <2>1, HaltedIs
  <2>3. /\ Alive(r) /\ e.at \in Unsettled \cup {"settled"} /\ exec[r].at # "settled"
        /\ (Halted(r) => e.halted # "no")
    BY <2>2 DEF Beat, Acting, Alive, Unsettled, Halted
  <2>4. exec[r].done \in Nat
    BY ExecIs
  <2>5. book \in [Faults -> Runs \cup {NoRun}] /\ UNCHANGED <<row, gate, book>> /\ Put(r, e)
    BY <1>2, <2>1 DEF StandInv, Types, Beat
  <2> QED BY <2>2, <2>3, <2>4, <2>5, ExecutorSteps
<1> QED BY <1>1, <1>2 DEF Beat

(* A step of one executor that also writes to its row.                     *)
LEMMA OwnSteps ==
  ASSUME StandInv, NEW r \in Runs, NEW e \in Execs, Put(r, e), Alive(r), e.at # "none", UNCHANGED <<gate, book>>,
         row' \in [Runs -> Rows], \A q \in Runs : q # r => row'[q] = row[q],
         row'[r].owner = row[r].owner, row'[r].status # "none", RunInv(r)'
  PROVE  StandInv'
<1>1. Types
  BY DEF StandInv
<1>2. exec' \in [Runs -> Execs] /\ exec'[r] = e /\ \A q \in Runs : q # r => exec'[q] = exec[q]
  BY <1>1 DEF Put, Types
<1>3. Types'
  BY <1>1, <1>2 DEF Types
<1>4. ASSUME NEW q \in Runs, q # r PROVE RunInv(q)'
  BY <1>2, <1>4, LeftAlone DEF KeptByStart
<1>5. ASSUME NEW g \in Gateways PROVE Started(g)'
  <2>1. Started(g) /\ gate[g].start \in Runs \cup {NoRun}
    BY <1>1 DEF StandInv, Types, Gates
  <2>2. exec[r].at # "none"
    BY DEF Alive, Unsettled
  <2> QED BY <1>2, <2>1, <2>2 DEF Started
<1> QED BY <1>3, <1>4, <1>5 DEF StandInv

LEMMA TailIs ==
  ASSUME NEW e \in Execs, Sound(e), e.chain # <<>>
  PROVE  /\ Tail(e.chain) \in Seq(Nat) /\ Head(e.chain) \in Nat /\ Head(e.chain) <= e.done
         /\ \A i \in DOMAIN Tail(e.chain) : /\ Tail(e.chain)[i] <= e.done /\ Head(e.chain) <= Tail(e.chain)[i]
                                          /\ \E j \in DOMAIN e.chain : Tail(e.chain)[i] = e.chain[j]
         /\ \A i, j \in DOMAIN Tail(e.chain) : i <= j => Tail(e.chain)[i] <= Tail(e.chain)[j]
<1> PICK c : c = Tail(e.chain)
  OBVIOUS
<1>1. e.chain \in Seq(Nat) /\ e.done \in Nat
  BY DEF Execs
<1>2. 1 \in DOMAIN e.chain /\ Head(e.chain) = e.chain[1]
  BY <1>1
<1>3. c \in Seq(Nat) /\ \A i \in DOMAIN c : i + 1 \in DOMAIN e.chain /\ c[i] = e.chain[i + 1] /\ i \in Nat /\ i >= 1
  BY <1>1
<1>4. /\ \A i, j \in DOMAIN e.chain : i <= j => e.chain[i] <= e.chain[j]
      /\ \A i \in DOMAIN e.chain : e.chain[i] <= e.done
  BY DEF Sound
<1>5. \A i \in DOMAIN c : c[i] <= e.done /\ Head(e.chain) <= c[i] /\ \E j \in DOMAIN e.chain : c[i] = e.chain[j]
  BY <1>2, <1>3, <1>4
<1>6. ASSUME NEW i \in DOMAIN c, NEW j \in DOMAIN c, i <= j PROVE c[i] <= c[j]
  <2>1. /\ i + 1 \in DOMAIN e.chain /\ c[i] = e.chain[i + 1] /\ i \in Nat
        /\ j + 1 \in DOMAIN e.chain /\ c[j] = e.chain[j + 1] /\ j \in Nat
    BY <1>3
  <2>2. i + 1 <= j + 1
    BY <1>6, <2>1
  <2> QED BY <1>4, <2>1, <2>2
<1>7. Head(e.chain) \in Nat /\ Head(e.chain) <= e.done
  BY <1>1, <1>2, <1>4
<1> QED BY <1>2, <1>3, <1>5, <1>6, <1>7

LEMMA WriteWith ==
  ASSUME StandInv, NEW r \in Runs, Write(r), NEW h, NEW reason \in {"no", "taken"},
         Put(r, [h EXCEPT !.chain = Tail(exec[r].chain)]), h = exec[r] \/ h = HaltedFor(r, reason),
         \/ row' = row
         \/ /\ Active(r) /\ reason = "no"
            /\ row' = [row EXCEPT ![r].status = "running", ![r].step = Head(exec[r].chain), ![r].fresh = TRUE]
  PROVE  StandInv'
<1>1. /\ exec[r] \in Execs /\ Sound(exec[r]) /\ exec[r].done \in Nat /\ exec[r].chain \in Seq(Nat)
      /\ Alive(r) /\ exec[r].chain # <<>> /\ UNCHANGED <<gate, book>> /\ RunInv(r)
      /\ row \in [Runs -> Rows] /\ book \in [Faults -> Runs \cup {NoRun}]
  BY ExecIs DEF StandInv, Types, Write
<1>3. PICK c : c = Tail(exec[r].chain)
  OBVIOUS
<1>4. PICK e : e = [h EXCEPT !.chain = c]
  OBVIOUS
<1>5. /\ h \in Execs /\ h.at = exec[r].at /\ Listed(h) = Listed(exec[r])
      /\ h.done = exec[r].done /\ h.script = exec[r].script
      /\ h.held = exec[r].held /\ h.left = exec[r].left /\ h.unheard = exec[r].unheard /\ h.ok = exec[r].ok
      /\ h.halted = exec[r].halted \/ h.halted = "taken"
      /\ Halted(r) => h.halted # "no"
  <2>1. CASE h = exec[r]
    BY <1>1, <2>1 DEF Halted
  <2>2. CASE h = HaltedFor(r, reason)
    <3>1. /\ h \in Execs /\ h.at = exec[r].at /\ Listed(h) = Listed(exec[r])
          /\ h.done = exec[r].done /\ h.script = exec[r].script
          /\ h.held = exec[r].held /\ h.left = exec[r].left /\ h.unheard = exec[r].unheard /\ h.ok = exec[r].ok
          /\ Halted(r) \/ ~Acting(r) => h = exec[r]
          /\ ~Halted(r) /\ Acting(r) => h.halted = reason
      BY <2>2, HaltedIs
    <3> QED BY <3>1 DEF Halted
  <2> QED BY <2>1, <2>2
<1>6. /\ c \in Seq(Nat) /\ Head(exec[r].chain) \in Nat /\ Head(exec[r].chain) <= exec[r].done
      /\ \A i \in DOMAIN c : /\ c[i] <= exec[r].done /\ Head(exec[r].chain) <= c[i]
                            /\ \E j \in DOMAIN exec[r].chain : c[i] = exec[r].chain[j]
      /\ \A i, j \in DOMAIN c : i <= j => c[i] <= c[j]
  <2>1. PICK x \in Execs : x = exec[r]
    BY <1>1
  <2>2. Sound(x) /\ x.chain # <<>>
    BY <1>1, <2>1
  <2>3. /\ Tail(x.chain) \in Seq(Nat) /\ Head(x.chain) \in Nat /\ Head(x.chain) <= x.done
        /\ \A i \in DOMAIN Tail(x.chain) : /\ Tail(x.chain)[i] <= x.done /\ Head(x.chain) <= Tail(x.chain)[i]
                                         /\ \E j \in DOMAIN x.chain : Tail(x.chain)[i] = x.chain[j]
        /\ \A i, j \in DOMAIN Tail(x.chain) : i <= j => Tail(x.chain)[i] <= Tail(x.chain)[j]
    BY <2>2, TailIs
  <2> QED BY <1>3, <2>1, <2>3
<1>7. /\ e \in Execs /\ e.at = exec[r].at /\ Listed(e) = Listed(exec[r])
      /\ e.done = exec[r].done /\ e.script = exec[r].script /\ e.chain = c
      /\ e.held = exec[r].held /\ e.left = exec[r].left /\ e.unheard = exec[r].unheard /\ e.ok = exec[r].ok
      /\ e.halted = h.halted
  BY <1>4, <1>5, <1>6 DEF Execs, Listed
<1>8. Sound(e)
  BY <1>1, <1>6, <1>7 DEF Sound
<1>9. Put(r, e)
  BY <1>3, <1>4
<1>10. CASE row' = row
  <2>1. e.at \in Unsettled \cup {"settled"} /\ (exec[r].at = "settled" => e.at = "settled") /\ exec[r].done <= e.done
    BY <1>1, <1>7 DEF Alive
  <2>2. \A i \in DOMAIN e.chain :
          e.chain[i] >= exec[r].done \/ \E j \in DOMAIN exec[r].chain : e.chain[i] = exec[r].chain[j]
    BY <1>6, <1>7
  <2> QED BY <1>1, <1>5, <1>7, <1>8, <1>9, <1>10, <2>1, <2>2, ExecutorSteps
<1>11. CASE row' = [row EXCEPT ![r].status = "running", ![r].step = Head(exec[r].chain), ![r].fresh = TRUE] /\ Active(r)
  <2>1. /\ row' \in [Runs -> Rows] /\ \A q \in Runs : q # r => row'[q] = row[q]
        /\ row'[r].status = "running" /\ row'[r].step = Head(exec[r].chain)
        /\ row'[r].owner = row[r].owner /\ row'[r].lost = row[r].lost
    <3>1. PICK n : n = Head(exec[r].chain)
      OBVIOUS
    <3>2. PICK w : w = [row[r] EXCEPT !.status = "running", !.step = n, !.fresh = TRUE]
      OBVIOUS
    <3>3. row[r] \in Rows /\ n \in Nat
      BY <1>1, <1>6, <3>1
    <3>4. w \in Rows /\ w.status = "running" /\ w.step = n /\ w.owner = row[r].owner /\ w.lost = row[r].lost
      BY <3>2, <3>3 DEF Rows
    <3>5. row' = [row EXCEPT ![r] = w]
      BY <1>1, <1>11, <3>1, <3>2
    <3> QED BY <1>1, <3>1, <3>4, <3>5
  <2>2. exec'[r] = e
    BY <1>9 DEF Put, StandInv, Types
  <2>3. InHand(r)'
    BY <1>1, <1>7, <2>2 DEF RunInv, InHand
  <2>4. InOrder(r)'
    BY <1>1, <1>6, <1>7, <2>1, <2>2 DEF InOrder, Alive, Unsettled
  <2>5. Kept(r)'
    <3>1. Alive(r)' /\ (Acting(r)' => Acting(r))
      BY <1>1, <1>7, <2>2 DEF Alive, Acting
    <3>2. e.halted = "given up" => exec[r].halted = "given up"
      BY <1>5, <1>7
    <3>3. Halted(r) => Halted(r)'
      BY <1>5, <1>7, <2>2 DEF Halted
    <3>4. Kept(r)
      BY <1>1 DEF RunInv
    <3>5. exec[r].halted = "given up" => row[r].lost
      BY <1>1, <1>11, <3>4 DEF Kept
    <3>6. gate' = gate
      BY <1>1
    <3>7. Acting(r)' /\ row'[r].owner \in Gateways /\ gate'[row'[r].owner].at = "halting" => Halted(r)'
      BY <2>1, <3>1, <3>3, <3>4, <3>6 DEF Kept
    <3>8. row[r].owner \in Gateways
      BY <1>11, <3>4 DEF Kept, Active
    <3> QED BY <2>1, <2>2, <3>1, <3>2, <3>5, <3>7, <3>8 DEF Kept
  <2>6. RunInv(r)'
    BY <1>8, <2>2, <2>3, <2>4, <2>5 DEF RunInv
  <2>7. e.at # "none"
    BY <1>1, <1>7 DEF Alive, Unsettled
  <2> QED BY <1>1, <1>7, <1>9, <2>1, <2>6, <2>7, OwnSteps
<1> QED BY <1>10, <1>11

LEMMA WriteStand == ASSUME StandInv, NEW r \in Runs, Write(r) PROVE StandInv'
<1>1. CASE Put(r, [exec[r] EXCEPT !.chain = Tail(exec[r].chain)]) /\ UNCHANGED row
  <2>1. PICK h : h = exec[r]
    OBVIOUS
  <2>2. PICK reason \in {"no", "taken"} : reason = "no"
    OBVIOUS
  <2> QED BY <1>1, <2>1, <2>2, WriteWith
<1>2. CASE /\ Mine(r) /\ Put(r, [HaltedFor(r, "no") EXCEPT !.chain = Tail(exec[r].chain)])
           /\ row' = [row EXCEPT ![r].status = "running", ![r].step = Head(exec[r].chain), ![r].fresh = TRUE]
  <2>1. PICK reason \in {"no", "taken"} : reason = "no"
    OBVIOUS
  <2>2. PICK h : h = HaltedFor(r, reason)
    OBVIOUS
  <2> QED BY <1>2, <2>1, <2>2, WriteWith DEF Mine
<1>3. CASE ~Mine(r) /\ Put(r, [HaltedFor(r, "taken") EXCEPT !.chain = Tail(exec[r].chain)]) /\ row' = row
  <2>1. PICK reason \in {"no", "taken"} : reason = "taken"
    OBVIOUS
  <2>2. PICK h : h = HaltedFor(r, reason)
    OBVIOUS
  <2> QED BY <1>3, <2>1, <2>2, WriteWith
<1> QED BY <1>1, <1>2, <1>3 DEF Write

-------------------------------------------------------------------------------
(* The end of an execution, and of the patience with it.                   *)
LEMMA ClosedOrLost ==
  ASSUME Types, NEW r \in Runs, NEW status \in {"passed", "failed"}, NEW step \in Nat,
         NEW by \in {"finish", "start", "stop"}, row[r].status # "none",
         row' = Lost({r}) \/ row' = Close(row, r, status, step, by)
  PROVE  /\ row' \in [Runs -> Rows] /\ \A q \in Runs : q # r => row'[q] = row[q]
         /\ row'[r].owner = row[r].owner /\ row'[r].status # "none"
         /\ Active(r)' => row'[r].lost /\ Active(r) /\ row'[r].step = row[r].step
         /\ ~Active(r) => row'[r] = row[r]
<1>1. CASE row' = Lost({r})
  <2>1. {r} \in SUBSET Runs
    OBVIOUS
  <2> QED BY <1>1, <2>1, LostIs DEF Active
<1>2. CASE row' = Close(row, r, status, step, by)
  <2>1. ~Active(r)'
    BY <1>2, CloseIs DEF Active
  <2> QED BY <1>2, <2>1, CloseIs DEF Active
<1> QED BY <1>1, <1>2

LEMMA FinishStand == ASSUME StandInv, NEW r \in Runs, Finish(r) PROVE StandInv'
<1>1. /\ exec[r] \in Execs /\ Sound(exec[r]) /\ exec[r].done \in Nat /\ exec[r].at = "settled"
      /\ UNCHANGED <<gate, book>> /\ RunInv(r) /\ Types
  BY ExecIs DEF StandInv, Finish
<1>2. Alive(r) /\ row[r].status # "none"
  BY <1>1 DEF Alive, RunInv, InOrder
<1>3. PICK e : e = Ended(exec[r])
  OBVIOUS
<1>4. /\ e \in Execs /\ e.at = "ended" /\ e.left = exec[r].left /\ e.unheard = exec[r].unheard
      /\ e.held = {} /\ e.chain = <<>>
  <2>1. PICK n : n = NoExecution
    OBVIOUS
  <2>2. n \in Execs /\ n.held = {} /\ n.chain = <<>>
    BY <2>1, NoExecutionIs DEF NoExecution
  <2>3. e = [n EXCEPT !.at = "ended", !.left = exec[r].left, !.unheard = exec[r].unheard]
    BY <1>3, <2>1 DEF Ended
  <2>4. exec[r].left \in SUBSET Faults /\ exec[r].unheard \in SUBSET Faults
    BY <1>1 DEF Execs
  <2> QED BY <2>2, <2>3, <2>4 DEF Execs, Ats
<1>5. Sound(e) /\ Listed(e) = Listed(exec[r])
  BY <1>1, <1>4 DEF Sound, Listed, Unsettled
<1>6. /\ row' \in [Runs -> Rows] /\ \A q \in Runs : q # r => row'[q] = row[q]
      /\ row'[r].owner = row[r].owner /\ row'[r].status # "none"
      /\ Active(r)' => row'[r].lost
  <2>1. PICK status \in {"passed", "failed"} : status = IF exec[r].ok THEN "passed" ELSE "failed"
    OBVIOUS
  <2>2. row' = Lost({r}) \/ row' = Close(row, r, status, exec[r].done, "finish")
    BY <2>1 DEF Finish
  <2> QED BY <1>1, <1>2, <2>2, ClosedOrLost
<1>7. Put(r, e)
  BY <1>3 DEF Finish
<1>8. exec'[r] = e
  BY <1>1, <1>7 DEF Put, Types
<1>9. InHand(r)'
  BY <1>1, <1>5, <1>8 DEF RunInv, InHand
<1>10. InOrder(r)'
  BY <1>4, <1>6, <1>8 DEF InOrder, Alive, Unsettled
<1>11. Kept(r)'
  <2>1. ~Alive(r)' /\ ~Acting(r)'
    BY <1>4, <1>8 DEF Alive, Acting, Unsettled
  <2>2. row[r].owner \in Gateways
    BY <1>1, <1>2 DEF RunInv, Kept
  <2> QED BY <1>6, <2>1, <2>2 DEF Kept
<1>12. RunInv(r)'
  BY <1>5, <1>8, <1>9, <1>10, <1>11 DEF RunInv
<1> QED BY <1>1, <1>2, <1>4, <1>6, <1>7, <1>12, OwnSteps

LEMMA GiveUpStand == ASSUME StandInv, NEW g \in Gateways, GiveUp(g) PROVE StandInv'
<1>1. PICK r \in Awaited(g) :
        /\ Put(r, [exec[r] EXCEPT !.halted = "given up"])
        /\ (row' = Lost({r}) \/ row' = Close(row, r, "failed", exec[r].done, "stop"))
  BY DEF GiveUp
<1>2. r \in Runs /\ Alive(r)
  BY DEF Awaited, OwnedBy
<1>3. /\ exec[r] \in Execs /\ Sound(exec[r]) /\ exec[r].done \in Nat
      /\ UNCHANGED <<gate, book>> /\ RunInv(r) /\ Types
  BY <1>2, ExecIs DEF StandInv, GiveUp
<1>4. row[r].status # "none" /\ exec[r].at # "none"
  BY <1>2, <1>3 DEF Alive, Unsettled, RunInv, InOrder
<1>5. PICK e : e = [exec[r] EXCEPT !.halted = "given up"]
  OBVIOUS
<1>6. /\ e \in Execs /\ e.at = exec[r].at /\ e.done = exec[r].done /\ e.chain = exec[r].chain
      /\ e.script = exec[r].script /\ e.ok = exec[r].ok /\ e.halted = "given up"
      /\ e.held = exec[r].held /\ e.left = exec[r].left /\ e.unheard = exec[r].unheard
  BY <1>3, <1>5 DEF Execs
<1>7. Sound(e) /\ Listed(e) = Listed(exec[r])
  BY <1>3, <1>6 DEF Sound, Listed
<1>8. /\ row' \in [Runs -> Rows] /\ \A q \in Runs : q # r => row'[q] = row[q]
      /\ row'[r].owner = row[r].owner /\ row'[r].status # "none"
      /\ Active(r)' => row'[r].lost /\ Active(r) /\ row'[r].step = row[r].step
  BY <1>1, <1>2, <1>3, <1>4, ClosedOrLost
<1>9. Put(r, e)
  BY <1>1, <1>5
<1>10. exec'[r] = e
  BY <1>2, <1>3, <1>9 DEF Put, Types
<1>11. InHand(r)'
  BY <1>3, <1>6, <1>7, <1>10 DEF RunInv, InHand
<1>12. InOrder(r)'
  <2>1. Alive(r) /\ Active(r) => /\ row[r].step <= exec[r].done
                                /\ \A i \in DOMAIN exec[r].chain : row[r].step <= exec[r].chain[i]
    BY <1>3 DEF RunInv, InOrder
  <2> QED BY <1>2, <1>4, <1>6, <1>8, <1>10, <2>1 DEF InOrder
<1>13. Kept(r)'
  <2>1. row[r].owner \in Gateways
    BY <1>3, <1>4 DEF RunInv, Kept
  <2>2. Halted(r)'
    BY <1>6, <1>10 DEF Halted
  <2> QED BY <1>8, <2>1, <2>2 DEF Kept
<1>14. RunInv(r)'
  BY <1>7, <1>10, <1>11, <1>12, <1>13 DEF RunInv
<1> QED BY <1>2, <1>3, <1>4, <1>6, <1>8, <1>9, <1>14, OwnSteps

-------------------------------------------------------------------------------
(* A run is created, and launched.                                         *)
LEMMA CreateStand == ASSUME StandInv, NEW g \in Gateways, Create(g) PROVE StandInv'
<1>1. PICK r \in Runs, lost \in BOOLEAN :
        /\ row[r].status = "none"
        /\ row' = [Swept(Stale({})) EXCEPT
                     ![r] = [NoRow EXCEPT !.status = "queued", !.owner = g, !.fresh = TRUE, !.lost = lost]]
        /\ gate' = [gate EXCEPT ![g].start = IF lost THEN NoRun ELSE r]
  BY DEF Create
<1>2. /\ UNCHANGED <<exec, book>> /\ gate[g].start = NoRun
      /\ Stale({}) = {q \in Runs : Active(q)} /\ Types
  BY DEF Create, StandInv
<1>3. PICK new : new = [NoRow EXCEPT !.status = "queued", !.owner = g, !.fresh = TRUE, !.lost = lost]
  OBVIOUS
<1>4. /\ new \in Rows /\ new.status = "queued" /\ new.owner = g /\ new.step = 0 /\ new.lost = lost
  BY <1>3 DEF NoRow, Rows, Nothing
<1>5. PICK rs \in SUBSET Runs : rs = Stale({})
  BY <1>2
<1>6. /\ row' \in [Runs -> Rows] /\ row'[r] = new
      /\ \A q \in Runs : q # r => row'[q] = Swept(rs)[q]
  BY <1>1, <1>2, <1>3, <1>4, <1>5, SweptIs
<1>7. ASSUME NEW q \in Runs, q # r
      PROVE  /\ ~Active(q)' /\ row'[q].owner = row[q].owner /\ row'[q].step = row[q].step
             /\ row[q].status = "none" => row'[q] = row[q]
             /\ row[q].status # "none" => row'[q].status # "none"
  <2>1. CASE Active(q)
    <3>1. q \in rs
      BY <1>2, <1>5, <2>1
    <3> QED BY <1>2, <1>6, <1>7, <2>1, <3>1, SweptIs DEF Active
  <2>2. CASE ~Active(q)
    <3>1. q \in Runs \ rs
      BY <1>2, <1>5, <2>2
    <3> QED BY <1>2, <1>6, <1>7, <2>2, <3>1, SweptIs DEF Active
  <2> QED BY <2>1, <2>2
<1>8. /\ gate' \in [Gateways -> Gates] /\ \A h \in Gateways : gate'[h].at = gate[h].at
      /\ \A h \in Gateways : h # g => gate'[h].start = gate[h].start
      /\ gate'[g].start = IF lost THEN NoRun ELSE r
  BY <1>1, <1>2 DEF Types, Gates
<1>9. Types'
  BY <1>2, <1>6, <1>8 DEF Types
<1>10. RunInv(r) /\ exec[r].at = "none"
  BY <1>1 DEF StandInv, RunInv, InOrder
<1>11. RunInv(r)'
  <2>1. Sound(exec'[r]) /\ InHand(r)'
    BY <1>2, <1>10 DEF RunInv, InHand
  <2>2. ~Alive(r)' /\ ~Acting(r)'
    BY <1>2, <1>10 DEF Alive, Acting, Unsettled
  <2>3. InOrder(r)'
    BY <1>2, <1>4, <1>6, <1>10, <2>2 DEF InOrder
  <2>4. row'[r].lost \/ KeptByStart(r)'
    BY <1>4, <1>6, <1>8 DEF KeptByStart
  <2>5. Kept(r)'
    BY <1>4, <1>6, <2>2, <2>4 DEF Kept
  <2> QED BY <2>1, <2>3, <2>5 DEF RunInv
<1>12. ASSUME NEW q \in Runs, q # r PROVE RunInv(q)'
  <2>1. RunInv(q)
    BY DEF StandInv
  <2>2. Sound(exec'[q]) /\ InHand(q)'
    BY <1>2, <2>1 DEF RunInv, InHand
  <2>3. InOrder(q)'
    BY <1>2, <1>7, <1>12, <2>1 DEF RunInv, InOrder
  <2>4. Kept(q)'
    BY <1>2, <1>7, <1>8, <1>12, <2>1 DEF RunInv, Kept, Alive, Acting, Halted
  <2> QED BY <2>2, <2>3, <2>4 DEF RunInv
<1>13. ASSUME NEW h \in Gateways PROVE Started(h)'
  <2>1. Started(h) /\ gate[h].start \in Runs \cup {NoRun}
    BY <1>2 DEF StandInv, Types, Gates
  <2>2. CASE h = g
    BY <1>2, <1>4, <1>6, <1>8, <1>10, <2>2 DEF Started
  <2>3. CASE h # g
    BY <1>1, <1>2, <1>7, <1>8, <2>1, <2>3 DEF Started
  <2> QED BY <2>2, <2>3
<1> QED BY <1>9, <1>11, <1>12, <1>13 DEF StandInv

LEMMA LaunchStand == ASSUME StandInv, NEW g \in Gateways, Launch(g) PROVE StandInv'
<1>1. PICK r : r = gate[g].start
  OBVIOUS
<1>2. /\ Types /\ Started(g) /\ gate[g] \in Gates /\ UNCHANGED book
      /\ gate' = [gate EXCEPT ![g].start = NoRun] /\ r # NoRun
  BY <1>1 DEF StandInv, Types, Launch
<1>3. r \in Runs /\ row[r].status # "none" /\ row[r].owner = g /\ exec[r].at = "none" /\ RunInv(r)
  BY <1>1, <1>2 DEF StandInv, Started, Gates
<1>4. /\ gate' \in [Gateways -> Gates] /\ \A h \in Gateways : gate'[h].at = gate[h].at
      /\ \A h \in Gateways : h # g => gate'[h].start = gate[h].start
      /\ gate'[g].start = NoRun
  BY <1>2 DEF Types, Gates
<1>5. ASSUME NEW h \in Gateways, h # g PROVE gate[h].start # r
  <2>1. Started(h)
    BY DEF StandInv
  <2> QED BY <1>2, <1>3, <1>5, <2>1 DEF Started
<1>6. ASSUME NEW q \in Runs, q # r, exec'[q] = exec[q], row'[q] = row[q] PROVE RunInv(q)'
  <2>1. KeptByStart(q) => KeptByStart(q)'
    BY <1>1, <1>4, <1>6 DEF KeptByStart
  <2> QED BY <1>2, <1>4, <1>6, <2>1, LeftAlone
<1>7. CASE gate[g].at = "up" /\ UNCHANGED row
            /\ \E s \in Scripts : exec' = [exec EXCEPT ![r] = [NoExecution EXCEPT !.at = "starting", !.script = s]]
  <2>1. PICK s \in Scripts : exec' = [exec EXCEPT ![r] = [NoExecution EXCEPT !.at = "starting", !.script = s]]
    BY <1>7
  <2>2. PICK n : n = NoExecution
    OBVIOUS
  <2>3. /\ n \in Execs /\ n.held = {} /\ n.left = {} /\ n.unheard = {} /\ n.chain = <<>> /\ n.done = 0
        /\ n.ok = TRUE /\ n.halted = "no"
    BY <2>2, NoExecutionIs DEF NoExecution
  <2>4. PICK e : e = [n EXCEPT !.at = "starting", !.script = s]
    OBVIOUS
  <2>5. /\ e \in Execs /\ e.at = "starting" /\ e.script = s /\ e.held = {} /\ e.left = {} /\ e.unheard = {}
        /\ e.chain = <<>> /\ e.done = 0 /\ e.ok = TRUE /\ e.halted = "no"
    BY <2>3, <2>4 DEF Execs, Ats, Unsettled
  <2>6. Sound(e)
    <3>1. s # <<>> /\ Len(s) \in Nat /\ 0 < Len(s)
      BY LenIs
    <3> QED BY <2>5, <3>1 DEF Sound, Unsettled
  <2>7. exec' \in [Runs -> Execs] /\ exec'[r] = e /\ \A q \in Runs : q # r => exec'[q] = exec[q]
    BY <1>2, <1>3, <2>1, <2>2, <2>4, <2>5 DEF Types
  <2>8. Types'
    BY <1>2, <1>4, <1>7, <2>7 DEF Types
  <2>9. InHand(r)'
    <3>1. \A f \in Faults : book[f] # r
      BY <1>3 DEF RunInv, InHand, Sound
    <3> QED BY <1>2, <3>1 DEF InHand
  <2>10. InOrder(r)'
    <3>1. row[r].step = 0
      BY <1>3 DEF RunInv, InOrder
    <3>2. row' = row
      BY <1>7
    <3>3. exec'[r].done = 0 /\ exec'[r].at = "starting" /\ DOMAIN exec'[r].chain = {}
      BY <2>5, <2>7
    <3> QED BY <1>3, <3>1, <3>2, <3>3 DEF InOrder
  <2>11. Kept(r)'
    <3>1. Alive(r)'
      BY <2>5, <2>7 DEF Alive, Unsettled
    <3> QED BY <1>3, <1>4, <1>7, <2>5, <2>7, <3>1 DEF Kept
  <2>12. RunInv(r)'
    BY <2>6, <2>7, <2>9, <2>10, <2>11 DEF RunInv
  <2>13. ASSUME NEW q \in Runs PROVE RunInv(q)'
    BY <1>6, <1>7, <2>7, <2>12
  <2>14. ASSUME NEW h \in Gateways PROVE Started(h)'
    <3>1. Started(h) /\ gate[h].start \in Runs \cup {NoRun}
      BY <1>2 DEF StandInv, Types, Gates
    <3>2. CASE h = g
      BY <1>4, <3>2 DEF Started
    <3>3. CASE h # g
      BY <1>4, <1>5, <1>7, <2>7, <3>1, <3>3 DEF Started
    <3> QED BY <3>2, <3>3
  <2> QED BY <2>8, <2>13, <2>14 DEF StandInv
<1>8. CASE UNCHANGED exec /\ (row' = Lost({r}) \/ row' = Close(row, r, "failed", 0, "start"))
  <2>1. /\ row' \in [Runs -> Rows] /\ \A q \in Runs : q # r => row'[q] = row[q]
        /\ row'[r].owner = row[r].owner /\ row'[r].status # "none"
        /\ Active(r)' => row'[r].lost
    BY <1>2, <1>3, <1>8, ClosedOrLost
  <2>2. row'[r].step = 0
    <3>1. row[r].step = 0
      BY <1>3 DEF RunInv, InOrder
    <3>2. CASE row' = Lost({r})
      <4>1. {r} \in SUBSET Runs
        BY <1>3
      <4> QED BY <1>2, <1>3, <3>1, <3>2, <4>1, LostIs
    <3>3. CASE row' = Close(row, r, "failed", 0, "start")
      <4>1. CASE Active(r)
        BY <1>2, <1>3, <3>3, <4>1, CloseIs
      <4>2. CASE ~Active(r)
        BY <1>2, <1>3, <3>1, <3>3, <4>2, CloseIs
      <4> QED BY <4>1, <4>2
    <3> QED BY <1>8, <3>2, <3>3
  <2>3. Types'
    BY <1>2, <1>4, <1>8, <2>1 DEF Types
  <2>4. RunInv(r)'
    <3>1. Sound(exec'[r]) /\ InHand(r)'
      BY <1>2, <1>3, <1>8 DEF RunInv, InHand
    <3>2. ~Alive(r)' /\ ~Acting(r)'
      BY <1>3, <1>8 DEF Alive, Acting, Unsettled
    <3>3. InOrder(r)'
      BY <2>1, <2>2, <3>2 DEF InOrder
    <3>4. Kept(r)'
      BY <1>3, <2>1, <3>2 DEF Kept
    <3> QED BY <3>1, <3>3, <3>4 DEF RunInv
  <2>5. ASSUME NEW q \in Runs PROVE RunInv(q)'
    BY <1>6, <1>8, <2>1, <2>4
  <2>6. ASSUME NEW h \in Gateways PROVE Started(h)'
    <3>1. Started(h) /\ gate[h].start \in Runs \cup {NoRun}
      BY <1>2 DEF StandInv, Types, Gates
    <3>2. CASE h = g
      BY <1>4, <3>2 DEF Started
    <3>3. CASE h # g
      BY <1>4, <1>5, <1>8, <2>1, <3>1, <3>3 DEF Started
    <3> QED BY <3>2, <3>3
  <2> QED BY <2>3, <2>5, <2>6 DEF StandInv
<1> QED BY <1>1, <1>7, <1>8 DEF Launch

-------------------------------------------------------------------------------
(* A gateway stops, or dies.                                               *)
LEMMA HaltAllStand == ASSUME StandInv, NEW g \in Gateways, HaltAll(g) PROVE StandInv'
<1>1. /\ Types /\ UNCHANGED <<row, book>> /\ gate' = [gate EXCEPT ![g].at = "halting"]
      /\ exec' = [r \in Runs |-> IF r \in OwnedBy(g) THEN HaltedFor(r, "stopping") ELSE exec[r]]
  BY DEF StandInv, HaltAll
<1>2. /\ gate' \in [Gateways -> Gates] /\ \A h \in Gateways : gate'[h].start = gate[h].start
      /\ \A h \in Gateways : h # g => gate'[h].at = gate[h].at
  BY <1>1 DEF Types, Gates
<1>3. ASSUME NEW r \in Runs
      PROVE  /\ exec'[r] \in Execs /\ Sound(exec'[r]) /\ Listed(exec'[r]) = Listed(exec[r])
             /\ exec'[r].at = exec[r].at /\ exec'[r].done = exec[r].done /\ exec'[r].chain = exec[r].chain
             /\ exec'[r].halted = "given up" => exec[r].halted = "given up"
             /\ r \notin OwnedBy(g) => exec'[r] = exec[r]
             /\ r \in OwnedBy(g) /\ Acting(r) => exec'[r].halted # "no"
             /\ Halted(r) => exec'[r] = exec[r]
  <2>1. CASE r \in OwnedBy(g)
    <3>1. exec'[r] = HaltedFor(r, "stopping")
      BY <1>1, <2>1
    <3>2. PICK e : e = HaltedFor(r, "stopping")
      OBVIOUS
    <3>3. /\ e \in Execs /\ Sound(e) /\ Listed(e) = Listed(exec[r]) /\ e.at = exec[r].at
          /\ e.done = exec[r].done /\ e.chain = exec[r].chain
          /\ Halted(r) \/ ~Acting(r) => e = exec[r]
          /\ ~Halted(r) /\ Acting(r) => e.halted = "stopping"
          /\ e.halted = exec[r].halted \/ e.halted = "stopping"
      BY <3>2, HaltedIs
    <3> QED BY <2>1, <3>1, <3>2, <3>3 DEF Halted
  <2>2. CASE r \notin OwnedBy(g)
    BY <1>1, <2>2, ExecIs
  <2> QED BY <2>1, <2>2
<1>4. Types'
  <2>1. exec' \in [Runs -> Execs]
    BY <1>1, <1>3
  <2> QED BY <1>1, <1>2, <2>1 DEF Types
<1>5. ASSUME NEW r \in Runs PROVE RunInv(r)'
  <2>1. RunInv(r)
    BY DEF StandInv
  <2>2. InHand(r)'
    BY <1>1, <1>3, <2>1 DEF RunInv, InHand
  <2>3. InOrder(r)'
    <3>1. (Alive(r)' => Alive(r)) /\ (Active(r)' => Active(r))
      BY <1>1, <1>3 DEF Alive, Active
    <3>2. row' = row /\ exec'[r].done = exec[r].done /\ exec'[r].chain = exec[r].chain /\ exec'[r].at = exec[r].at
      BY <1>1, <1>3
    <3>3. InOrder(r)
      BY <2>1 DEF RunInv
    <3>4. /\ Alive(r)' /\ Active(r)' => /\ row'[r].step <= exec'[r].done
                                       /\ \A i \in DOMAIN exec'[r].chain : row'[r].step <= exec'[r].chain[i]
          /\ exec'[r].at = "none" => row'[r].step = 0
          /\ row'[r].status = "none" => row'[r] = NoRow /\ exec'[r].at = "none"
      BY <3>1, <3>2, <3>3 DEF InOrder
    <3> QED BY <3>4 DEF InOrder
  <2>4. Kept(r)'
    <3>1. UNCHANGED <<Alive(r), Acting(r), KeptByStart(r), Active(r)>>
      BY <1>1, <1>2, <1>3 DEF Alive, Acting, KeptByStart, Active
    <3>2. Halted(r) => Halted(r)'
      BY <1>3 DEF Halted
    <3>3. Acting(r)' /\ row'[r].owner \in Gateways /\ gate'[row'[r].owner].at = "halting" => Halted(r)'
      <4>1. CASE row[r].owner = g
        <5>1. r \in OwnedBy(g)
          BY <4>1 DEF OwnedBy
        <5> QED BY <1>3, <3>1, <5>1 DEF Halted
      <4>2. CASE row[r].owner # g
        BY <1>1, <1>2, <2>1, <3>1, <3>2, <4>2 DEF RunInv, Kept
      <4> QED BY <4>1, <4>2
    <3> QED BY <1>1, <1>3, <2>1, <3>1, <3>3 DEF RunInv, Kept
  <2> QED BY <1>3, <2>2, <2>3, <2>4 DEF RunInv
<1>6. ASSUME NEW h \in Gateways PROVE Started(h)'
  <2>1. Started(h) /\ gate[h].start \in Runs \cup {NoRun}
    BY <1>1 DEF StandInv, Types, Gates
  <2> QED BY <1>1, <1>2, <1>3, <2>1 DEF Started
<1> QED BY <1>4, <1>5, <1>6 DEF StandInv

LEMMA KilledIs ==
  ASSUME StandInv, NEW g \in Gateways, exec' = Killed(g)
  PROVE  /\ exec' \in [Runs -> Execs]
         /\ \A r \in Runs : /\ r \notin OwnedBy(g) \/ ~Alive(r) => exec'[r] = exec[r]
                            /\ r \in OwnedBy(g) /\ Alive(r) => exec'[r].at = "dead"
                            /\ Sound(exec'[r])
<1>1. PICK d : d = [NoExecution EXCEPT !.at = "dead"]
  OBVIOUS
<1>2. d \in Execs /\ d.at = "dead" /\ Sound(d)
  <2>1. PICK n : n = NoExecution
    OBVIOUS
  <2>2. n \in Execs /\ n.chain = <<>>
    BY <2>1, NoExecutionIs
  <2>3. d = [n EXCEPT !.at = "dead"]
    BY <1>1, <2>1
  <2>4. d \in Execs /\ d.at = "dead" /\ d.chain = <<>>
    BY <2>2, <2>3 DEF Execs, Ats
  <2> QED BY <2>4 DEF Sound, Unsettled
<1>3. exec' = [r \in Runs |-> IF r \in OwnedBy(g) /\ Alive(r) THEN d ELSE exec[r]]
  BY <1>1 DEF Killed
<1>4. \A r \in Runs : exec[r] \in Execs /\ Sound(exec[r])
  BY ExecIs
<1> QED BY <1>2, <1>3, <1>4

LEMMA ExitStand == ASSUME StandInv, NEW g \in Gateways, Exit(g) PROVE StandInv'
<1>1. /\ Types /\ UNCHANGED <<row, book>> /\ gate' = [gate EXCEPT ![g].at = "down"] /\ exec' = Killed(g)
      /\ gate[g].at = "halting" /\ gate[g].start = NoRun /\ Awaited(g) = {}
  BY DEF StandInv, Exit
<1>2. /\ gate' \in [Gateways -> Gates] /\ \A h \in Gateways : gate'[h].start = gate[h].start
      /\ \A h \in Gateways : gate'[h].at = "halting" => gate[h].at = "halting"
  BY <1>1 DEF Types, Gates
<1>3. /\ exec' \in [Runs -> Execs]
      /\ \A r \in Runs : /\ r \notin OwnedBy(g) \/ ~Alive(r) => exec'[r] = exec[r]
                         /\ r \in OwnedBy(g) /\ Alive(r) => exec'[r].at = "dead"
                         /\ Sound(exec'[r])
  BY <1>1, KilledIs
<1>4. Types'
  BY <1>1, <1>2, <1>3 DEF Types
<1>5. ASSUME NEW r \in Runs PROVE RunInv(r)'
  <2>1. CASE r \notin OwnedBy(g) \/ ~Alive(r)
    <3>1. KeptByStart(r) => KeptByStart(r)'
      BY <1>2 DEF KeptByStart
    <3> QED BY <1>1, <1>2, <1>3, <2>1, <3>1, LeftAlone
  <2>2. CASE r \in OwnedBy(g) /\ Alive(r)
    <3>1. RunInv(r) /\ row[r].owner = g
      BY <2>2 DEF StandInv, OwnedBy
    <3>2. exec[r].at # "settled" => Halted(r)
      BY <1>1, <2>2, <3>1 DEF RunInv, Kept, Alive, Acting
    <3>3. exec[r].halted = "given up"
      BY <1>1, <2>2, <3>2 DEF Awaited
    <3>4. ~Active(r) \/ row[r].lost
      BY <2>2, <3>1, <3>3 DEF RunInv, Kept
    <3>5. row[r].status # "none"
      BY <2>2, <3>1 DEF RunInv, InOrder, Alive, Unsettled
    <3>6. exec'[r].at = "dead" /\ ~Alive(r)' /\ ~Acting(r)'
      BY <1>3, <2>2 DEF Alive, Acting, Unsettled
    <3>7. InHand(r)' /\ InOrder(r)'
      BY <1>1, <3>5, <3>6 DEF InHand, InOrder
    <3>8. Kept(r)'
      BY <1>1, <3>1, <3>4, <3>6 DEF Kept, Active
    <3> QED BY <1>3, <3>7, <3>8 DEF RunInv
  <2> QED BY <2>1, <2>2
<1>6. ASSUME NEW h \in Gateways PROVE Started(h)'
  <2>1. Started(h) /\ gate[h].start \in Runs \cup {NoRun}
    BY <1>1 DEF StandInv, Types, Gates
  <2> QED BY <1>1, <1>2, <1>3, <2>1 DEF Started, Alive, Unsettled
<1> QED BY <1>4, <1>5, <1>6 DEF StandInv

LEMMA CrashStand == ASSUME StandInv, NEW g \in Gateways, Crash(g) PROVE StandInv'
<1>1. /\ Types /\ UNCHANGED book /\ gate' = [gate EXCEPT ![g] = [at |-> "down", start |-> NoRun]]
      /\ exec' = Killed(g) /\ row' = Lost(OwnedBy(g))
  BY DEF StandInv, Crash
<1>2. /\ gate' \in [Gateways -> Gates] /\ gate'[g].start = NoRun
      /\ \A h \in Gateways : gate'[h].at = "halting" => gate[h].at = "halting"
      /\ \A h \in Gateways : h # g => gate'[h] = gate[h]
  BY <1>1 DEF Types, Gates
<1>3. /\ exec' \in [Runs -> Execs]
      /\ \A r \in Runs : /\ r \notin OwnedBy(g) \/ ~Alive(r) => exec'[r] = exec[r]
                         /\ r \in OwnedBy(g) /\ Alive(r) => exec'[r].at = "dead"
                         /\ Sound(exec'[r])
  BY <1>1, KilledIs
<1>4. /\ row' \in [Runs -> Rows]
      /\ \A r \in Runs : /\ row'[r].status = row[r].status /\ row'[r].owner = row[r].owner
                         /\ row'[r].step = row[r].step
                         /\ r \in OwnedBy(g) /\ Active(r) => row'[r].lost
                         /\ r \notin OwnedBy(g) \/ ~Active(r) => row'[r] = row[r]
  <2>1. PICK rs \in SUBSET Runs : rs = OwnedBy(g)
    BY DEF OwnedBy
  <2> QED BY <1>1, <2>1, LostIs
<1>5. Types'
  BY <1>1, <1>2, <1>3, <1>4 DEF Types
<1>6. ASSUME NEW r \in Runs PROVE RunInv(r)'
  <2>1. RunInv(r)
    BY DEF StandInv
  <2>2. CASE r \notin OwnedBy(g)
    <3>1. KeptByStart(r) => KeptByStart(r)'
      <4>1. gate[g].start # r
        <5>1. Started(g) /\ r # NoRun
          BY DEF StandInv, Runs, NoRun
        <5> QED BY <2>2, <5>1 DEF Started, OwnedBy
      <4> QED BY <1>2, <4>1 DEF KeptByStart
    <3> QED BY <1>1, <1>2, <1>3, <1>4, <2>2, <3>1, LeftAlone
  <2>3. CASE r \in OwnedBy(g)
    <3>1. ~Alive(r)' /\ ~Acting(r)' /\ (exec'[r] = exec[r] \/ exec'[r].at = "dead")
      BY <1>3, <2>3 DEF Alive, Acting, Unsettled
    <3>2. InHand(r)'
      BY <1>1, <2>1, <3>1 DEF RunInv, InHand
    <3>3. InOrder(r)'
      <4>1. Alive(r) => row[r].status # "none"
        BY <2>1 DEF RunInv, InOrder, Alive, Unsettled
      <4>2. exec'[r].at = "none" => exec[r].at = "none"
        BY <3>1
      <4>3. row[r].status = "none" => row'[r] = row[r] /\ exec'[r] = exec[r]
        BY <1>3, <1>4, <4>1 DEF Active
      <4> QED BY <1>4, <2>1, <3>1, <4>2, <4>3 DEF RunInv, InOrder
    <3>4. Kept(r)'
      BY <1>4, <2>1, <2>3, <3>1 DEF RunInv, Kept, Active
    <3> QED BY <1>3, <3>2, <3>3, <3>4 DEF RunInv
  <2> QED BY <2>2, <2>3
<1>7. ASSUME NEW h \in Gateways PROVE Started(h)'
  <2>1. Started(h) /\ gate[h].start \in Runs \cup {NoRun}
    BY <1>1 DEF StandInv, Types, Gates
  <2>2. CASE h = g
    BY <1>2, <2>2 DEF Started
  <2>3. CASE h # g
    BY <1>2, <1>3, <1>4, <2>1, <2>3 DEF Started, Alive, Unsettled
  <2> QED BY <2>2, <2>3
<1> QED BY <1>5, <1>6, <1>7 DEF StandInv

-------------------------------------------------------------------------------
LEMMA StandStep == StandInv /\ [Next]_vars => StandInv'
<1> SUFFICES ASSUME StandInv, [Next]_vars PROVE StandInv'
  OBVIOUS
<1>1. CASE UNCHANGED vars
  <2>1. UNCHANGED exec /\ gate' \in [Gateways -> Gates] /\ book' \in [Faults -> Runs \cup {NoRun}]
    BY <1>1 DEF StandInv, Types, vars
  <2>2. row' \in [Runs -> Rows] /\ \A r \in Runs : RowKeeps(r)
    BY <1>1, RowsStay DEF vars
  <2> QED BY <1>1, <2>1, <2>2, TableSteps DEF vars
<1>2. ASSUME NEW g \in Gateways,
             GateStep(g) \/ Sweep(g) \/ Create(g) \/ Shutdown(g) \/ GiveUp(g) \/ Crash(g)
      PROVE  StandInv'
  BY <1>2, LaunchStand, HaltAllStand, ExitStand, GateStand, BootStand, SweepStand, CreateStand, GiveUpStand,
     CrashStand DEF GateStep
<1>3. ASSUME NEW r \in Runs, RunnerStep(r) \/ Beat(r) \/ Flush(r) \/ Write(r) \/ GoesStale(r) PROVE StandInv'
  BY <1>3, FirstStand, TooLateStand, InjectStand, ClearStand, SimStand, WaitStand, CleanStand, SettleStand,
     FinishStand, BeatStand, FlushStand, WriteStand, StaleStand DEF RunnerStep
<1>4. ASSUME NEW f \in Faults, Expire(f) PROVE StandInv'
  BY <1>4, ExpireStand
<1> QED BY <1>1, <1>2, <1>3, <1>4 DEF Next

LEMMA StandAlways == Spec => []StandInv
<1> QED BY InitStand, StandStep, PTL DEF Spec

-------------------------------------------------------------------------------
(* A run in work has a keeper: its executor, the start that has created it *)
(* or, once its gateway died or could not write its end, the sweep; and    *)
(* the cleaning of a run that came to its end passes over no fault but     *)
(* those of a simulator's scenario whose answer was lost, which no outcome *)
(* names.  Of every gateway, run and scenario (scenarios.service.ts,       *)
(* runner.ts).                                                             *)
THEOREM ScenariosAreKept == Spec => []KeptAndKnown
<1>1. StandInv => KeptAndKnown
  <2> SUFFICES ASSUME StandInv PROVE KeptAndKnown
    OBVIOUS
  <2>1. RunHasKeeper
    BY DEF StandInv, RunInv, Kept, RunHasKeeper
  <2>2. ASSUME NEW r \in Runs, exec[r].at = "ended", NEW f \in Faults, book[f] = r
        PROVE  f \in exec[r].left \cup exec[r].unheard
    <3>1. RunInv(r)
      BY DEF StandInv
    <3>2. exec[r].held = {} /\ f \in Listed(exec[r])
      BY <2>2, <3>1 DEF RunInv, Sound, InHand
    <3> QED BY <3>2 DEF Listed
  <2> QED BY <2>1, <2>2 DEF KeptAndKnown, LeftoversAreKnown
<1> QED BY <1>1, StandAlways, PTL

(* What a step may do to the row of a run.                                 *)
Outcome(r) ==
  /\ row'[r].status = "passed" /\ row[r].status # "passed"
       => exec[r].done = Len(exec[r].script) /\ \A f \in Faults : book[f] # r
  /\ Closed(r) => row'[r].status = row[r].status /\ row'[r].by = row[r].by
  /\ row'[r].step >= row[r].step

LEMMA SameRow ==
  ASSUME StandInv, NEW r \in Runs, row'[r] = row[r] \/ (\E b \in BOOLEAN : row'[r] = [row[r] EXCEPT !.fresh = b])
  PROVE  Outcome(r)
<1>1. row[r] \in Rows
  BY DEF StandInv, Types
<1>2. row'[r].status = row[r].status /\ row'[r].by = row[r].by /\ row'[r].step = row[r].step
  BY <1>1 DEF Rows
<1>3. row[r].step \in Nat
  BY <1>1 DEF Rows
<1> QED BY <1>2, <1>3 DEF Outcome

LEMMA SweptOutcome ==
  ASSUME StandInv, NEW rs \in SUBSET Runs, \A q \in rs : Active(q), NEW r \in Runs, row'[r] = Swept(rs)[r]
  PROVE  Outcome(r)
<1>1. row[r].step \in Nat /\ Types
  BY DEF StandInv, Types, Rows
<1>2. CASE r \in rs
  BY <1>1, <1>2, SweptIs DEF Outcome, Closed, Active
<1>3. CASE r \notin rs
  BY <1>1, <1>3, SweptIs, SameRow
<1> QED BY <1>2, <1>3

LEMMA LostOutcome == ASSUME StandInv, NEW rs \in SUBSET Runs, row' = Lost(rs), NEW r \in Runs PROVE Outcome(r)
<1>1. row[r].step \in Nat /\ Types
  BY DEF StandInv, Types, Rows
<1> QED BY <1>1, LostIs DEF Outcome

LEMMA ClosedOutcome ==
  ASSUME StandInv, NEW p \in Runs, NEW status \in {"passed", "failed"}, NEW step \in Nat,
         NEW by \in {"finish", "start", "stop"}, row' = Close(row, p, status, step, by),
         Active(p) => step >= row[p].step,
         status = "passed" => exec[p].done = Len(exec[p].script) /\ \A f \in Faults : book[f] # p,
         NEW r \in Runs
  PROVE  Outcome(r)
<1>1. row[r].step \in Nat /\ Types
  BY DEF StandInv, Types, Rows
<1>2. CASE r # p
  BY <1>1, <1>2, CloseIs, SameRow
<1>3. CASE r = p /\ ~Active(p)
  BY <1>1, <1>3, CloseIs, SameRow
<1>4. CASE r = p /\ Active(p)
  BY <1>1, <1>4, CloseIs DEF Outcome, Closed, Active
<1> QED BY <1>2, <1>3, <1>4

LEMMA CreateOutcome == ASSUME StandInv, NEW g \in Gateways, Create(g), NEW q \in Runs PROVE Outcome(q)
<1>1. PICK r \in Runs, lost \in BOOLEAN :
        /\ row[r].status = "none"
        /\ row' = [Swept(Stale({})) EXCEPT
                     ![r] = [NoRow EXCEPT !.status = "queued", !.owner = g, !.fresh = TRUE, !.lost = lost]]
  BY DEF Create
<1>2. PICK rs \in SUBSET Runs : rs = Stale({}) /\ \A p \in rs : Active(p)
  BY StaleIs
<1>3. Types /\ Swept(rs) \in [Runs -> Rows]
  BY SweptIs DEF StandInv
<1>4. CASE q # r
  BY <1>1, <1>2, <1>3, <1>4, SweptOutcome
<1>5. CASE q = r
  <2>1. row'[q] = [NoRow EXCEPT !.status = "queued", !.owner = g, !.fresh = TRUE, !.lost = lost]
    BY <1>1, <1>2, <1>3, <1>5
  <2>2. row[q] = NoRow
    BY <1>1, <1>5 DEF StandInv, RunInv, InOrder
  <2> QED BY <2>1, <2>2 DEF Outcome, Closed, NoRow
<1> QED BY <1>4, <1>5

LEMMA LaunchOutcome == ASSUME StandInv, NEW g \in Gateways, Launch(g), NEW q \in Runs PROVE Outcome(q)
<1>1. PICK r : r = gate[g].start
  OBVIOUS
<1>2. Types /\ Started(g) /\ gate[g] \in Gates /\ r # NoRun
  BY <1>1 DEF StandInv, Types, Launch
<1>3. r \in Runs /\ exec[r].at = "none" /\ RunInv(r)
  BY <1>1, <1>2 DEF StandInv, Started, Gates
<1>4. row[r].step = 0
  BY <1>3 DEF RunInv, InOrder
<1>5. CASE row' = row
  BY <1>5, SameRow
<1>6. CASE row' = Close(row, r, "failed", 0, "start")
  <2>1. PICK status \in {"passed", "failed"} : status = "failed"
    OBVIOUS
  <2> QED BY <1>3, <1>4, <1>6, <2>1, ClosedOutcome
<1>7. CASE row' = Lost({r})
  BY <1>3, <1>7, LostOutcome
<1> QED BY <1>1, <1>5, <1>6, <1>7 DEF Launch

LEMMA GiveUpOutcome == ASSUME StandInv, NEW g \in Gateways, GiveUp(g), NEW q \in Runs PROVE Outcome(q)
<1>1. PICK r \in Awaited(g) : row' = Lost({r}) \/ row' = Close(row, r, "failed", exec[r].done, "stop")
  BY DEF GiveUp
<1>2. r \in Runs /\ Alive(r)
  BY DEF Awaited, OwnedBy
<1>3. exec[r].done \in Nat /\ row[r].step \in Nat /\ (Active(r) => exec[r].done >= row[r].step)
  BY <1>2, ExecIs DEF StandInv, Types, Rows, RunInv, InOrder
<1>4. CASE row' = Lost({r})
  BY <1>2, <1>4, LostOutcome
<1>5. CASE row' = Close(row, r, "failed", exec[r].done, "stop")
  <2>1. PICK status \in {"passed", "failed"} : status = "failed"
    OBVIOUS
  <2> QED BY <1>2, <1>3, <1>5, <2>1, ClosedOutcome
<1> QED BY <1>1, <1>4, <1>5

(* Nothing is left of a run that passes: it is settled, has done its last  *)
(* step and has nothing on any of its lists.                               *)
LEMMA FinishOutcome == ASSUME StandInv, NEW r \in Runs, Finish(r), NEW q \in Runs PROVE Outcome(q)
<1>1. exec[r] \in Execs /\ Sound(exec[r]) /\ RunInv(r) /\ exec[r].at = "settled"
  BY ExecIs DEF StandInv, Finish
<1>2. exec[r].done \in Nat /\ row[r].step \in Nat /\ Alive(r) /\ (Active(r) => exec[r].done >= row[r].step)
  BY <1>1, ExecIs DEF StandInv, Types, Rows, RunInv, InOrder, Alive
<1>3. PICK status \in {"passed", "failed"} : status = IF exec[r].ok THEN "passed" ELSE "failed"
  OBVIOUS
<1>4. status = "passed" => exec[r].done = Len(exec[r].script) /\ \A f \in Faults : book[f] # r
  <2> SUFFICES ASSUME status = "passed" PROVE exec[r].done = Len(exec[r].script) /\ \A f \in Faults : book[f] # r
    OBVIOUS
  <2>1. exec[r].ok
    BY <1>3
  <2>2. Listed(exec[r]) = {} /\ exec[r].done = Len(exec[r].script)
    BY <1>1, <2>1 DEF Sound, Listed
  <2> QED BY <1>1, <2>2 DEF RunInv, InHand
<1>5. row' = Close(row, r, status, exec[r].done, "finish") \/ row' = Lost({r})
  BY <1>3 DEF Finish
<1>6. CASE row' = Close(row, r, status, exec[r].done, "finish")
  BY <1>2, <1>4, <1>6, ClosedOutcome
<1>7. CASE row' = Lost({r})
  BY <1>7, LostOutcome
<1> QED BY <1>5, <1>6, <1>7

(* The snapshot that is written is the oldest of those that wait, and none *)
(* of them is older than what the row shows.                               *)
LEMMA WriteOutcome == ASSUME StandInv, NEW r \in Runs, Write(r), NEW q \in Runs PROVE Outcome(q)
<1>1. CASE row' = row
  BY <1>1, SameRow
<1>2. CASE /\ Active(r)
           /\ row' = [row EXCEPT ![r].status = "running", ![r].step = Head(exec[r].chain), ![r].fresh = TRUE]
  <2>1. /\ row \in [Runs -> Rows] /\ RunInv(r) /\ Alive(r) /\ exec[r].chain \in Seq(Nat) /\ exec[r].chain # <<>>
        /\ row[r].step \in Nat
    BY ExecIs DEF StandInv, Types, Rows, Write
  <2>2. PICK n : n = Head(exec[r].chain)
    OBVIOUS
  <2>3. n \in Nat /\ n = exec[r].chain[1] /\ 1 \in DOMAIN exec[r].chain
    BY <2>1, <2>2
  <2>4. n >= row[r].step
    BY <1>2, <2>1, <2>3 DEF RunInv, InOrder
  <2>5. row[r] \in Rows
    BY <2>1
  <2>6. row'[r].status = "running" /\ row'[r].step = n
    BY <1>2, <2>1, <2>2, <2>5 DEF Rows
  <2>7. q # r => row'[q] = row[q]
    BY <1>2, <2>1
  <2>8. CASE q # r
    BY <2>7, <2>8, SameRow
  <2>9. CASE q = r
    BY <1>2, <2>4, <2>6, <2>9 DEF Outcome, Closed, Active
  <2> QED BY <2>8, <2>9
<1> QED BY <1>1, <1>2 DEF Write, Mine

LEMMA StepOutcome == StandInv /\ [Next]_vars => \A r \in Runs : Outcome(r)
<1> SUFFICES ASSUME StandInv, [Next]_vars, NEW q \in Runs PROVE Outcome(q)
  OBVIOUS
<1>1. CASE row' = row
  BY <1>1, SameRow
<1>2. ASSUME NEW g \in Gateways, Sweep(g) \/ Boot(g) PROVE Outcome(q)
  <2>1. PICK rs \in SUBSET Runs : (\A p \in rs : Active(p)) /\ (row' = Swept(rs) \/ row' = row)
    BY <1>2, StaleIs DEF Sweep, Boot
  <2> QED BY <1>1, <2>1, SweptOutcome
<1>3. ASSUME NEW g \in Gateways, Create(g) \/ Launch(g) \/ GiveUp(g) PROVE Outcome(q)
  BY <1>3, CreateOutcome, LaunchOutcome, GiveUpOutcome
<1>4. ASSUME NEW g \in Gateways, Crash(g) PROVE Outcome(q)
  <2>1. PICK rs \in SUBSET Runs : row' = Lost(rs)
    BY <1>4 DEF Crash, OwnedBy
  <2> QED BY <2>1, LostOutcome
<1>5. ASSUME NEW r \in Runs, Finish(r) \/ Write(r) PROVE Outcome(q)
  BY <1>5, FinishOutcome, WriteOutcome
<1>6. ASSUME NEW r \in Runs, Beat(r) \/ GoesStale(r) PROVE Outcome(q)
  <2>1. row' = row \/ \E b \in BOOLEAN : row' = [row EXCEPT ![r].fresh = b]
    BY <1>6 DEF Beat, GoesStale
  <2>2. row'[q] = row[q] \/ (\E b \in BOOLEAN : row'[q] = [row[q] EXCEPT !.fresh = b])
    <3>1. row \in [Runs -> Rows]
      BY DEF StandInv, Types
    <3> QED BY <2>1, <3>1
  <2> QED BY <2>2, SameRow
<1>7. ASSUME NEW g \in Gateways, HaltAll(g) \/ Exit(g) \/ Restart(g) \/ Shutdown(g) PROVE row' = row
  BY <1>7 DEF HaltAll, Exit, Restart, Shutdown
<1>8. ASSUME NEW r \in Runs, RunnerStep(r) \/ Flush(r) PROVE Finish(r) \/ row' = row
  BY <1>8 DEF RunnerStep, Flush, FirstFacts, TooLate, Inject, Clear, SimScenario, Wait, CleanOne, Settle
<1>9. ASSUME NEW f \in Faults, Expire(f) PROVE row' = row
  BY <1>9 DEF Expire
<1>10. CASE UNCHANGED vars
  BY <1>1, <1>10 DEF vars
<1> QED BY <1>1, <1>2, <1>3, <1>4, <1>5, <1>6, <1>7, <1>8, <1>9, <1>10 DEF Next, GateStep

(* The outcome of a run is written once, "passed" only after all its steps *)
(* and with none of its faults left, and its progress never goes back:     *)
(* whoever writes, the executor, the start, the sweep or a shutdown that   *)
(* gives up (finishScenarioRun, progress-writer.ts).                       *)
THEOREM ScenarioOutcomesStand == Spec => OutcomesStand
<1>1. StandInv /\ [Next]_vars =>
        [\A r \in Runs : row'[r].status = "passed" /\ row[r].status # "passed"
            => exec[r].done = Len(exec[r].script) /\ \A f \in Faults : book[f] # r]_vars
  BY StepOutcome DEF Outcome
<1>2. StandInv /\ [Next]_vars =>
        [\A r \in Runs : Closed(r) => row'[r].status = row[r].status /\ row'[r].by = row[r].by]_vars
  BY StepOutcome DEF Outcome
<1>3. StandInv /\ [Next]_vars => [\A r \in Runs : row'[r].step >= row[r].step]_vars
  BY StepOutcome DEF Outcome
<1> QED BY <1>1, <1>2, <1>3, StandAlways, PTL DEF Spec, OutcomesStand, PassedIsClean, OutcomeStands, ProgressGoesForward
================================================================================
