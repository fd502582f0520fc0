-------------------------------- MODULE SimWorld -------------------------------
(***************************************************************************)
(* The world of the device simulator: its own time with a speed, and the   *)
(* physics that is caught up in whole steps whenever somebody looks        *)
(* (physics/world.ts, chamber.ts, meter.ts).                               *)
(*                                                                         *)
(* The same world is kept twice: `often` is looked at in every tick of the *)
(* clock, `rarely` only now and then.  Temperatures are small integers     *)
(* around the setpoint 0, times are counted in steps, and the draws of the *)
(* seeded generator are one set of steps in which a closed door opens.     *)
(***************************************************************************)
EXTENDS Integers, FiniteSetsExt

CONSTANTS MaxNow,      \* ticks of the clock
          Speeds, MaxTurns,
          MaxCatchUp,  \* steps one look makes at most (MAX_CATCH_UP_STEPS)
          Draws,       \* the sets of steps a seed may open the door in
          MaxEdges     \* beginnings and ends of faults, defrosts by hand

VARIABLES now, pace, faults, often, rarely, seed, seen, edges
world == <<now, pace, faults, often, rarely, seed, seen, edges>>

StepTime == 2          \* ticks of simulated time in a step
Ambient == 3           \* the air of the room
Hysteresis == 1
StartingTime == 1
UnloadingTime == 2
MinOff == 2
HeatingTime == 2
DrainingTime == 2
DefrostInterval == 4
DoorTime == 2
WarmDelay == 2

DoorClosed == [open |-> FALSE, sec |-> 0, left |-> 0]

NextDoor(door, stuck, opens) ==
  CASE stuck -> [open |-> TRUE, sec |-> IF door.open THEN door.sec + 1 ELSE 0, left |-> 0]
    [] ~stuck /\ door.open /\ door.left > 1 -> [door EXCEPT !.sec = @ + 1, !.left = @ - 1]
    [] ~stuck /\ door.open /\ door.left <= 1 -> DoorClosed
    [] ~stuck /\ ~door.open /\ opens -> [open |-> TRUE, sec |-> 0, left |-> DoorTime]
    [] OTHER -> DoorClosed

Heat == [mode |-> "heating", sec |-> 0, left |-> DefrostInterval]

NextDefrost(defrost) ==
  LET later == [defrost EXCEPT !.sec = @ + 1]
      turns(mode) == [defrost EXCEPT !.mode = mode, !.sec = 0]
  IN  CASE defrost.mode = "idle" -> IF defrost.left > 1 THEN [later EXCEPT !.left = @ - 1] ELSE Heat
        [] defrost.mode = "heating" -> IF later.sec >= HeatingTime THEN turns("draining") ELSE later
        [] defrost.mode = "draining" -> IF later.sec >= DrainingTime THEN turns("idle") ELSE later

Compressor(state, sec) == [state |-> state, sec |-> sec]

(* Hysteresis, the least time between starts, and a dip of the power. *)
NextCompressor(chamber, mode, dip) ==
  LET c == chamber.compressor
      sec == c.sec + 1
      allowed == mode = "idle"
      warm == chamber.air > Hysteresis
      cold == chamber.air < -Hysteresis
  IN  CASE dip -> Compressor("stopped", IF c.state = "stopped" THEN sec ELSE 0)
        [] ~dip /\ c.state = "stopped" ->
             IF allowed /\ warm /\ sec >= MinOff THEN Compressor("starting", 0) ELSE Compressor("stopped", sec)
        [] ~dip /\ c.state = "starting" ->
             IF ~allowed THEN Compressor("stopped", 0)
             ELSE IF sec >= StartingTime THEN Compressor("running", 0) ELSE Compressor("starting", sec)
        [] ~dip /\ c.state = "running" ->
             IF ~allowed \/ cold THEN Compressor("unloading", 0) ELSE Compressor("running", sec)
        [] ~dip /\ c.state = "unloading" ->
             IF sec >= UnloadingTime THEN Compressor("stopped", 0) ELSE Compressor("unloading", sec)

Cooling(state) == CASE state = "running" -> 2 [] state = "unloading" -> 1 [] OTHER -> 0
Power(state, heating) ==
  (CASE state = "stopped" -> 1 [] state = "unloading" -> 2 [] state = "running" -> 3 [] OTHER -> 4)
    + (IF heating THEN 2 ELSE 0)

(* The power follows its target with a delay. *)
Lag(value, target) == IF value < target THEN value + 1 ELSE IF value > target THEN value - 1 ELSE value

StepChamber(c, opens, f) ==
  LET door == NextDoor(c.door, f.stuck, opens)
      defrost == NextDefrost(c.defrost)
      compressor == NextCompressor(c, defrost.mode, f.dip)
      warmer == c.air + (IF c.air < Ambient THEN 1 ELSE 0)
                      + (IF c.air < Ambient /\ door.open THEN 1 ELSE 0)
                      + (IF defrost.mode = "heating" THEN 1 ELSE 0)
      air == warmer - Cooling(compressor.state)
  IN  [door |-> door, defrost |-> defrost, compressor |-> compressor, air |-> air,
       warm |-> IF defrost.mode = "idle" /\ air > Hysteresis THEN c.warm + 1 ELSE 0,
       off |-> IF compressor.state = "stopped" THEN c.off + 1
               ELSE IF c.compressor.state = "stopped" THEN c.off ELSE -1]

StepMeter(meter, chamber, f) ==
  LET power == Lag(meter.power, Power(chamber.compressor.state, chamber.defrost.mode = "heating"))
  IN  [power |-> power, energy |-> meter.energy + power, dipped |-> f.dip]

(* What the two devices show when they are asked. *)
Measured(w) ==
  [chamber |-> [air |-> w.chamber.air, compressor |-> w.chamber.compressor.state, defrost |-> w.chamber.defrost.mode,
                door |-> w.chamber.door.open, high |-> w.chamber.warm >= WarmDelay, stuck |-> w.chamber.door.sec >= DoorTime],
   meter |-> w.meter]

(* All devices make each step together: a meter after the chamber it feeds.*)
Step(w, f) ==
  LET chamber == StepChamber(w.chamber, w.steps + 1 \in seed, f)
  IN  [stepped |-> w.stepped + StepTime, steps |-> w.steps + 1,
       chamber |-> chamber, meter |-> StepMeter(w.meter, chamber, f)]

-------------------------------------------------------------------------------
(* Mutant: the time is counted from the start at the speed of today. *)
SimNowFromStart == now * pace.speed

SimNow == pace.sim + (now - pace.real) * pace.speed

Behind(w) == (SimNow - w.stepped) \div StepTime

(* Of more than MaxCatchUp steps behind only the last ones are made. *)
CatchUp(w) ==
  LET missed == Behind(w)
      from == IF missed > MaxCatchUp
              THEN [w EXCEPT !.stepped = SimNow - MaxCatchUp * StepTime] ELSE w
      made[n \in Nat] == IF n = 0 THEN from ELSE Step(made[n - 1], faults)
  IN  made[IF missed > MaxCatchUp THEN MaxCatchUp ELSE missed]

(* A look after an edge of a fault, or after too long, has made steps that *)
(* the frequent looks have made otherwise.                                 *)
NoLook == [quiet |-> TRUE, same |-> TRUE]
Looked == [quiet |-> TRUE,
           same |-> seen.same /\ Behind(rarely) <= MaxCatchUp /\ (seen.quiet \/ Behind(rarely) = 0)]

StartWorld(left) ==
  [stepped |-> 0, steps |-> 0,
   chamber |-> [door |-> DoorClosed, defrost |-> [mode |-> "idle", sec |-> 0, left |-> left],
                compressor |-> Compressor("stopped", MinOff), air |-> Hysteresis, warm |-> 0, off |-> MinOff],
   meter |-> [power |-> 1, energy |-> 0, dipped |-> FALSE]]

WorldInit ==
  /\ now = 0
  /\ \E s \in Speeds : pace = [sim |-> 0, real |-> 0, speed |-> s, turns |-> 0]
  /\ faults = [stuck |-> FALSE, dip |-> FALSE]
  /\ \E left \in {2, DefrostInterval} : often = StartWorld(left)
  /\ rarely = often
  /\ seed \in Draws
  /\ seen = NoLook
  /\ edges = 0

Tick ==
  /\ now < MaxNow
  /\ now' = now + 1
  /\ UNCHANGED <<pace, faults, often, rarely, seed, seen, edges>>

OftenIsCaughtUp == Behind(often) = 0
LookOften ==
  /\ ~OftenIsCaughtUp
  /\ often' = CatchUp(often)
  /\ UNCHANGED <<now, pace, faults, rarely, seed, seen, edges>>

(* values: any device asked for, or the whole state of the stand. *)
LookRarely ==
  /\ OftenIsCaughtUp /\ Behind(rarely) > 0
  /\ rarely' = CatchUp(rarely)
  /\ seen' = Looked
  /\ UNCHANGED <<now, pace, faults, often, seed, edges>>

SetSpeed(s) ==
  /\ OftenIsCaughtUp /\ pace.turns < MaxTurns /\ s # pace.speed
  /\ rarely' = CatchUp(rarely)
  /\ seen' = Looked
  /\ pace' = [sim |-> SimNow, real |-> now, speed |-> s, turns |-> pace.turns + 1]
  /\ UNCHANGED <<now, faults, often, seed, edges>>

Defrosted(w) == IF w.chamber.defrost.mode = "idle" THEN [w EXCEPT !.chamber.defrost = Heat] ELSE w

StartDefrost ==
  /\ OftenIsCaughtUp /\ edges < MaxEdges
  /\ often' = Defrosted(often)
  /\ rarely' = Defrosted(CatchUp(rarely))
  /\ seen' = Looked
  /\ edges' = edges + 1
  /\ UNCHANGED <<now, pace, faults, seed>>

FaultEdge(kind) ==
  /\ OftenIsCaughtUp /\ edges < MaxEdges
  /\ faults' = [faults EXCEPT ![kind] = ~@]
  /\ seen' = [seen EXCEPT !.quiet = FALSE]
  /\ edges' = edges + 1
  /\ UNCHANGED <<now, pace, often, rarely, seed>>

WorldNext ==
  \/ OftenIsCaughtUp /\ Tick
  \/ LookOften \/ LookRarely \/ StartDefrost
  \/ \E s \in Speeds : SetSpeed(s)
  \/ \E k \in {"stuck", "dip"} : FaultEdge(k)

-------------------------------------------------------------------------------
(* Properties. *)

(* The same world whoever looks and however often, as the comment on World *)
(* has it (world.ts:40-44), while no fault of the physics begins or ends   *)
(* between two looks and none is more than a day late: the faults are      *)
(* looked up at the time of the look and hold for all the steps it makes.  *)
LooksDoNotMatter ==
  seen.same /\ Behind(rarely) = 0 /\ OftenIsCaughtUp =>
    Measured(rarely) = Measured(often) /\ rarely = often

(* A compressor never starts before its least time off (minOffSec), does   *)
(* not run on while the evaporator is heated, and a look ends within one step of the  *)
(* simulated time, never ahead of it, whatever the speed was turned to.    *)
PhysicsHolds ==
  \A w \in {often, rarely} :
    /\ w.chamber.compressor.state # "stopped" => w.chamber.off = -1 \/ w.chamber.off + 1 >= MinOff
    /\ w.chamber.compressor.state \in {"starting", "running"} =>
         w.chamber.defrost.mode = "idle" \/ w.chamber.defrost = Heat
    /\ w.stepped <= SimNow
===============================================================================
