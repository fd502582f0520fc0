-------------------------------- MODULE Alarms --------------------------------
(***************************************************************************)
(* The alarm engine of packages/domain/src/alarms.ts for one metric of one *)
(* device.  One call of evaluateDeviceAlarms is one poll cycle: the memory *)
(* of the metric and the sample of the cycle give the next memory and at   *)
(* most one transition.  A setpoint is a numeric range with a hysteresis   *)
(* and a debounce counted in cycles; it exists or not for the mode of the  *)
(* cycle.                                                                  *)
(***************************************************************************)
EXTENDS Integers

CONSTANTS
  MinValue,     \* lower threshold of the setpoint
  MaxValue,     \* upper threshold of the setpoint
  Hysteresis,   \* width of the return zone
  Debounce,     \* debounceCycles: violating cycles in a row before a raise
  NoValue       \* no usable sample this cycle: missing or of bad quality

(* CHECKs of core.alarm_rules, packages/db/migrations/0009_alarms.sql. *)
ASSUME SetpointAssumption ==
  /\ MinValue \in Int /\ MaxValue \in Int /\ MinValue < MaxValue
  /\ Hysteresis \in Nat
  /\ Debounce \in Nat /\ Debounce >= 1
  /\ NoValue \notin Int

Boundary == {"none", "min", "max"}

(* MetricAlarmState: `raised` with its boundary and time, or a count of    *)
(* violating cycles in a row.                                              *)
AlarmMemory ==
  [raised: BOOLEAN, boundary: Boundary, cycles: Nat, raisedAt: Nat]

IdleAlarm == [raised |-> FALSE, boundary |-> "none", cycles |-> 0, raisedAt |-> 0]

PendingAlarm(boundary, n) ==
  [raised |-> FALSE, boundary |-> boundary, cycles |-> n, raisedAt |-> 0]

RaisedAlarm(boundary, at) ==
  [raised |-> TRUE, boundary |-> boundary, cycles |-> 0, raisedAt |-> at]

DetectViolation(value) ==
  IF value > MaxValue THEN "max" ELSE IF value < MinValue THEN "min" ELSE "none"

(* Mutant: no return zone. *)
IsBackInRange(boundary, value) ==
  IF boundary = "max" THEN value < MaxValue ELSE value > MinValue

IsBackToNormal(boundary, value) ==
  IF boundary = "max" THEN value < MaxValue - Hysteresis
                      ELSE value > MinValue + Hysteresis

(* violationCycles after this sample: the count goes on only on the same   *)
(* boundary.                                                               *)
CyclesAfter(mem, value) ==
  IF mem.boundary = DetectViolation(value) THEN mem.cycles + 1 ELSE 1

(* The cycle closes the episode: the setpoint is gone for this mode, or    *)
(* the value left the return zone.                                         *)
Clears(mem, ruled, value) ==
  /\ mem.raised
  /\ \/ ~ruled
     \/ value # NoValue /\ IsBackToNormal(mem.boundary, value)

(* Mutant: one cycle too early. *)
RaisesEarly(mem, ruled, value) ==
  /\ ruled
  /\ value # NoValue
  /\ ~mem.raised
  /\ DetectViolation(value) # "none"
  /\ CyclesAfter(mem, value) + 1 >= Debounce

(* The cycle opens an episode. *)
Raises(mem, ruled, value) ==
  /\ ruled
  /\ value # NoValue
  /\ ~mem.raised
  /\ DetectViolation(value) # "none"
  /\ CyclesAfter(mem, value) >= Debounce

EvaluateAlarm(mem, ruled, value, at) ==
  IF Raises(mem, ruled, value) THEN RaisedAlarm(DetectViolation(value), at)
  ELSE IF ~ruled \/ Clears(mem, ruled, value) THEN IdleAlarm
  ELSE IF value = NoValue \/ mem.raised THEN mem
  ELSE IF DetectViolation(value) = "none" THEN IdleAlarm
  ELSE PendingAlarm(DetectViolation(value), CyclesAfter(mem, value))
===============================================================================
