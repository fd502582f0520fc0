------------------------------- MODULE MCIngest -------------------------------
(* Small instances of Ingest for TLC. *)
EXTENDS Ingest, TLC

Live(mode, value) == [kind |-> "live", mode |-> mode, value |-> value]

(* Setpoint 0..10 with hysteresis 2: 5 is normal, 9 in the return zone, 11 *)
(* above the range.                                                        *)
Normal == Live("cooling", 5)
InZone == Live("cooling", 9)
High == Live("cooling", 11)
Missing == Live("cooling", NoValue)
Copy == [kind |-> "copy", mode |-> "cooling", value |-> 5]
Poison == [kind |-> "poison", mode |-> "cooling", value |-> NoValue]

NormalAndHigh == {Normal, High}
WithZone == {Normal, InZone, High}
EveryKind == {Normal, High, Missing, Copy, Poison}

Symmetry == Permutations(Instances)
===============================================================================
