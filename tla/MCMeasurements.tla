---------------------------- MODULE MCMeasurements ----------------------------
(***************************************************************************)
(* What a measurement means, on one instance: the state and the events of  *)
(* a device, the reading plan and the frame, the codec, the filter of      *)
(* spikes, and the simulated world the numbers come from.  They share no   *)
(* state, so a behaviour is about one of them, chosen at the start.        *)
(***************************************************************************)
EXTENDS DeviceHealth, TLC

CONSTANTS MaxVersion, Values, MaxDelta, AcceptAfter, BatchSize, MaxFrames, MaxUpsets, Base,
  MaxPdu, AddressSpace, MaxReadWords, MaxNow, Speeds, MaxTurns, MaxCatchUp, Draws, MaxEdges

VARIABLES part, profile, options, plan, frame, version, poll,
  raw, confirmed, belongs, memory, batch, table, poisoned, upsets,
  now, pace, doorsAndDips, often, rarely, seed, seen, edges

(* Profiles of three parameters without blocks and of two with one or two. *)
Places == [type : {"holding", "input"}, start : 0..2, words : {1, 2}]
Param(key, place) == [key |-> key, type |-> place.type, start |-> place.start, words |-> place.words]
ParamLists(n) == {[k \in 1..n |-> Param(k, at[k])] : at \in [1..n -> Places]}
DeclaredBlock == [type : {"holding", "input"}, start : 0..2, count : 1..3]
SmallProfiles ==
  [params : ParamLists(3), blocks : {<<>>}, maxBlock : {3}]
    \cup [params : ParamLists(2), blocks : [1..1 -> DeclaredBlock] \cup [1..2 -> DeclaredBlock], maxBlock : {3}]
SmallOptions ==
  [mode : {"merged"}, maxGap : {0, 1}, maxBlock : {0, 2}, ignoreDeclared : BOOLEAN]
    \cup [mode : {"naive"}, maxGap : {0}, maxBlock : {0}, ignoreDeclared : {FALSE}]

C == INSTANCE Codec
R == INSTANCE ReadPlans WITH Profiles <- SmallProfiles, Options <- SmallOptions
F == INSTANCE Readings WITH owned <- belongs
W == INSTANCE SimWorld WITH faults <- doorsAndDips
SmallDraws == {{}, {2}, {1, 4}}

health == vars
reads == <<profile, options, plan, frame, version, poll>>
measured == <<raw, confirmed, belongs, memory, batch, table, poisoned, upsets>>
physics == <<now, pace, doorsAndDips, often, rarely, seed, seen, edges>>
measurements == <<part, health, reads, measured, physics>>

NoPhysics ==
  now = 0 /\ pace = <<>> /\ doorsAndDips = <<>> /\ often = <<>> /\ rarely = <<>> /\ seed = {} /\ seen = <<>> /\ edges = 0
NoReads == profile = <<>> /\ options = <<>> /\ plan = <<>> /\ frame = <<>> /\ version = 0 /\ poll = "none"

MeasurementsInit ==
  /\ Init /\ F!ReadingsInit
  /\ \/ part \in {"health", "readings", "codec"} /\ NoReads /\ NoPhysics
     \/ part = "reads" /\ R!ReadsInit /\ NoPhysics
     \/ part = "world" /\ NoReads /\ W!WorldInit

MeasurementsNext ==
  \/ part = "health" /\ Next /\ UNCHANGED <<part, reads, measured, physics>>
  \/ part = "reads" /\ R!ReadsNext /\ UNCHANGED <<part, health, measured, physics>>
  \/ part = "readings" /\ F!ReadingsNext /\ UNCHANGED <<part, health, reads, physics>>
  \/ part = "world" /\ W!WorldNext /\ UNCHANGED <<part, health, reads, measured>>

Symmetry == Permutations(Instances)

MeasurementsSpec == MeasurementsInit /\ [][MeasurementsNext]_measurements

(* Parameters of every kind, with the orders of bytes, scales and meanings.*)
Plain == [enum |-> <<>>, bits |-> <<>>, order |-> "ABCD", num |-> 1, den |-> 1, offset |-> 0]
Scales == {<<1, 1>>, <<1, 2>>, <<3, 1>>, <<2, 3>>}
SmallParams ==
  {Plain @@ [dataType |-> "uint16"]}
    \cup {[Plain EXCEPT !.num = s[1], !.den = s[2], !.offset = o] @@ [dataType |-> t] :
            s \in Scales, o \in {-1, 0}, t \in {"int16", "uint16"}}
    \cup {[Plain EXCEPT !.order = o] @@ [dataType |-> t] : o \in C!Orders, t \in C!Wide}
    \cup {[Plain EXCEPT !.enum = 0 :> "idle" @@ 1 :> "run" @@ 3 :> "idle"] @@ [dataType |-> "uint16"],
          [Plain EXCEPT !.bits = <<[bit |-> 0, invert |-> FALSE], [bit |-> 2, invert |-> TRUE]>>]
            @@ [dataType |-> "bits16"]}

(* What a register says is written back as it was: the value read again is *)
(* the same, unless its scale rounds it out of the range of the type, and  *)
(* the words themselves are the same where nothing is scaled or named.     *)
CodecReturns ==
  \A p \in SmallParams : \A words \in [1..C!WordsOf(p.dataType) -> C!Words] :
    LET value == C!DecodeParam(words, p)
        written == C!EncodeParam(value, p)
    IN  /\ value # C!Null /\ written # <<>> => C!DecodeParam(written, p) = value
        /\ value # C!Null /\ written = <<>> => p.den # 1
        /\ p.num = p.den /\ p.enum = <<>> /\ p.bits = <<>> => written = words

(* A published frame holds every parameter of the profile, whole and of    *)
(* one moment, by requests within the limit; the models of the stand are   *)
(* read as their profiles say; and the codec returns what lies in the      *)
(* registers, the frames of the port what was sent.                        *)
ReadsAreTrue ==
  /\ part = "reads" => R!PlanIsSound /\ R!FrameIsWhole
  /\ part = "codec" => CodecReturns /\ C!FramesAreWhole /\ R!CatalogIsRead

(* A number that stands far from the one accepted before it was confirmed  *)
(* by frames of its own, and copies from the queue confirm nothing.        *)
SpikesAreHeld == F!SpikesAreHeld /\ F!CopiesAreQuiet

(* The simulated world is the same whoever looks and however often, unless *)
(* a fault of its physics begins or ends between two looks; its machines   *)
(* keep their rules and its time neither jumps nor runs ahead.             *)
WorldIsOne == part = "world" => W!LooksDoNotMatter /\ W!PhysicsHolds
===============================================================================
