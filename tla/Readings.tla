-------------------------------- MODULE Readings --------------------------------
(***************************************************************************)
(* From raw frames to readings: processFrame (ingest/frame.ts), the filter *)
(* of spikes (domain/filters.ts) and the part of RawBatchService that      *)
(* keeps the memory of the filter.  One metric of one device, one instance *)
(* of the processor that may lose the device and take it again.            *)
(***************************************************************************)
EXTENDS Integers, Sequences, FiniteSets, SequencesExt

CONSTANTS
  Values,      \* measured numbers
  None,        \* a sample without a number
  MaxDelta, AcceptAfter,
  BatchSize, MaxFrames, MaxUpsets

VARIABLES
  raw,         \* the partition: a frame has its time, value, and whether it is known and a copy
  confirmed,   \* the confirmed position
  owned,       \* the device is ours
  memory,      \* the filter of the metric: what was remembered
  batch,       \* the batch in work
  table,       \* rows by the time of the frame
  poisoned,    \* the times of frames in the dead letter queue
  upsets       \* failures and moves so far

measured == <<raw, confirmed, owned, memory, batch, table, poisoned, upsets>>

(* The history of a filter: the frames it was shown since it was clean,    *)
(* and whether a position was refused meanwhile.                           *)
Clean == [accepted |-> None, candidate |-> None, cycles |-> 0, shown |-> <<>>, refused |-> FALSE]
NoBatch == [step |-> "idle"]

-------------------------------------------------------------------------------
Near(a, b) == b # None /\ a - b \in -MaxDelta..MaxDelta

(* spikeFilter: the number that passes, or the accepted one in its place. *)
Confirmations(filter, value) == IF Near(value, filter.candidate) THEN filter.cycles + 1 ELSE 1

Passes(filter, value) ==
  \/ value = None \/ filter.accepted = None \/ Near(value, filter.accepted)
  \/ Confirmations(filter, value) >= AcceptAfter

Filtered(filter, frame) ==
  LET v == frame.value
      seen == Append(filter.shown, [ts |-> frame.ts, value |-> v, passed |-> Passes(filter, v)])
  IN  CASE v = None -> [filter EXCEPT !.shown = seen]
        [] v # None /\ Passes(filter, v) ->
             [filter EXCEPT !.accepted = v, !.candidate = None, !.cycles = 0, !.shown = seen]
        [] v # None /\ ~Passes(filter, v) ->
             [filter EXCEPT !.candidate = v, !.cycles = Confirmations(filter, v), !.shown = seen]

Row(filter, frame) ==
  [ts |-> frame.ts,
   value |-> IF Passes(filter, frame.value) THEN frame.value ELSE filter.accepted,
   quality |-> IF Passes(filter, frame.value) THEN "ok" ELSE "substituted",
   shown |-> filter.shown, refused |-> filter.refused, measured |-> frame.value]

(* The draft of a batch, message by message: what cannot be understood is  *)
(* set aside; a copy from the queue is filtered on its own and leaves the  *)
(* memory as it is.                                                        *)
Drafted(draft, frame) ==
  CASE ~frame.known -> [draft EXCEPT !.aside = @ \cup {frame.ts}]
    [] frame.known /\ frame.copy -> [draft EXCEPT !.rows = Append(@, Row(Clean, frame)),
                                                  !.redeemed = @ \cup {frame.ts}]
    [] frame.known /\ ~frame.copy -> [draft EXCEPT !.rows = Append(@, Row(draft.filter, frame)),
                                                   !.filter = Filtered(draft.filter, frame),
                                                   !.touched = TRUE]

DraftOf(filter, from, to) ==
  FoldLeft(Drafted,
           [step |-> "write", to |-> to, filter |-> filter, rows |-> <<>>, aside |-> {},
            redeemed |-> {}, touched |-> FALSE],
           SubSeq(raw, from, to))

(* insertReadings: a row that is there stays. *)
Stored(rows) == table \cup {r \in ToSet(rows) : \A s \in table : s.ts # r.ts}

-------------------------------------------------------------------------------
ReadingsInit ==
  /\ raw = <<>> /\ confirmed = 0 /\ owned = TRUE /\ memory = Clean
  /\ batch = NoBatch /\ table = {} /\ poisoned = {} /\ upsets = 0

Upset == upsets < MaxUpsets /\ upsets' = upsets + 1

(* The collector sends a frame; the processor may not know its profile. *)
Arrive(v, known) ==
  /\ Len(raw) < MaxFrames
  /\ raw' = Append(raw, [ts |-> Len(raw) + 1, value |-> v, known |-> known, copy |-> FALSE])
  /\ UNCHANGED <<confirmed, owned, memory, batch, table, poisoned, upsets>>

(* A frame of the queue comes back when its profile is known. *)
Return(t) ==
  /\ Len(raw) < MaxFrames /\ t \in poisoned
  /\ poisoned' = poisoned \ {t}
  /\ raw' = Append(raw, [raw[t] EXCEPT !.known = TRUE, !.copy = TRUE])
  /\ UNCHANGED <<confirmed, owned, memory, batch, table, upsets>>

(* Mutant: the batch is drafted on the memory itself. *)
DraftInPlace(n) ==
  /\ owned /\ batch = NoBatch /\ confirmed + n <= Len(raw)
  /\ batch' = DraftOf(memory, confirmed + 1, confirmed + n)
  /\ memory' = batch'.filter
  /\ UNCHANGED <<raw, confirmed, owned, table, poisoned, upsets>>

Draft(n) ==
  /\ owned /\ batch = NoBatch /\ confirmed + n <= Len(raw)
  /\ batch' = DraftOf(memory, confirmed + 1, confirmed + n)
  /\ UNCHANGED <<raw, confirmed, owned, memory, table, poisoned, upsets>>

(* The transaction and the messages; then the batch is remembered, if the  *)
(* device is still ours.                                                   *)
WriteBatch ==
  /\ batch.step = "write"
  /\ table' = Stored(batch.rows)
  /\ batch' = [batch EXCEPT !.step = "publish"]
  /\ UNCHANGED <<raw, confirmed, owned, memory, poisoned, upsets>>

Remember ==
  /\ batch.step = "publish"
  /\ poisoned' = poisoned \cup batch.aside
  /\ memory' = IF batch.touched /\ owned THEN batch.filter ELSE memory
  /\ batch' = [batch EXCEPT !.step = "commit"]
  /\ UNCHANGED <<raw, confirmed, owned, table, upsets>>

Confirm ==
  /\ batch.step = "commit" /\ owned
  /\ confirmed' = batch.to
  /\ batch' = NoBatch
  /\ UNCHANGED <<raw, owned, memory, table, poisoned, upsets>>

(* The position of a device that is gone is refused; and the coordinator   *)
(* may refuse any position, and the batch comes again.                     *)
ConfirmRefused ==
  /\ batch.step = "commit"
  /\ IF owned THEN Upset ELSE upsets' = upsets
  /\ memory' = IF owned THEN [memory EXCEPT !.refused = TRUE] ELSE memory
  /\ batch' = NoBatch
  /\ UNCHANGED <<raw, confirmed, owned, table, poisoned>>

(* The transaction or the sending fails: the partition pauses, the batch   *)
(* comes again.                                                            *)
BatchFails ==
  /\ batch.step \in {"write", "publish"}
  /\ Upset
  /\ batch' = NoBatch
  /\ UNCHANGED <<raw, confirmed, owned, memory, table, poisoned>>

(* release and adopt forget the filter; the process is started anew.       *)
Release ==
  /\ owned /\ Upset
  /\ owned' = FALSE /\ memory' = Clean
  /\ UNCHANGED <<raw, confirmed, batch, table, poisoned>>

Adopt ==
  /\ ~owned
  /\ owned' = TRUE /\ memory' = Clean
  /\ UNCHANGED <<raw, confirmed, batch, table, poisoned, upsets>>

CrashReadings ==
  /\ Upset
  /\ memory' = Clean /\ batch' = NoBatch
  /\ UNCHANGED <<raw, confirmed, owned, table, poisoned>>

ReadingsNext ==
  \/ \E v \in Values \cup {None}, known \in BOOLEAN : Arrive(v, known)
  \/ \E t \in poisoned : Return(t)
  \/ \E n \in 1..BatchSize : Draft(n)
  \/ WriteBatch \/ Remember \/ Confirm \/ ConfirmRefused \/ BatchFails
  \/ Release \/ Adopt \/ CrashReadings

-------------------------------------------------------------------------------
(* Properties. *)

Numbers(shown) == SelectSeq(shown, LAMBDA s : s.value # None)
LastPassed(shown) ==
  LET passed == SelectSeq(Numbers(shown), LAMBDA s : s.passed)
  IN  IF passed = <<>> THEN None ELSE Last(passed).value

(* The last AcceptAfter numbers up to a row, of as many frames, each near  *)
(* the one before and none of them but the last passed.                    *)
ConfirmedBy(row) ==
  LET run == Append(Numbers(row.shown), [ts |-> row.ts, value |-> row.measured, passed |-> FALSE])
      from == Len(run) - AcceptAfter + 1
  IN  /\ from >= 1
      /\ Cardinality({run[k].ts : k \in from..Len(run)}) = AcceptAfter
      /\ \A k \in from..Len(run) : ~run[k].passed
      /\ \A k \in from + 1..Len(run) : Near(run[k].value, run[k - 1].value)

(* Of the table a reader may trust: a number that stands as measured is    *)
(* near the one accepted before it, or the first the filter saw, or was    *)
(* confirmed by AcceptAfter frames of its own, however often a batch       *)
(* failed; a number put in place of another is one accepted before.  A     *)
(* position refused while the memory is kept shows the filter frames       *)
(* twice: then the frames need not be different ones.                      *)
SpikesAreHeld ==
  \A r \in table :
    LET before == LastPassed(r.shown) IN
    /\ r.quality = "ok" /\ r.value # None /\ before # None /\ ~Near(r.value, before)
         => ConfirmedBy(r) \/ r.refused
    /\ r.quality = "substituted" => r.value = before

(* A frame that came back from the queue has a row of its own, and the     *)
(* filter never saw it.                                                    *)
CopiesAreQuiet ==
  \A t \in 1..Len(raw) : raw[t].copy =>
    \A s \in ToSet(memory.shown) : s.ts # raw[t].ts
===============================================================================
