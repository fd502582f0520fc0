------------------------------- MODULE ReadPlans -------------------------------
(***************************************************************************)
(* From the profile of a device to the requests of a poll and back to its  *)
(* parameters: frames/read-plan.ts, frames/decode-frame.ts, simulation.ts  *)
(* and profiles/validate.ts of packages/device-profiles.                   *)
(*                                                                         *)
(* A parameter is a record of key, register type, first address and words; *)
(* a profile is its list of parameters, its declared blocks and its limit. *)
(* Sections only group parameters and are left out.  A poll asks for block *)
(* after block, while the values of the device move on.                    *)
(***************************************************************************)
EXTENDS Integers, Sequences, FiniteSets, TLC, SequencesExt

CONSTANTS Profiles, Options, MaxVersion

VARIABLES profile, options, plan, frame, version, poll
reads == <<profile, options, plan, frame, version, poll>>


TypeRank(type) == IF type = "holding" THEN 0 ELSE 1
EndOf(entry) == entry.start + entry.words - 1
BlockEnd(block) == block.start + block.count - 1

EntryBefore(a, b) ==
  \/ TypeRank(a.type) < TypeRank(b.type)
  \/ a.type = b.type /\ a.start < b.start
  \/ a.type = b.type /\ a.start = b.start /\ a.key < b.key

BlockBefore(a, b) ==
  \/ TypeRank(a.type) < TypeRank(b.type)
  \/ a.type = b.type /\ a.start < b.start

(* listPlanEntries *)
PlanEntries(prof) == SortSeq(prof.params, EntryBefore)

FitsBlock(entry, block) ==
  entry.type = block.type /\ entry.start >= block.start /\ EndOf(entry) <= BlockEnd(block)

KeysOf(entries) == [k \in DOMAIN entries |-> entries[k].key]

-------------------------------------------------------------------------------
(* The plan.  A plan that cannot be made is "error".                       *)

Oversized(entries, maxBlock) == \E k \in DOMAIN entries : entries[k].words > maxBlock

NewBlock(entry) ==
  [type |-> entry.type, start |-> entry.start, count |-> entry.words, keys |-> <<entry.key>>]

(* A block that takes one more parameter: it ends where the longest ends. *)
Grown(block, entry) ==
  [block EXCEPT !.count = (IF EndOf(entry) > BlockEnd(block) THEN EndOf(entry) ELSE BlockEnd(block))
                            - block.start + 1,
                !.keys = Append(block.keys, entry.key)]

(* Mutant: the limit is held against the block before it grows. *)
MergeStepUnchecked(blocks, entry, maxGap, maxBlock) ==
  IF /\ blocks # <<>>
     /\ Last(blocks).type = entry.type
     /\ entry.start - BlockEnd(Last(blocks)) - 1 <= maxGap
     /\ Last(blocks).count < maxBlock
  THEN Append(Front(blocks), Grown(Last(blocks), entry))
  ELSE Append(blocks, NewBlock(entry))

(* mergeEntries: a gap that is too wide or a block that is too long begins *)
(* a new block.                                                            *)
MergeStep(blocks, entry, maxGap, maxBlock) ==
  IF /\ blocks # <<>>
     /\ Last(blocks).type = entry.type
     /\ entry.start - BlockEnd(Last(blocks)) - 1 <= maxGap
     /\ Grown(Last(blocks), entry).count <= maxBlock
  THEN Append(Front(blocks), Grown(Last(blocks), entry))
  ELSE Append(blocks, NewBlock(entry))

MergeEntries(entries, maxGap, maxBlock) ==
  FoldLeft(LAMBDA blocks, entry : MergeStep(blocks, entry, maxGap, maxBlock), <<>>, entries)

NaiveBlocks(entries) == [k \in DOMAIN entries |-> NewBlock(entries[k])]

(* declaredBlocks: a parameter belongs to the first block it fits into, a  *)
(* block without parameters is not asked for, the rest is merged.          *)
TakenBy(entries, taken, block) == SelectSeq(entries, LAMBDA e : e.key \notin taken /\ FitsBlock(e, block))

DeclareStep(made, block, entries) ==
  LET mine == TakenBy(entries, made.taken, block)
  IN  IF mine = <<>> THEN made
      ELSE [blocks |-> Append(made.blocks, [type |-> block.type, start |-> block.start,
                                            count |-> block.count, keys |-> KeysOf(mine)]),
            taken |-> made.taken \cup ToSet(KeysOf(mine))]

DeclaredBlocks(declared, entries, maxGap, maxBlock) ==
  LET made == FoldLeft(LAMBDA m, b : DeclareStep(m, b, entries), [blocks |-> <<>>, taken |-> {}], declared)
  IN  made.blocks \o MergeEntries(SelectSeq(entries, LAMBDA e : e.key \notin made.taken), maxGap, maxBlock)

(* buildDeviceReadPlan: the limit is that of the profile when the caller   *)
(* gives none (0), and what no request can carry is an error.              *)
Limit(prof, opts) == IF opts.maxBlock = 0 THEN prof.maxBlock ELSE opts.maxBlock
Declared(prof, opts) == IF opts.ignoreDeclared THEN <<>> ELSE prof.blocks

TooLong(prof, opts) ==
  LET entries == PlanEntries(prof)
      declared == Declared(prof, opts)
  IN  IF opts.mode = "naive" \/ declared = <<>> THEN Oversized(entries, Limit(prof, opts))
      ELSE \/ \E k \in DOMAIN declared : declared[k].count > Limit(prof, opts)
           \/ Oversized(SelectSeq(entries, LAMBDA e : \A k \in DOMAIN declared : ~FitsBlock(e, declared[k])),
                        Limit(prof, opts))

BuildPlan(prof, opts) ==
  LET entries == PlanEntries(prof)
      declared == Declared(prof, opts)
  IN  SortSeq(CASE opts.mode = "naive" -> NaiveBlocks(entries)
                [] opts.mode = "merged" /\ declared # <<>> ->
                     DeclaredBlocks(declared, entries, opts.maxGap, Limit(prof, opts))
                [] opts.mode = "merged" /\ declared = <<>> ->
                     MergeEntries(entries, opts.maxGap, Limit(prof, opts)),
              BlockBefore)

Addresses(block) == {<<block.type, a>> : a \in block.start..BlockEnd(block)}
Used(entries) == UNION {{<<entries[k].type, a>> : a \in entries[k].start..EndOf(entries[k])} : k \in DOMAIN entries}
Wasted(blocks, entries) == {k \in DOMAIN blocks : Addresses(blocks[k]) \ Used(entries) # {}}

-------------------------------------------------------------------------------
(* The device and the frame.                                               *)

(* encodeSimulationRegisters: what lies where.  A word is the key of its   *)
(* parameter, its place in it and the state of the device it is from; a    *)
(* register nobody describes reads zero.                                   *)
Zero == <<0, 0, 0>>
RegisterOf(prof, type, address, at) ==
  LET on == {k \in DOMAIN prof.params :
               prof.params[k].type = type /\ address \in prof.params[k].start..EndOf(prof.params[k])}
      p == prof.params[CHOOSE k \in on : TRUE]
  IN  IF on = {} THEN Zero ELSE <<p.key, address - p.start + 1, at>>

ReadBlock(prof, block, at) ==
  [type |-> block.type, start |-> block.start,
   words |-> [k \in 1..block.count |-> RegisterOf(prof, block.type, block.start + k - 1, at)]]

(* wordsFor: the first block of the frame the parameter lies in as a whole.*)
Holds(frameBlock, param) ==
  /\ frameBlock.type = param.type
  /\ param.start >= frameBlock.start
  /\ param.start - frameBlock.start + param.words <= Len(frameBlock.words)

WordsFor(blocks, param) ==
  LET where == {k \in DOMAIN blocks : Holds(blocks[k], param)}
      block == blocks[CHOOSE k \in where : \A j \in where : k <= j]
      offset == param.start - block.start
  IN  IF where = {} THEN <<>> ELSE SubSeq(block.words, offset + 1, offset + param.words)

(* decodeFrame: a parameter that is in no block is left out. *)
DecodeFrame(prof, blocks) ==
  LET metric(entry) == [key |-> entry.key, words |-> WordsFor(blocks, entry)]
      entries == PlanEntries(prof)
  IN  SelectSeq([k \in DOMAIN entries |-> metric(entries[k])], LAMBDA m : m.words # <<>>)

-------------------------------------------------------------------------------
(* validateDeviceProfile: what a profile may not be.                 *)

DuplicateParams(prof) ==
  \E j, k \in DOMAIN prof.params : j # k /\ prof.params[j].key = prof.params[k].key

(* Each is held against every one before it: pairs of equal or lesser start. *)
EntriesOverlap(entries) ==
  \E j, k \in DOMAIN entries :
    j < k /\ entries[j].type = entries[k].type /\ entries[k].start <= EndOf(entries[j])

BlocksOverlap(blocks) ==
  \E j, k \in DOMAIN blocks :
    j < k /\ blocks[j].type = blocks[k].type /\ blocks[k].start <= BlockEnd(blocks[j])

Touches(block, entry) ==
  entry.type = block.type /\ entry.start <= BlockEnd(block) /\ EndOf(entry) >= block.start

Owners(prof, entry) == {k \in DOMAIN prof.blocks : FitsBlock(entry, prof.blocks[k])}

BlockIssues(prof) ==
  \/ BlocksOverlap(SortSeq(prof.blocks, BlockBefore))
  \/ \E k \in DOMAIN prof.blocks : prof.blocks[k].count > prof.maxBlock
  \/ \E k \in DOMAIN prof.blocks : \A p \in DOMAIN prof.params : ~Touches(prof.blocks[k], prof.params[p])
  \/ \E p \in DOMAIN prof.params : Cardinality(Owners(prof, prof.params[p])) # 1

Valid(prof) ==
  /\ ~DuplicateParams(prof)
  /\ ~EntriesOverlap(PlanEntries(prof))
  /\ prof.blocks # <<>> => ~BlockIssues(prof)

-------------------------------------------------------------------------------
(* The catalog: the two models of the stand, their parameters numbered in  *)
(* the order of the profile.                                               *)

Layout(type, starts, words) ==
  [k \in DOMAIN starts |-> [type |-> type, start |-> starts[k], words |-> words[k]]]

Numbered(places) == [k \in DOMAIN places |-> [key |-> k] @@ places[k]]

(* The controller of a chamber: four temperatures, the setpoint in a       *)
(* holding register, three states and the word of alarms.                  *)
Rc2000 ==
  [params |-> Numbered(Layout("input", <<0, 1, 2, 3>>, <<1, 1, 1, 1>>) \o Layout("holding", <<0>>, <<1>>)
                         \o Layout("input", <<16, 17, 18, 32>>, <<1, 1, 1, 1>>)),
   blocks |-> <<>>, maxBlock |-> 125]

(* The meter: voltages, currents, power and its factor, energy; its blocks *)
(* are declared by hand, one of them over a hole.                          *)
Pm3Phase ==
  [params |-> Numbered(Layout("input", <<0, 1, 2, 4, 6, 8, 16, 18, 32>>, <<1, 1, 1, 2, 2, 2, 2, 1, 2>>)),
   blocks |-> << [type |-> "input", start |-> 0, count |-> 10],
                 [type |-> "input", start |-> 16, count |-> 3],
                 [type |-> "input", start |-> 32, count |-> 2] >>,
   maxBlock |-> 125]

Catalog == {Rc2000, Pm3Phase}

-------------------------------------------------------------------------------
(* A poll: block after block by the plan of a profile that was accepted.   *)

ReadsInit ==
  /\ profile \in {p \in Profiles \cup Catalog : Valid(p)}
  /\ options \in Options
  /\ plan = IF TooLong(profile, options) THEN <<>> ELSE BuildPlan(profile, options)
  /\ frame = <<>> /\ version = 1 /\ poll = "reading"

(* The values of the device move on between two requests. *)
Moves ==
  /\ poll = "reading" /\ frame # <<>> /\ version < MaxVersion
  /\ version' = version + 1
  /\ UNCHANGED <<profile, options, plan, frame, poll>>

ReadNext ==
  /\ poll = "reading" /\ Len(frame) < Len(plan)
  /\ frame' = Append(frame, ReadBlock(profile, plan[Len(frame) + 1], version))
  /\ poll' = IF Len(frame') = Len(plan) THEN "ok" ELSE "reading"
  /\ UNCHANGED <<profile, options, plan, version>>

(* The first request that fails ends the poll of the device: what was read *)
(* is not published.                                                       *)
ReadFails ==
  /\ poll = "reading" /\ Len(frame) < Len(plan)
  /\ poll' = "failed"
  /\ UNCHANGED <<profile, options, plan, frame, version>>

ReadsNext == Moves \/ ReadNext \/ ReadFails

-------------------------------------------------------------------------------
(* Properties. *)

BlocksOf(key) == {k \in DOMAIN plan : key \in ToSet(plan[k].keys)}

(* A plan asks for every parameter once, within the limit; merged without  *)
(* a gap it asks for nothing in vain; it never asks more often than one    *)
(* request for each parameter.                                             *)
PlanIsSound ==
  plan # <<>> =>
    /\ \A p \in DOMAIN profile.params : Cardinality(BlocksOf(profile.params[p].key)) = 1
    /\ \A k \in DOMAIN plan : plan[k].count \in 1..Limit(profile, options)
    /\ Len(plan) <= Len(profile.params)
    /\ options.mode = "merged" /\ Declared(profile, options) = <<>> /\ options.maxGap = 0
         => Wasted(plan, PlanEntries(profile)) = {}

(* The models of the stand are accepted; the controller is read by four    *)
(* requests without a register in vain, the meter by its three blocks,     *)
(* which a plan made without them could not do (rc-2000.ts, pm-3phase.ts). *)
CatalogIsRead ==
  LET merged(prof, ignored) ==
        BuildPlan(prof, [mode |-> "merged", maxGap |-> 0, maxBlock |-> 0, ignoreDeclared |-> ignored])
  IN  /\ \A prof \in Catalog : Valid(prof)
      /\ Len(merged(Rc2000, FALSE)) = 4 /\ Wasted(merged(Rc2000, FALSE), PlanEntries(Rc2000)) = {}
      /\ Len(merged(Pm3Phase, FALSE)) = 3 /\ Len(merged(Pm3Phase, TRUE)) > 3

(* A published frame gives every parameter its own words, all of them read *)
(* at one moment: a long number is never torn between two requests.        *)
FrameIsWhole ==
  poll = "ok" =>
    /\ KeysOf(DecodeFrame(profile, frame)) = KeysOf(PlanEntries(profile))
    /\ \A m \in ToSet(DecodeFrame(profile, frame)) :
         \E at \in 1..version : m.words = [k \in DOMAIN m.words |-> <<m.key, k, at>>]
===============================================================================
