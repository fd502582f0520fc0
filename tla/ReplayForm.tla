------------------------------- MODULE ReplayForm ------------------------------
(***************************************************************************)
(* The form of a replay (replay-form.ts, ReplayForm.tsx) in front of the   *)
(* gateway that takes the request (replay.controller.ts): the rules the    *)
(* form has loaded grow old, and the request takes time on its way.        *)
(*                                                                         *)
(* What a patch of alarm rules means is said three times: in the form, in  *)
(* the contract of the request (api/replay.ts) and in the gateway          *)
(* (replay-calc.ts); and what the difference of the episodes of both       *)
(* variants is, in db/store/replay.ts.                                     *)
(*                                                                         *)
(* A rule is found by its device and its key, of a metric and a mode.      *)
(* Hysteresis is checked as the debounce is, and left out.                 *)
(***************************************************************************)
EXTENDS Integers, Sequences, FiniteSets, SequencesExt, FiniteSetsExt

CONSTANTS Absent,        \* no bound; in a patch: the bound is taken away
          Keep,        \* the patch leaves the field alone
          Blank, NoNumber,  \* texts of a field that are no number
          MaxDebounce,
          Devices, Chambers, Keys,
          StandRules,   \* the rules of the stand at the start
          OtherRules,   \* what another operator may turn a rule into
          RetentionTime, Slack, Presets, Marks, StartNow, MaxNow,
          MaxPatches, Edits, MaxEdits, MaxChanges

-------------------------------------------------------------------------------
(* Rules and patches of the gateway. *)

ValidRule(r) ==
  /\ r.min # Absent \/ r.max # Absent
  /\ r.min # Absent /\ r.max # Absent => r.min < r.max
  /\ r.debounce \in 1..MaxDebounce

PatchRule(rule, patch) ==
  [f \in DOMAIN rule |-> IF patch.fields[f] = Keep THEN rule[f] ELSE patch.fields[f]]

(* A rule disabled before and after fires nothing, and is not a change. *)
Matters(before, after) == before # after /\ (before.enabled \/ after.enabled)

Targets(table, patch) == {dk \in DOMAIN table : dk[2] = patch.key}

ApplyPatch(outcome, patch) ==
  LET targets == Targets(outcome.rules, patch)
      after == [dk \in targets |-> PatchRule(outcome.rules[dk], patch)]
      valid == {dk \in targets : ValidRule(after[dk])}
  IN  [ok |-> /\ outcome.ok
              /\ targets # {} /\ valid = targets
              /\ \E dk \in valid : Matters(outcome.rules[dk], after[dk]),
       rules |-> [dk \in DOMAIN outcome.rules |-> IF dk \in valid THEN after[dk] ELSE outcome.rules[dk]]]

ApplyPatches(baseline, patches) == FoldLeft(ApplyPatch, [ok |-> TRUE, rules |-> baseline], patches)

ChangedRules(baseline, patched) == {dk \in DOMAIN baseline : Matters(baseline[dk], patched[dk])}

(* The contract of one patch. *)
PatchIsValid(fields) ==
  /\ \E f \in DOMAIN fields : fields[f] # Keep
  /\ ~(fields.min = Absent /\ fields.max = Absent)
  /\ fields.min \in Int /\ fields.max \in Int => fields.min < fields.max
  /\ fields.debounce = Keep \/ fields.debounce \in 1..MaxDebounce

-------------------------------------------------------------------------------
(* The same in the form, from what has been typed. *)

BoundOf(text, clear) == IF clear THEN Absent ELSE IF text = Blank THEN Keep ELSE text

FieldsOf(draft) ==
  [min |-> BoundOf(draft.min, draft.clearMin), max |-> BoundOf(draft.max, draft.clearMax),
   debounce |-> IF draft.debounce = Blank THEN Keep ELSE draft.debounce,
   enabled |-> IF draft.enabled = "keep" THEN Keep ELSE draft.enabled = "on"]

(* patchOf: a field that is no number of its range, nothing changed, no    *)
(* bound left, bounds the wrong way round.                                 *)
DraftIsRight(draft) ==
  LET f == FieldsOf(draft)
  IN  /\ f.min # NoNumber /\ f.max # NoNumber
      /\ f.debounce # NoNumber /\ (f.debounce # Keep => f.debounce \in 1..MaxDebounce)
      /\ \E k \in DOMAIN f : f[k] # Keep
      /\ ~(f.min = Absent /\ f.max = Absent)
      /\ f.min \in Int /\ f.max \in Int => f.min < f.max

(* ruleProblem, against the rules the form has loaded. *)
RulesAllow(patch, codes, table) ==
  LET affected == {dk \in DOMAIN table : dk[1] \in codes /\ dk[2] = patch.key}
      merged(dk) == [f \in DOMAIN table[dk] |->
                       IF patch.fields[f] = Keep THEN table[dk][f] ELSE patch.fields[f]]
  IN  /\ affected # {}
      /\ \A dk \in affected :
           /\ merged(dk).min # Absent \/ merged(dk).max # Absent
           /\ merged(dk).min # Absent /\ merged(dk).max # Absent => merged(dk).min < merged(dk).max
      /\ \E dk \in affected : merged(dk) # table[dk] /\ (table[dk].enabled \/ merged(dk).enabled)

-------------------------------------------------------------------------------
(* Episodes of one row of the difference: an open one lasts to the end of  *)
(* the window, and a pair is an episode of the other variant it touches.   *)

Ended(e, to) == IF e.cleared = Absent THEN to ELSE e.cleared
Rank(variant) == IF variant = "baseline" THEN 1 ELSE 2

(* The windows of the query, by the time of raising and then the variant.  *)
Earlier(e, all) ==
  {f \in all : f.raised < e.raised \/ (f.raised = e.raised /\ Rank(f.variant) <= Rank(e.variant))}
Later(e, all) ==
  {f \in all : f.raised > e.raised \/ (f.raised = e.raised /\ Rank(f.variant) >= Rank(e.variant))}
Others(e, some) == {f \in some : f.variant # e.variant}

Paired(e, all, to) ==
  \/ \E f \in Others(e, Earlier(e, all)) : Ended(f, to) >= e.raised
  \/ \E f \in Others(e, Later(e, all)) : f.raised <= Ended(e, to)

Summary(all, to) ==
  LET of(variant) == {e \in all : e.variant = variant}
      alone(variant) == {e \in of(variant) : ~Paired(e, all, to)}
  IN  [baseline |-> Cardinality(of("baseline")), patched |-> Cardinality(of("patched")),
       added |-> Cardinality(alone("patched")), removed |-> Cardinality(alone("baseline"))]

(* The live episodes of what the run has really read, its last frame too.  *)
LiveCount(raised, covered) == Cardinality({r \in raised : covered[1] <= r /\ r < covered[2] + 1})

-------------------------------------------------------------------------------
(* The form and the request on its way. *)

VARIABLES form, rules, catalog, now, sent, answer, edits, changes
request == <<form, rules, catalog, now, sent, answer, edits, changes>>

NoKey == "no key"
Custom == 0      \* the window of the form that is no preset
Second == 2
Floor(t) == (t \div Second) * Second

EmptyDraft(id) ==
  [id |-> id, key |-> NoKey, min |-> Blank, clearMin |-> FALSE, max |-> Blank, clearMax |-> FALSE,
   debounce |-> Blank, enabled |-> "keep"]

FormInit ==
  /\ form = [devices |-> {}, window |-> CHOOSE w \in Presets : TRUE, from |-> Blank, to |-> Blank,
             patches |-> <<EmptyDraft(1)>>, nextId |-> 2]
  /\ rules \in StandRules
  /\ catalog = [d \in Devices |-> Absent]
  /\ now = StartNow
  /\ sent = Absent /\ answer = Absent
  /\ edits = 0 /\ changes = 0

-------------------------------------------------------------------------------
(* replayFormReducer. *)

Edit(next) ==
  /\ edits < MaxEdits /\ edits' = edits + 1
  /\ form' = next /\ next # form
  /\ UNCHANGED <<rules, catalog, now, sent, answer, changes>>

ToggleDevice(code) ==
  Edit([form EXCEPT !.devices = IF code \in @ THEN @ \ {code} ELSE @ \cup {code}])

SetDevices(codes) == Edit([form EXCEPT !.devices = codes])

SetWindow(key) ==
  IF key # Custom \/ form.from # Blank THEN Edit([form EXCEPT !.window = key])
  ELSE Edit([form EXCEPT !.window = key, !.from = Floor(now - form.window), !.to = Floor(now)])

SetCustom(edge, mark) == form.window = Custom /\ Edit([form EXCEPT ![edge] = mark])

AddPatch ==
  /\ Len(form.patches) < MaxPatches
  /\ Edit([form EXCEPT !.patches = Append(@, EmptyDraft(form.nextId)), !.nextId = @ + 1])

RemovePatch(i) == Len(form.patches) > 1 /\ Edit([form EXCEPT !.patches = RemoveAt(@, i)])

Loaded(code) == catalog[code] # Absent
Offered == {k \in Keys : \E d \in form.devices : Loaded(d) /\ <<d, k>> \in DOMAIN catalog[d]}

ChooseKey(i, key) == key \in Offered /\ Edit([form EXCEPT !.patches[i].key = key])
EditPatch(i, field, value) ==
  /\ form.patches[i].key # NoKey
  /\ Edit([form EXCEPT !.patches[i][field] = value])

ApplyExample(draft) ==
  Edit([form EXCEPT !.devices = IF @ \cap Chambers # {} THEN @ ELSE Chambers,
                    !.patches = <<[draft EXCEPT !.id = form.nextId]>>, !.nextId = @ + 1])

-------------------------------------------------------------------------------
(* evaluateForm: the request, or nothing while there are problems. *)

WindowOf ==
  IF form.window # Custom
  THEN IF form.window > RetentionTime THEN Absent ELSE <<Floor(now) - form.window, Floor(now)>>
  ELSE IF /\ form.from # Blank /\ form.to # Blank /\ form.to > form.from
          /\ form.from >= now - RetentionTime /\ form.to <= now + Slack
       THEN <<form.from, form.to>> ELSE Absent

Patch(draft) == [key |-> draft.key, fields |-> FieldsOf(draft)]
CatalogLoaded == form.devices # {} /\ \A d \in form.devices : Loaded(d)
CatalogRules == [dk \in UNION {DOMAIN catalog[d] : d \in form.devices} |-> catalog[dk[1]][dk]]

ContractAllows(r) ==
  /\ r.window[2] > r.window[1] /\ r.window[2] - r.window[1] <= RetentionTime
  /\ r.devices # {} /\ r.patches # <<>>
  /\ \A i, j \in DOMAIN r.patches : r.patches[i].key = r.patches[j].key => i = j
  /\ \A i \in DOMAIN r.patches : PatchIsValid(r.patches[i].fields)

EvaluateForm ==
  LET patches == [i \in DOMAIN form.patches |-> Patch(form.patches[i])]
      r == [window |-> WindowOf, devices |-> form.devices, patches |-> patches]
  IN  IF /\ form.devices # {} /\ WindowOf # Absent /\ patches # <<>>
         /\ \A i \in DOMAIN patches :
              /\ patches[i].key # NoKey
              /\ \A j \in 1..(i - 1) : patches[j].key # patches[i].key
              /\ DraftIsRight(form.patches[i])
              /\ CatalogLoaded => RulesAllow(patches[i], form.devices, CatalogRules)
         /\ ContractAllows(r)
      THEN r ELSE Absent

Launch ==
  /\ sent = Absent /\ EvaluateForm # Absent
  /\ sent' = EvaluateForm @@ [at |-> now, known |-> catalog]
  /\ answer' = Absent
  /\ UNCHANGED <<form, rules, catalog, now, edits, changes>>

LoadRules(code) ==
  /\ LET mine == [dk \in {x \in DOMAIN rules : x[1] = code} |-> rules[dk]]
     IN  catalog[code] # mine /\ catalog' = [catalog EXCEPT ![code] = mine]
  /\ UNCHANGED <<form, rules, now, sent, answer, edits, changes>>

RuleChanges(dk, rule) ==
  /\ changes < MaxChanges /\ changes' = changes + 1
  /\ rules[dk] # rule
  /\ rules' = [rules EXCEPT ![dk] = rule]
  /\ UNCHANGED <<form, catalog, now, sent, answer, edits>>

Tick ==
  /\ now < MaxNow
  /\ now' = now + 1
  /\ UNCHANGED <<form, rules, catalog, sent, answer, edits, changes>>

-------------------------------------------------------------------------------
(* ReplayController.start. *)

Snapshot(devices) == [dk \in {x \in DOMAIN rules : x[1] \in devices} |-> rules[dk]]
(* Mutant: the oldest frame has no tolerance for the time of the request.  *)
WindowIsKeptSharply(window) == window[1] >= now - RetentionTime /\ window[2] <= now + Slack

WindowIsKept(window) == window[1] >= now - RetentionTime - Slack /\ window[2] <= now + Slack

(* Nothing the form could not have known has come between. *)
KnewIt ==
  /\ now - sent.at <= Slack - (Second - 1)
  /\ \A d \in sent.devices : sent.known[d] # Absent
  /\ \A dk \in DOMAIN Snapshot(sent.devices) : sent.known[dk[1]][dk] = rules[dk]

StartReplay ==
  /\ sent # Absent
  /\ LET baseline == Snapshot(sent.devices)
         outcome == ApplyPatches(baseline, sent.patches)
     IN  answer' = IF ContractAllows(sent) /\ WindowIsKept(sent.window) /\ outcome.ok
                   THEN [status |-> "accepted", baseline |-> baseline, patched |-> outcome.rules,
                         patches |-> sent.patches]
                   ELSE [status |-> "refused", foreseen |-> KnewIt]
  /\ sent' = Absent
  /\ UNCHANGED <<form, rules, catalog, now, edits, changes>>

EditsForm ==
  \/ \E d \in Devices : ToggleDevice(d)
  \/ \E codes \in {Chambers, Devices, {}} : SetDevices(codes)
  \/ \E w \in Presets \cup {Custom} : SetWindow(w)
  \/ \E edge \in {"from", "to"}, m \in Marks : SetCustom(edge, m)
  \/ AddPatch
  \/ \E i \in DOMAIN form.patches :
       \/ RemovePatch(i)
       \/ \E k \in Keys : ChooseKey(i, k)
       \/ \E e \in Edits : EditPatch(i, e[1], e[2])
  \/ \E k \in Keys : ApplyExample([EmptyDraft(0) EXCEPT !.key = k, !.max = 2])

FormNext ==
  \/ EditsForm \/ Launch \/ StartReplay \/ Tick
  \/ \E d \in Devices : LoadRules(d)
  \/ \E dk \in DOMAIN rules, r \in OtherRules : RuleChanges(dk, r)

-------------------------------------------------------------------------------
(* Properties. *)

(* A request the form lets through is refused only for what the form could *)
(* not know: a rule another operator has changed or that was not loaded,   *)
(* or more time on the way than the gateway tolerates.                     *)
FormForesees == answer # Absent /\ answer.status = "refused" => ~answer.foreseen

(* A run that is queued compares something for each of its patches, by     *)
(* valid rules, and leaves all the other rules as they were.               *)
RunCompares ==
  answer # Absent /\ answer.status = "accepted" =>
    LET changed == ChangedRules(answer.baseline, answer.patched)
        keys == {answer.patches[i].key : i \in DOMAIN answer.patches}
    IN  /\ \A k \in keys : \E dk \in changed : dk[2] = k
        /\ \A dk \in DOMAIN answer.baseline :
             /\ ValidRule(answer.patched[dk]) \/ answer.patched[dk] = answer.baseline[dk]
             /\ dk[2] \notin keys => answer.patched[dk] = answer.baseline[dk]

(* Drafts keep numbers of their own, whatever is added and taken away: a   *)
(* field is edited in the draft it belongs to.                             *)
DraftsAreApart ==
  \A i, j \in DOMAIN form.patches : form.patches[i].id = form.patches[j].id => i = j

(* The form allows a patch exactly when the contract and the gateway take  *)
(* it, the rules being the same: "the screen must not allow what the       *)
(* gateway refuses" of evaluateForm, and it forbids nothing else.          *)
DraftsAreForeseen(drafts, ruleSets) ==
  \A draft \in drafts, table \in ruleSets :
    LET patch == [key |-> draft.key, fields |-> FieldsOf(draft)]
        foreseen == DraftIsRight(draft) /\ RulesAllow(patch, {dk[1] : dk \in DOMAIN table}, table)
    IN  foreseen <=> /\ patch.fields.min # NoNumber /\ patch.fields.max # NoNumber /\ patch.fields.debounce # NoNumber
                     /\ PatchIsValid(patch.fields)
                     /\ ApplyPatches(table, <<patch>>).ok

(* The windows of the query find the very pairs of the definition above    *)
(* loadReplayEpisodeSummary: intervals that share a moment; all of one     *)
(* variant is new exactly if all of the other is lost; and live episodes   *)
(* raised by the first or the last frame of a run are among its own.       *)
PairsAreTrue(episodeSets, to) ==
  \A all \in episodeSets :
    /\ \A e \in all : Paired(e, all, to) <=>
         \E f \in Others(e, all) : f.raised <= Ended(e, to) /\ e.raised <= Ended(f, to)
    /\ LET s == Summary(all, to)
       IN  (s.added = s.patched) <=> (s.removed = s.baseline)
    /\ LET raised == {e.raised : e \in all}
       IN  raised # {} => LiveCount(raised, <<Min(raised), Max(raised)>>) = Cardinality(raised)
===============================================================================
