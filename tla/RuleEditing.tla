------------------------------ MODULE RuleEditing ------------------------------
(***************************************************************************)
(* The editing of alarm rules: the drafts of each screen over the rules it *)
(* was last given, one transaction for a save with a row of the journal    *)
(* for every rule changed, and the locks of rows by which two saves wait   *)
(* for each other.  Statements see what is committed when they begin       *)
(* (read committed); a row written is locked until the transaction ends.   *)
(*                                                                         *)
(* A rule is a pair of fields.  The moments and authors of changes, and    *)
(* rules that do not exist yet, are left out: the migrator creates them.   *)
(***************************************************************************)
EXTENDS Integers, Sequences, FiniteSets

CONSTANTS
  Editors,       \* screens with the table of rules
  Keys,          \* metric and mode of a rule, numbered
  MaxActs,       \* bound: fields changed and saves begun by people
  MaxSlips       \* bound: failed statements and commits without an answer

VARIABLES
  table,     \* core.alarm_rules, committed
  journal,   \* core.alarm_rule_audit, committed, in the order of ids of a rule
  tx,        \* the save of each editor
  shown,     \* the rules a screen was last given
  drafts,    \* its drafts of rules
  acts, slips

rules == <<table, journal, tx, shown, drafts, acts, slips>>

Fields == {"min", "severity"}
Rule == [Fields -> {0, 1}]
FirstRule == [field \in Fields |-> 0]
NoDrafts == <<>>
With(rulesOf, k, rule) == [x \in DOMAIN rulesOf \cup {k} |-> IF x = k THEN rule ELSE rulesOf[x]]

(* A save: its updates yet to come, the rules read at its beginning, what  *)
(* it has written, and its entries.                                        *)
NoSave == [at |-> "none", rest |-> <<>>, before |-> <<>>, written |-> <<>>, entries |-> <<>>]

(* On a screen all rules may have been edited already. *)
RulesInit ==
  /\ table = [k \in Keys |-> FirstRule] /\ journal = <<>>
  /\ tx = [e \in Editors |-> NoSave]
  /\ shown = [e \in Editors |-> table]
  /\ drafts \in [Editors -> {NoDrafts, [k \in Keys |-> [FirstRule EXCEPT !.min = 1]]}]
  /\ acts = 0 /\ slips = 0

-------------------------------------------------------------------------------
(* The screen. *)

Edit(e, k, field) ==
  /\ acts < MaxActs /\ acts' = acts + 1
  /\ LET current == IF k \in DOMAIN drafts[e] THEN drafts[e][k] ELSE shown[e][k]
     IN  drafts' = [drafts EXCEPT ![e] = With(@, k, [current EXCEPT ![field] = 1 - current[field]])]
  /\ UNCHANGED <<table, journal, tx, shown, slips>>

(* The drafts that differ from the rules shown; a draft stays when its     *)
(* rule has been saved.                                                    *)
TouchedKeys(e) == {k \in DOMAIN drafts[e] : drafts[e][k] # shown[e][k]}

Reset(e) ==
  /\ tx[e].at = "none" /\ TouchedKeys(e) # {}
  /\ drafts' = [drafts EXCEPT ![e] = NoDrafts]
  /\ UNCHANGED <<table, journal, tx, shown, acts, slips>>

(* The keys of the drafts come in the order they were first edited. *)
Orders(S) == {s \in [1..Cardinality(S) -> S] : \A i, j \in DOMAIN s : s[i] = s[j] => i = j}

Save(e) ==
  /\ tx[e].at = "none" /\ TouchedKeys(e) # {}
  /\ acts < MaxActs /\ acts' = acts + 1
  /\ \E order \in Orders(TouchedKeys(e)) :
       tx' = [tx EXCEPT ![e] = [NoSave EXCEPT !.at = "read", !.rest =
                [i \in DOMAIN order |-> [key |-> order[i], after |-> drafts[e][order[i]]]]]]
  /\ UNCHANGED <<table, journal, shown, drafts, slips>>

(* The screen is left and opened again: its drafts are gone. *)
Reopen(e) ==
  /\ tx[e].at = "none" /\ (shown[e] # table \/ TouchedKeys(e) # {})
  /\ shown' = [shown EXCEPT ![e] = table]
  /\ drafts' = [drafts EXCEPT ![e] = NoDrafts]
  /\ UNCHANGED <<table, journal, tx, acts, slips>>

-------------------------------------------------------------------------------
(* The transaction. *)

Locks(e) == DOMAIN tx[e].written
LockedByOther(e, k) == \E other \in Editors \ {e} : k \in Locks(other)
Waits(e) == tx[e].at = "write" /\ LockedByOther(e, tx[e].rest[1].key)

Seen(e) == [k \in Keys |-> IF k \in Locks(e) THEN tx[e].written[k] ELSE table[k]]

Next(e) == IF Len(tx[e].rest) > 1 THEN "compare" ELSE "commit"
Passed(e) == [tx[e] EXCEPT !.rest = Tail(@), !.at = Next(e)]

ReadBefore(e) ==
  /\ tx[e].at = "read"
  /\ tx' = [tx EXCEPT ![e].before = table, ![e].at = "compare"]
  /\ UNCHANGED <<table, journal, shown, drafts, acts, slips>>

(* An update that changes no field of the rule read is passed over. *)
Compare(e) ==
  /\ tx[e].at = "compare"
  /\ LET update == tx[e].rest[1]
     IN  tx' = [tx EXCEPT ![e] = IF tx[e].before[update.key] = update.after THEN Passed(e)
                                 ELSE [@ EXCEPT !.at = "write"]]
  /\ UNCHANGED <<table, journal, shown, drafts, acts, slips>>

Write(e) ==
  /\ tx[e].at = "write" /\ ~Waits(e)
  /\ LET update == tx[e].rest[1]
     IN  tx' = [tx EXCEPT ![e].written = With(@, update.key, update.after), ![e].at = "note"]
  /\ UNCHANGED <<table, journal, shown, drafts, acts, slips>>

Entry(e, update) == [key |-> update.key, before |-> tx[e].before[update.key], after |-> update.after]

Note(e) ==
  /\ tx[e].at = "note"
  /\ LET noted == Append(tx[e].entries, Entry(e, tx[e].rest[1]))
     IN  tx' = [tx EXCEPT ![e] = [Passed(e) EXCEPT !.entries = noted]]
  /\ UNCHANGED <<table, journal, shown, drafts, acts, slips>>

Committed(e) ==
  /\ table' = Seen(e)
  /\ journal' = journal \o tx[e].entries

(* The answer carries the rules of the transaction, which were read before *)
(* its end; the screen takes them.                                         *)
Commit(e) ==
  /\ tx[e].at = "commit"
  /\ Committed(e)
  /\ shown' = [shown EXCEPT ![e] = Seen(e)]
  /\ tx' = [tx EXCEPT ![e] = NoSave]
  /\ UNCHANGED <<drafts, acts, slips>>

(* The answer of the commit, or of the gateway, is lost. *)
CommitUnknown(e) ==
  /\ tx[e].at = "commit" /\ slips < MaxSlips /\ slips' = slips + 1
  /\ Committed(e)
  /\ tx' = [tx EXCEPT ![e] = NoSave]
  /\ UNCHANGED <<shown, drafts, acts>>

RolledBack(e) ==
  /\ tx' = [tx EXCEPT ![e] = NoSave]
  /\ UNCHANGED <<table, journal, shown, drafts, acts>>

Fails(e) ==
  /\ tx[e].at # "none" /\ slips < MaxSlips /\ slips' = slips + 1
  /\ RolledBack(e)

(* Two saves that wait for each other: the database breaks one of them.    *)
BreakDeadlock(e) ==
  /\ Waits(e)
  /\ \E other \in Editors \ {e} : Waits(other) /\ tx[e].rest[1].key \in Locks(other)
  /\ RolledBack(e) /\ UNCHANGED slips

SaveStep(e) ==
  \/ ReadBefore(e) \/ Compare(e) \/ Write(e) \/ Note(e) \/ Commit(e) \/ CommitUnknown(e)
  \/ Fails(e) \/ BreakDeadlock(e)

RulesNext ==
  \E e \in Editors :
    \/ \E k \in Keys, field \in Fields : Edit(e, k, field)
    \/ Reset(e) \/ Save(e) \/ Reopen(e) \/ SaveStep(e)

-------------------------------------------------------------------------------
(* Properties. *)

RulesTypeOK ==
  /\ table \in [Keys -> Rule]
  /\ \A n \in DOMAIN journal : journal[n] \in [key : Keys, before : Rule, after : Rule]
  /\ \A e \in Editors : /\ shown[e] \in [Keys -> Rule]
                        /\ \A k \in DOMAIN drafts[e] : drafts[e][k] \in Rule

EntriesOf(k) == {n \in DOMAIN journal : journal[n].key = k}
LastOf(k) == CHOOSE n \in EntriesOf(k) : \A other \in EntriesOf(k) : other <= n

(* A rule is what its last entry says, and without an entry it is what the *)
(* migrator has made it: no save leaves a change behind without a trace,   *)
(* nor a trace without its change (updateDeviceAlarmRules).                *)
RuleIsItsLastEntry ==
  \A k \in Keys : table[k] = IF EntriesOf(k) = {} THEN FirstRule ELSE journal[LastOf(k)].after

(* Two saves never write one rule at once, and one that waits is let on.   *)
OneWriter == \A e, other \in Editors : e # other => Locks(e) \cap Locks(other) = {}
NoSaveOpen == \A e \in Editors : tx[e].at = "none"

RulesAreKept == RulesTypeOK /\ RuleIsItsLastEntry /\ OneWriter

(* Every change of a field stands in the journal: an entry begins with the *)
(* rule the entry before it has left (devices.controller.ts: a change      *)
(* without a trace is impossible).                                         *)
EveryChangeHasItsTrace ==
  \A n \in DOMAIN journal :
    LET earlier == {m \in EntriesOf(journal[n].key) : m < n}
    IN  earlier # {} =>
          journal[n].before = journal[CHOOSE m \in earlier : \A o \in earlier : o <= m].after
===============================================================================
