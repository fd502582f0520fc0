-------------------------------- MODULE Probes --------------------------------
(***************************************************************************)
(* What a scenario looks at: the facts of the stand, the probes over them, *)
(* the three steps that poll until a deadline and what the schema of a     *)
(* scenario accepts.  Pure operators; texts of the outcomes are left out.  *)
(*                                                                         *)
(* Sources: packages/scenarios facts.ts, runner.ts, schema.ts, loader.ts,  *)
(* scenario-calc.ts and line-status.service.ts of the gateway.             *)
(***************************************************************************)
EXTENDS Integers, Sequences, FiniteSets

(* A field the probe leaves out. *)
Any == "any"
NoCycle == [at |-> 0, outcome |-> "none", duration |-> 0]

-----------------------------------------------------------------------------
(* The facts. *)

(* record: the newest snapshot of each line, by its own time. *)
Recorded(latest, status) ==
  IF status.line \in DOMAIN latest /\ latest[status.line].ts > status.ts THEN latest
  ELSE [l \in DOMAIN latest \cup {status.line} |-> IF l = status.line THEN status ELSE latest[l]]

FreshFor == 60

(* Three cycles of polling, and never less than a minute. *)
IsFresh(status, now) ==
  now - status.ts <= IF 3 * status.interval > FreshFor THEN 3 * status.interval ELSE FreshFor

(* A line whose snapshot is old drops out together with its breakers, and  *)
(* attempts to reconnect count from the start of the run.                  *)
LineFactsOf(latest, startedAt, now) ==
  LET fresh == {l \in DOMAIN latest : IsFresh(latest[l], now)} IN
    [lines    |-> [l \in fresh |->
                    [connected  |-> latest[l].connected, cycle |-> latest[l].cycle,
                     reconnects |-> Cardinality({t \in latest[l].reconnects : t >= startedAt})]],
     breakers |-> [d \in UNION {DOMAIN latest[l].breakers : l \in fresh} |->
                    LET l == CHOOSE k \in fresh : d \in DOMAIN latest[k].breakers
                    IN  latest[l].breakers[d]]]

-----------------------------------------------------------------------------
(* The probes. *)

DurationOk(line, limit, context) ==
  /\ limit.of \in DOMAIN context.baselines
  /\ line.cycle # NoCycle /\ line.cycle.outcome = "polled"
  /\ line.cycle.duration * 100 <= context.baselines[limit.of] * (100 + limit.pct)

BreakerOk(p, facts) == p.device \in DOMAIN facts.breakers /\ facts.breakers[p.device] = p.state

DeviceOk(p, facts) ==
  /\ p.device \in DOMAIN facts.devices
  /\ \A field \in {"status", "reason", "mode"} : p[field] \in {Any, facts.devices[p.device][field]}

LineOk(p, facts, context) ==
  /\ p.line \in DOMAIN facts.lines
  /\ LET line == facts.lines[p.line] IN
       /\ p.connected = Any \/ (p.connected = "yes") = line.connected
       /\ line.reconnects >= p.reconnectsAtLeast
       /\ p.within.pct > 0 => DurationOk(line, p.within, context)

AlarmOk(p, facts) ==
  /\ p.device \in DOMAIN facts.devices
  /\ (\E a \in facts.alarms : a.device = p.device /\ p.metric \in {Any, a.metric}) = p.active

NoAlarmsRaisedOk(p, facts) ==
  \A m \in DOMAIN facts.raised : p.metric \in {Any, m} => facts.raised[m] = 0

DlqOk(facts, context) == facts.dlq <= context.dlqAtStart

(* Mutant: a line without a snapshot is a line that is not connected. *)
EvaluateTrusting(p, facts, context) ==
  CASE p.kind = "breaker" -> BreakerOk(p, facts)
    [] p.kind = "device" -> DeviceOk(p, facts)
    [] p.kind = "line" -> LineOk(p, facts, context) \/ (p.line \notin DOMAIN facts.lines /\ p.connected = "no")
    [] p.kind = "alarm" -> AlarmOk(p, facts)
    [] p.kind = "noAlarmsRaised" -> NoAlarmsRaisedOk(p, facts)
    [] p.kind = "dlqUnchanged" -> DlqOk(facts, context)

Evaluate(p, facts, context) ==
  CASE p.kind = "breaker" -> BreakerOk(p, facts)
    [] p.kind = "device" -> DeviceOk(p, facts)
    [] p.kind = "line" -> LineOk(p, facts, context)
    [] p.kind = "alarm" -> AlarmOk(p, facts)
    [] p.kind = "noAlarmsRaised" -> NoAlarmsRaisedOk(p, facts)
    [] p.kind = "dlqUnchanged" -> DlqOk(facts, context)

-----------------------------------------------------------------------------
(* The steps that poll.  polls is what the facts showed at their times;    *)
(* the first poll is at the start of the step.                             *)

(* waitFor: the probe holds at a poll, the last of which is at the end.    *)
WaitForPasses(polls, end) ==
  \E i \in DOMAIN polls : polls[i].ok /\ \A j \in 1..(i - 1) : polls[j].now < end

(* hold: the probe holds at every poll up to the first one at the end,     *)
(* which comes before the limit of the run.                                *)
HoldPasses(polls, end, limit) ==
  \E i \in DOMAIN polls :
    /\ polls[i].now >= end
    /\ \A j \in 1..i : polls[j].ok
    /\ \A j \in 1..(i - 1) : polls[j].now < end /\ polls[j].now < limit

(* baseline: polled cycles that ended after the start of the step, each    *)
(* once; idle and interrupted ones are looked at and left out.             *)
BaselineStep(acc, poll, start, samples, idle, limit) ==
  LET c == poll.cycle
      new == c # NoCycle /\ c.at \notin acc.seen
      counted == new /\ c.outcome = "polled" /\ c.at >= start
      durations == IF counted THEN Append(acc.durations, c.duration) ELSE acc.durations
      lastNew == IF counted THEN poll.now ELSE acc.lastNew
  IN  [seen      |-> IF new THEN acc.seen \cup {c.at} ELSE acc.seen,
       durations |-> durations,
       lastNew   |-> lastNew,
       verdict   |-> IF Len(durations) >= samples THEN "passed"
                     ELSE IF poll.now - lastNew >= idle \/ poll.now >= limit THEN "failed"
                     ELSE "waiting"]

Baseline(polls, start, samples, idle, limit) ==
  LET run[i \in 0..Len(polls)] ==
        IF i = 0 THEN [seen |-> {}, durations |-> <<>>, lastNew |-> start, verdict |-> "waiting"]
        ELSE IF run[i - 1].verdict # "waiting" THEN run[i - 1]
        ELSE BaselineStep(run[i - 1], polls[i], start, samples, idle, limit)
  IN  run[Len(polls)]

-----------------------------------------------------------------------------
(* The schema of a scenario.  steps are [kind, as, of, wait].              *)

NoName == "none"
Waits(s) == s.kind \in {"waitFor", "hold"}

WaitSum(steps) ==
  LET sum[i \in 0..Len(steps)] ==
        IF i = 0 THEN 0 ELSE sum[i - 1] + IF Waits(steps[i]) THEN steps[i].wait ELSE 0
  IN  sum[Len(steps)]

AcceptsScenario(scenario) ==
  LET steps == scenario.steps
      declared(i) == {steps[j].as : j \in {k \in 1..(i - 1) : steps[k].kind = "baseline"}}
  IN  /\ steps # <<>>
      /\ \A i \in DOMAIN steps : steps[i].kind = "baseline" => steps[i].as \notin declared(i)
      /\ \A i \in DOMAIN steps : Waits(steps[i]) =>
           /\ steps[i].of # NoName => steps[i].of \in declared(i)
           /\ steps[i].wait <= scenario.timeout
      /\ WaitSum(steps) <= scenario.timeout

(* loadScenarios: one bad file and the catalogue is refused. *)
LoadedCatalogue(files) ==
  IF \A f \in files : f.parses /\ f.fileName = f.scenario.name /\ AcceptsScenario(f.scenario)
    THEN {f.scenario : f \in files} ELSE {}
===============================================================================
