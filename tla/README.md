# fieldstream: a verification project

fieldstream collects telemetry from industrial devices polled over Modbus, keeps its history,
raises alarms over it and shows it live in a browser. It is built for a world where devices are
slow or silent, a physical line carries one request at a time, brokers and databases go away, and
every process may be restarted at any moment.

This directory holds TLA+ models of the parts where such things are decided, and of the pure
calculations they rest on, the TLC configurations that check them on small instances, and proofs
of most safety properties for instances of every size. Each definition is written from the code;
`PROJECT.json` names the lines it stands for, the runs, the mutants that show that every property
can fail, the hazards and the findings. A definition whose lines lie within those of others that
are named there has no entry of its own.

    tlc -workers 2 -config MCRequests_outcomes.cfg MCRequests.tla
    tlapm IngestProofs.tla

## 1. Inventory of the system

```
 devices ── RS-485 ── edge-collector ──▶ Kafka ──▶ stream-processor ──▶ TimescaleDB
 (device-sim)            ▲                 │              │                  ▲
                         │  device.commands│              └─ alarms.events,  │
                         └─────────────────┘                 device.state    │
                                           ▲              │                  │
                                      api-gateway ◀───────┴──────────────────┘
                                           ▲
                                          web
```

Services talk through Kafka topics and through tables; none calls another. The table says what
each part keeps, what it does and what makes it correct.

| Part | State | Operations | Must be true |
|---|---|---|---|
| Line worker (`edge-collector/polling/line-worker.ts`) | run number, loop and stop promises, generation of passes, connection, a breaker per device | start, stop, cycle over devices, watchdog, connect, breaker steps | one cycle on a line; a stop overtaken by a start spares its port; a stopped worker has no loop; stops end; every device is polled again |
| Bounded publisher (`publish/bounded-publisher.ts`) | queue, batch in flight, pump promise, count of losses | enqueue, pump, failed send, trim, drain, close | only the oldest are lost and all losses counted; order within a topic; nothing forgotten |
| Ingest (`stream-processor/ingest`) | offset of the group, ownership of devices, alarm memory, attempts; rows of readings, dead letters and episodes | join, release and adopt devices, decode a batch, transaction, publish, commit, back off, exit | confirmed is stored and published; one open episode of a metric; no orphan; the partition moves |
| Alarm engine (`domain/alarms.ts`) | pending count, raised episode | one evaluation per cycle | raised after the debounce only, closed past the return zone only |
| Health and handover (`stream-processor/health`) | a track per device, states to publish, pending events | observe, evaluate, publish, release, adopt | one owner writes the state; no jump at a handover |
| Command path (`api-gateway/commands`, `edge-collector/commands`, `stream-processor/commands`) | `core.outbox`, the batch of each relay, the answers buffered in the collector, `core.applied_commands` | issue, relay tick, reject, defer, apply, answer, record | no command lost after its mark; stages go forward; the queue drains; commands of a site keep their order |
| Redrive of dead letters (`stream-processor/dlq`) | `core.dlq_message`, `core.dlq_redrive`, the open transaction | ask, recover, claim, send, mark, commit, fail | nothing lost; one row for one failure; an outcome written once; no request hangs |
| Replay (`stream-processor/replay`, `db/store/replay.ts`, `api-gateway/replay`) | `core.replay_run` with owner and beat, the execution of a processor, its temporary group, the position in a partition | ask, expire, claim, plan, read, beat, judge, finish, fail, recover, stop | one run at a time; a run is written by its owner once; its outcome depends on its window alone; it ends |
| Sessions (`api-gateway/auth`, `web/shared/api/http.ts`) | `core.refresh_sessions`, rotations shared and remembered by a gateway, the cookie and the token of each tab | login, refresh, rotate, repeat, logout | a token is rotated once; only a stolen one ends the session; a cookie renews |
| Live events (`api-gateway/live`, `web/shared/sse`) | a ring of numbered events, a queue per client, the `EventSource` of a tab and what it has seen | emit, connect, backfill, silence, reopen | each event once and in order; no gap without a demand to read again |
| Scenarios (`api-gateway/scenarios`, `packages/scenarios`) | `core.scenario_run` with its beat, the runner, the faults it has made | start, step, inject, beat, halt, clean, sweep | closed once; a run in work has somebody to close it; a verdict needs fresh facts |
| Rate limit (`db/store/rate-limit.ts`) | buckets in a table | ask, charge, refill | nobody is refused for more than his failures; who guesses alone pays for each guess |
| Filters and frames (`domain/filters.ts`, `ingest/frame.ts`) | memory of the filter per metric | draft, keep, forget | a far value needs frames of its own to be believed |
| Codec, profiles (`modbus-codec`, `device-profiles`) | none | decode, encode, plan, poll, validate | values return; a plan reads each parameter once and whole |
| Views of the gateway (`api-gateway/pipeline`, `lab`, `read`) | ring of looks at the broker, journal of rebalances | look, settle, rates | no lag overstated; the journal is a chain |
| Alarms of the gateway (`db/store/alarm-feed.ts`, `api-gateway/alarms`) | rules, their journal, the table of episodes | save, page, acknowledge | pages skip nothing; a mark is not lost |
| Simulator (`device-sim`) | book of faults, queue of a port, simulated time, state of chambers and meters | serve, sync ports, break, catch up | one reply at a time to the right request; a world does not depend on who looks |
| Web (`apps/web`) | queries, drafts, pages, faults on a screen | launch, follow, save, acknowledge, break | a screen ends with the truth; what it has announced is not taken back |
| Tools (`kafka-lab`, `scenario-ci`) | registry of topics and groups; the job and its attempts | experiments, tidy up, start, recover, watch | conclusions are earned; nothing is left behind; the job ends |
| Contracts, migrations, `nest-common`, `packages/kafka` | none of their own | schemas, helpers | modelled with the parts that use them |

How they interact: the collector puts frames and cycles into `telemetry.raw.v1` and
`collector.cycles.v2` by way of the bounded publisher; the processor writes them to the database,
then publishes cleaned readings and alarm events, then commits its offset; what it cannot decode
goes to the dead letter queue and may return as a copy with headers. The gateway writes commands
into `core.outbox` in the transaction that accepts them; a relay in every gateway instance sends
them to `device.commands.v1`; the collector applies them and answers through the same buffer as
telemetry; the processor records the answers. Replays, redrives and scenario runs are rows of tables that the
gateway puts in and a process with a beat takes. A browser sees all of it through polls and through
one stream of events that carries no state, only what to read again.

The hard behaviours: tasks of one process interleaving at every `await` (start and stop of a
worker, watchdog against a hung pass, pump against enqueue); several instances of a service over
one table (relays, redrives) and over one partition (rebalances, members left out without knowing);
crashes between a transaction and the confirmation that follows it; answers lost after success;
buffers at capacity; screens whose polls and changes cross. The full list, with lines, is under `hazards` in `PROJECT.json`.

## 2. Modules

One module per component, its state as variables, one action per handler or step between two
awaits. Components that share no state are checked side by side by one MC module: a variable `part`
is chosen at the start and says which of them moves, so a run is a union of small models and a
property of it a conjunction with one conjunct for each part it speaks of.

| Module | Models | Checked by | Proved in |
|---|---|---|---|
| `Alarms` | `evaluateDeviceAlarms` for a metric, as an operator on its memory | part of `Ingest` | lemmas in `IngestProofs` |
| `Ingest` | the consumer group, the batch handler and the database over one partition | `MCIngest` | `IngestProofs` |
| `DeviceHealth` | the tracker of a device, the tick that writes its state, the handover between instances | itself, `MCMeasurements` | `DeviceHealthProofs` |
| `LineWorker`, `SimLine` | the worker of one line; its client against the port of the simulator | `MCLineWorker` | `LineWorkerProofs` |
| `FaultPanel` | the faults put in and out by hand: screen, gateway, book | `MCLineWorker` | `LineWorkerProofs` |
| `CommandProgress`, `Commands` | the stages of a command that an operator may see, implemented by its way through three services | `MCRequests` | `RequestsProofs` |
| `ReplayRuns` | the life of a replay run over several processors | `MCRequests` | `ReplayRunsProofs`, `RequestsProofs` |
| `DlqRedrive` | the redrive of dead letters | `MCRequests` | `DlqRedriveProofs`, `RequestsProofs` |
| `ReplayReading` | the reading of a window: offsets, rejoins, retention, the core of two variants | `MCReplayReading` | – |
| `ReplayForm` | what a patch of rules means to form, contract and gateway; the difference of two variants; the form whose rules grow old | `MCReplayReading` | – |
| `Publisher` | the bounded buffer before the broker | `MCEnds` | `EndsProofs` |
| `LiveEvents` | the live channel of a browser | `MCEnds` | `EndsProofs` |
| `Sessions`, `RateLimit` | the session of a browser, the buckets before the login | `MCEnds` | `EndsProofs` |
| `RunWatch`, `RuleEditing`, `AlarmFeed` | a screen that follows a run; two people who save rules; the feed of alarms | `MCEnds` | `EndsProofs` |
| `Scenarios` | a run of a scenario over two gateways | `MCStand` | `ScenariosProofs` |
| `Probes` | what a run of a scenario looks at | `MCStand` | – |
| `CiRunner` | the job of CI that plays scenarios | `MCStand` | – |
| `LabRun`, `LabConsumers`, `LabDlq`, `LabBroker` | the experiments of kafka-lab and their frame | `MCStand` | – |
| `PipelineSampler` | the gateway's look at the broker | `MCStand` | – |
| `Codec` | registers to values and back; bytes to frames and back | `MCMeasurements` | – |
| `ReadPlans`, `Readings` | profile to requests to parameters; the filter of spikes over repeated batches | `MCMeasurements` | – |
| `SimWorld` | the simulated time and physics, looked at often and rarely | `MCMeasurements` | – |

### Alarms and Ingest

A frame has a kind (live, a copy out of the dead letter queue, undecodable), the mode of the device
and a value; its offset stands for its time, because one serial poller produces the frames of a
device. `mem[i]` is the alarm memory of instance *i* for the metric, `owned[i]` whether the device
is in `this.owned`, `pos[i]` where its consumer reads.

| Code | Action |
|---|---|
| `handleBatch`, `eachBatch` | `Fetch` |
| body of the loop in `handle`, on copies of the memory | `DraftMessage` (one message) |
| `withTransaction` with readings, episodes, closings, dead letters | `Write`; `WriteRejected` if the CHECK of `core.alarm_events` does not hold, `WriteFailed` for an outage |
| `sendRaw`, `send` and the move of the memory | `Publish`, `PublishFailed` |
| `commitThrough` and the heartbeat | `Commit`, `CommitFenced` (left out of the group), `CommitRefused` |
| `pauseFor`, attempts, `process.exit(1)` | `GiveBack`, `Stop` inside the failures |
| rebalance, `GROUP_JOIN`, `release`, `adopt`, `restore` | `Rebalance`, `Evict`, `Adopt`, `AdoptBlind` (the database cannot be read) |
| `AlarmRulesService` | `RefreshRules`, `Restart`, `RestartUnloaded` (a batch before the first reading ended) |

Steps between two awaits are one action; the awaits are where other instances and faults come in.
`Faults` chooses which faults an instance of the model knows, `MaxFaults` how many happen.

### LineWorker and SimLine

`runs` are the loops that `start` creates, `stops` the promises of `stop`, each with what it waits
for; `generation` counts passes the watchdog gave up, and `abandoned` keeps those that are still
going on. `pass` walks over the devices that are due: connecting, reading block by block, done.
A device answers, fails or breaks the connection; the connection may be lost at any time. The
breaker has four states: closed, suspect (one failure), open, probe; its delays are abstract, a
probe is due at any time after opening.

`SimLine` is the other end: the port that is opened and closed as faults say, sockets, the one queue
of the bus, a request held by a stall, and a client that gives up and asks again over the same
socket. A reply carries the transaction of its request.

### FaultPanel

`acting` is the book: for each fault that can be put in, the number of the entry that acts. `panel`
is what the screen shows, `reading` the poll under way, `calls` the changes under way, `outcome`
what it has announced. A change goes through `Change`, `Serve` (the simulator does it), `Succeed`
(`onSuccess`: the list is patched from the answer, the poll under way dropped and a new one begun)
or `Fails`; others and the time of a fault change the book in `OthersChange`.

### Commands and CommandProgress

Rows of the outbox are numbered in the order of issue. `relay[g]` is where the tick of gateway *g*
is and which rows it holds with the attempts they had. A claim is a statement of its own, so two
relays may hold the same row, as in the code. The collector handles messages in order, its answers
wait in `answers` until the broker takes them; a restart loses them and reads again from the
confirmed offset or one before. `results` keeps answers not yet recorded; compaction may drop an
older answer of the same command. `Commands` implements `CommandProgress` (`StagesGoForward`).

### ReplayRuns, ReplayReading, ReplayForm

`row[r]` is the row of `core.replay_run`, with its age since it was queued or has beaten; `proc[i]`
the tick and the execution of a processor; `group[r]` the temporary group at the broker. Every
write of an executor asks whether the run goes on and is its own (`Mine`), as the `WHERE` clauses do.
The catch of `perform` and the shutdown share one failure. `orphans` remembers runs whose claim
or failure lost its answer.

`ReplayReading` reads one window of two partitions. After each join the consumer fetches from the
head of the log until its seeks take effect; the broker deletes the head meanwhile; the tracker
counts an offset once. The core judges each frame by the rules of both variants, and turns down those
that are not later than the last one it took and those it cannot process; episodes are kept
up to a limit.

`ReplayForm` defines the check of a patch three times, as `replay-form.ts`, `contracts/api/replay.ts`
and `replay-calc.ts` do, and compares them over all small rules; and the difference of two variants
against a definition of its own. It puts the form in front of the gateway with the time between them.

### DlqRedrive

`rows` is `core.dlq_message`, `tx[i]` what the transaction of instance *i* holds and has written
without committing. A message decodes or not, freshly chosen at each attempt, since profiles and
topology change. Claim and selection are one action: between them the transaction only adds locks,
and both skip what others hold.

### Publisher

`queue`, `inFlight`, `dropped` are the variables of `createBoundedPublisher`, `pump` the promise
`pumping` with the moment between the end of its loop and `finally` as a state of its own
(`ending`). A send covers several topics, so a failed one may have reached some of them.

### Sessions, LiveEvents, RateLimit

Tokens are numbered as they are made; the row holds the current one, a gateway remembers the last
rotations and shares one in work; the cookie jar belongs to all tabs, each tab has requests of its
own whose answers may be lost or late. `LiveEvents` has the ring with its epoch, the bus with a queue
per connection, the browser's `EventSource` with `Last-Event-ID`, and the hook that drops what it
has seen and re-arms its watchdog. `RateLimit` asks the buckets, tries the password and charges, each in
a transaction of its own, over a clock of small steps. A transaction is `Connect` (the connection and
the clock), `Look` (`SELECT ... FOR UPDATE`, which locks a row and waits for one, but locks nothing
where there is no row yet) and `Write` (the `ON CONFLICT DO UPDATE` with what was computed from
the look, whatever stands there by then). `torn` remembers the buckets written over in this way.
In `Sessions` a token in `broken` has a rotation that the database broke off.

### RunWatch, RuleEditing, AlarmFeed

A screen has queries with one request under way each; an invalidation drops it and asks again.
`RunWatch` has the list and the run it follows, `RuleEditing` two people with drafts, their
transactions statement by statement and the row locks between them, `AlarmFeed` pages by a cursor
against a table that changes, live patches, and marks put in before their answer.

### Scenarios, Probes, CiRunner

`Scenarios` has the rows of runs, the runner of each gateway, the writer of progress (one write at a
time), the beat, the sweep that any gateway makes and the faults at the simulator. Whether a waiting
step sees what it wants is a choice there; `Probes` defines the facts, the probes and the polling
steps as operators and compares them with what they must mean. `CiRunner` is the job before the
gateway: a start whose answer is lost, a busy stand, a run given up, a token that ends.

### Lab modules and PipelineSampler

`LabRun` is the frame of an experiment: sweep, create, remember, tidy, with a process that may be
killed. `LabConsumers` has the three experiments with one consumer (`commits.ts`, `idempotency.ts`,
`lag.ts`), `LabBroker` the four about groups, order and compaction, each with what it prints as a conclusion,
against a broker whose rebalances come when nobody asked. `PipelineSampler` reads ends, groups and
offsets one after the other while they move, and keeps a journal.

### ReadPlans, Codec, Readings, SimWorld

`ReadPlans` makes the plan of a profile as `read-plan.ts` does and reads a device by it while its
values move; beside all small profiles it has the two models of the stand (`Rc2000`, `Pm3Phase`).
`Codec` is pure and compared with its inverse, registers and values as well as bytes and frames. `Readings` is the filter of spikes with
its draft, over batches that come again. `SimWorld` keeps one world twice, looked at often
and rarely, with faults of its physics beginning and ending. Starting, unloading, heating and
draining take steps of their own, so a look may come in the middle of each.

### DeviceHealth

One device and the instances of the processor. `track[i]` is its `DeviceTrack`, with time reduced to
what `deviceVerdict` asks (never answered, answered lately, long ago; the window of startup_grace);
`queue[i]` the assignments that `createHandovers` has not applied, `reading[i]` where
`readRestored` is, `tick[i]` where `tick` of the health service is: waiting for the shared lock,
before and after the upsert, sending. `row` and `lastEvent` are what the database holds. `leftover` is a history variable: the instances
that have adopted the device with a tick or with events of an earlier tenure still on their hands.

| Code | Action |
|---|---|
| `REBALANCING`, `GROUP_JOIN`, `STOP` and `CRASH` of the consumer | `BeginRebalance`, `Announce`, `Rebalance`, `Leave` |
| `apply`, `readRestored`, `adopt` of consumer and tracker | `Apply`, `Read` (exclusive lock), `Adopt`, `AdoptBlind` (no attempt succeeded) |
| `observeCycle`, the first frame, the clock | `Observe`, `Frame`, `TimePasses` |
| `tick`: `evaluate`; the lock and the second look at `held`; upsert; events and COMMIT; send and `confirmPublished` | `Evaluate`, `Enter`, `Upserted`, `Commit`, `Send` |
| failures of these | `WriteFails`, `CommitUnknown`, `SendFails`, `Crash` |

The row lock of the upsert is a guard of `Upserted`. The ownership of states is looked at in
`Enter`, that of events after the upsert, as in the code.

## 3. Runs

Passing runs, and what a reader learns from them:

| Run | Question | Bounds |
|---|---|---|
| `ingest_durable` | Is a confirmed message stored and published, whatever fails? Does a consumer ever see an alarm event without its row? | 2 instances, 3 messages of 5 kinds, batches of 2, 2 faults of all 8 kinds |
| `ingest_episodes` | Are episodes opened, known and closed rightly over crashes, failures and handovers, and does the partition move? | 2 instances, 4 messages (normal, return zone, high), debounce 2, 2 faults |
| `line_commands` | Do starts, stops and the watchdog leave one cycle, no loop after a stop and no more connections than trips, breakers untouched by abandoned passes, and every device polled (`LineIsSound`, `LateStepsSpareTheCycle`, `StopCompletes`, `DevicesAreRead`)? Does the client take only its own replies? Does the panel of faults show what acts? | 2 devices of 2 requests, 2 starts, 2 stops, 1 trip; 2 sockets, 2 faults; 2 changes, 1 lost answer, 1 fault put in by others |
| `requests` | Is anything people ask for lost, done twice without a failure, or left without an outcome: commands, replays, redrives? Do the stages of a command only go forward (refinement of `CommandProgress`)? | commands: 2 gateways, 2 rows, a batch of 2, 1 fault of 7 kinds; replays: 2 processors, 2 runs, 2 mishaps; redrives: 2 instances, 2 messages, 2 requests, 2 failures to the end, 1 fault of 6 kinds |
| `replay_reading` | Does a run read its window once, whatever joins and retention do, and does its outcome depend on it alone? Do form, contract and gateway agree on a patch? Is the difference what it says? | 2 partitions of up to 5 offsets, a rejoin, 4 deletions; all small rules, patches and episodes |
| `ends` | Buffer: losses only the oldest, counted. Session: rotated once, never closed for an honest repeat. Stream: each event once, in order. Buckets: nobody is refused beyond his failures, no free guess for one who is alone. Screens: what is announced is not taken back, and each ends with the truth; pages of alarms skip nothing | buffer of 3, 6 messages, 2 failed sends; 5 tokens, 2 tabs, 1 fault; ring of 2, 3 events, 2 epochs; 2 attempts at 2 buckets of 2 and 1 tokens, 3 ticks; 2 runs, 1 trouble; 2 people, 3 acts, 1 slip; 2 episodes, pages of 1 |
| `stand` | Is a scenario closed once, and does its cleaning pass over nothing but what a lost answer hides? Does a verdict need fresh facts? Does the job of CI exit with zero only when each has passed? Are the conclusions of kafka-lab earned? Does the sampler overstate a lag? | 2 gateways, 2 runs, 1 mishap; 2 scenarios in a job; up to 5 messages in an experiment, 1 trouble; 1 group of 1 member, 2 rebalances |
| `measurements` | Does a frame give every parameter its own words of one moment? Do values return? Can one outlier confirm itself? Is the new owner's reading the last word on the old owner's writes? Is an event of a device ever false or twice? Does a world depend on who looks? | all profiles of 3 parameters and of 2 with 2 blocks, the 2 models of the stand; frames of 3 values; 2 instances, offline after 1 error, 1 disturbance of the group (rebalance, crash, or a consumer that leaves and comes back), 1 failed call of 4 kinds; 7 ticks of the world |

Runs that find a violation, each of one sentence the repository says of itself:

| Run | What happens |
|---|---|
| `ingest_crashloop` | Crash between the transaction and the commit. The restored episode is closed by an *earlier* frame of the repeated batch, `cleared_at < occurred_at` breaks the CHECK of migration 0009, and so does every retry and every restart: the partition stands still, although ARCHITECTURE.md says that a repeat has no effect. |
| `health_failedsend` | A tick commits the new state of a device and its publication fails. At the next check the device is back in the state published last, the tracker sees no change, and the table keeps the state in between until the next real one, although `health.service.ts:26` says that a failure loses no state. |
| `live_gap` | The greeting of a stream carries the current id of the ring. A tab that comes back takes the last event of its backfill, and every demand to read again, for a repeat and drops it. |
| `rule_trace` | Two saves of one rule read it before either has written: the journal entry of the second begins with values that the first had already replaced. |

### Why these bounds are enough

Two instances show every conflict here: an owner and a predecessor, a holder of a lock and one that
meets it. A batch of two or three messages has an inside, where a raise can precede or follow a
clearing. Two faults give a failure during the recovery from another. Two debounce cycles with
three or four messages let a run of violations be split by a batch, a crash or a zone. Capacity 3
with batches of 2 and 6 messages fills the buffer twice while a batch is out. A command needs one
fault to be sent twice or answered twice; two at once would take the run past a few minutes. Two failures of a message reach the final attempt.
Two runs of a replay or a scenario are an active one and one that waits for its place; a window of
one offset is enough where only its end matters, and the reading itself has windows of three with
late frames before and after. A ring of two with three events forgets. Three tokens are a rotation,
its repeat and a theft; five leave room for a second session. Two people with three acts are two saves that
cross and one that follows. Pages of one row let every episode stand at a border of pages.
Two changes of the panel are enough: the answers that can cross are those of two changes
and one poll. The values and profiles of the pure parts are all combinations of few numbers, with every
order of bytes, kind of parameter and way of overlapping.

One disturbance hands a device over while its first owner is at any point of its tick, or takes it
away and gives it back to the same process with its own leftovers; a failed call may come beside it:
a write, an answer of COMMIT, a send, a reading of the row. `health_failedsend` needs one instance
and one failed send. A second disturbance, with which a hung send confirms a state of an earlier
tenure (`tracker.ts:322`), is left to the proofs. Two attempts to log in are enough to look
and write across each other, and for a second that finds what the first has left.

### Fairness

Weak fairness of the steps of a process that is up stands for an event loop that runs what is
ready: `Handle` of ingest, `Tick` of redrives and relays, `Tick` and
`Handover` of device health, `Wake` and `PumpEnds` of the publisher, the steps of an execution of a
replay, of a runner of scenarios, of the job of CI and of an experiment, the polls of a screen, the
ends of queries under way. `TimePasses`, `ExpireQueued` and `GoesStale` are fair because clocks run on, and
timers look at them.
`Rebalance` and `Restart` are fair because the coordinator removes dead members and Docker restarts
containers (`restart: unless-stopped`; `process.exit(1)` in `handle` relies on it). `SendOk` of the
publisher is strongly fair: a broker that fails only finitely often takes a batch in the end; the
bound on failures says the same. `Seek` and `HandleMessage` of a replay are strongly fair, since a join
that comes in between only puts them off and the group joins finitely often. Nobody is obliged to issue
commands, to ask for redrives, replays or scenarios, to press start or stop, to fill in a form or to
change a fault, and no fault is obliged to happen.

## 4. Proofs

| Theorem | Says | For every number of |
|---|---|---|
| `IngestTypeCorrect` (`IngestProofs`) | `Spec => []TypeOK` | instances, messages, modes, faults |
| `IngestDurable` (`IngestProofs`) | `Spec => []CommittedIsDurable` | same |
| `IngestStored` (`IngestProofs`) | `Spec => []PublishedIsStored` | same |
| `IngestEpisodes`, `IngestDebounced`, `IngestClosings` (`IngestProofs`) | if `Faults \subseteq EpisodeFaults`: `Spec => []EpisodesAreSound`, `Spec => []DebouncedRaise`, `Spec => []ClosedForReason` | same, the faults being crashes and failed calls to the database and the broker |
| `NoCommandVanishes` (`RequestsProofs`) | `Spec => []NothingVanishes` | gateways, commands, attempts, faults |
| `CommandsImplementProgress` (`RequestsProofs`) | `Spec => StagesGoForward`: `Commands` implements `CommandProgress` | same |
| `AskedRowsAreKept`, `AskedSentOnce` (`RequestsProofs`, from `DlqRedriveProofs`) | `AskedSpec => []RowsAreKept`, `AskedSpec => []SentOncePerFailure` | instances, messages, requests, attempts, faults |
| `AskedRunsAreWhole` (`RequestsProofs`, from `ReplayRunsProofs`) | `AskedSpec => []RunsAreWhole` | processes, runs, offsets, limits of time |
| `AskedOutcomesStand` (`RequestsProofs`, from both) | `AskedSpec => OutcomesStand` | same |
| `LiveStreamIsFaithful` (`EndsProofs`) | `Spec => []StreamIsFaithful` | events, epochs, places in the ring, renewals, faults |
| `CookieAlwaysRenews`, `SessionsStand` (`EndsProofs`) | `EndsSpec => []CookieRenews`, `EndsSpec => SessionStands` | tabs, calls, tokens, sessions, faults |
| `BufferConserves` (`EndsProofs`) | `EndsSpec => []Conserved` | places in the buffer, size of a batch, topics, messages, failed sends |
| `LoginLimitHolds` (`EndsProofs`) | `EndsSpec => []LoginIsLimited` | e-mails, capacities, times of refill, attempts at once |
| `NothingTakenBack` (`EndsProofs`) | `EndsSpec => NothingIsTakenBack` | messages, runs, episodes, troubles |
| `AlarmsStayKept` (`EndsProofs`) | if `"cleared" \notin Filters`: `EndsSpec => []AlarmsAreKept` | editors, rules, episodes, moments, size of a page, failures |
| `LineKeepsOneCycle` (`LineWorkerProofs`) | `Spec => [](OneCycle /\ ClosedWhenStopped)` | devices, starts, stops, trips of the watchdog |
| `LateStepsAreHarmless` (`LineWorkerProofs`) | `Spec => LateStepsSpareTheCycle` | same |
| `LineStaysSound` (`LineWorkerProofs`) | `LineSpec => []LineIsSound`: worker, port and panel | same, and units, sockets, requests that pile up, faults, changes |
| `ScenariosAreKept`, `ScenarioOutcomesStand` (`ScenariosProofs`) | `Spec => []KeptAndKnown`, `Spec => OutcomesStand` | gateways, scenarios, faults, runs, mishaps |
| `HandoversAreClean` (`DeviceHealthProofs`) | `Spec => HandoverIsClean` | instances, disturbances of the group, failed calls, failures until offline |
| `EventsTellOneStory`, `GuessesNeverCover` (`DeviceHealthProofs`) | `Spec => NoFalseEvent`, `Spec => GuessNeverCovers` | same |

The assumptions say what the constants are and no more: `FrameAssumption` and `SetpointAssumption` of
`Alarms` and `Ingest`, `CommandsAssumption`, `RequestsAssumption`, `LiveAssumption`,
`EndsAssumption`, `LineAssumption`, `EndsOfLineAssumption`, `ScenarioAssumption`, `HealthAssumption`.
TLC evaluates each in the run of its module. Most of them say that a bound is a number and that a
capacity is not zero, which the environment schemas of the services ask for. Beyond that: the keys of
the two kinds of bucket have different prefixes, so that no e-mail is an address; episodes are
numbered by the database and have occurred at some time; a line has devices, and "clear all" is not
the name of a fault; a scenario has a step (`.min(1)`, `packages/scenarios/src/schema.ts:179`).

*Types of ingest.* `TypeOK` is not inductive: `Fetch` and `DraftMessage` index the log by the batch.
`TypeInv` adds `BatchInRange`, that the batch of an instance lies within the log. One lemma per
action, assembled in one case split over `Next`.

*Durability.* The order is transaction, publication, commit, and between them anything may
happen, to this instance or another. `DurableInv` says what an instance has done when its handler
stands at each point: at `send` its batch is stored (`Stored`), at `commit` also published
(`BatchDone`); and what membership implies: a current owner reads from the confirmed offset on
(`Membership`). That is why the commit of a batch confirms only stored messages although the
offset may have been moved by another member meanwhile: an old member's commit is fenced, a current
one's batch begins at `committed + 1`. `Grows` (nothing stored is taken back) carries the facts of
one instance over the steps of another.

*Events.* `Backed` says of an instance that every episode its memory or draft knows as raised is a
row, or is opened by the draft itself (`Rooted`), and that a transaction writes openings before
closings (`Settles`), so a transition that is published has its row.

*Episodes.* Nothing says that the memory of an instance and the rows agree between two batches: a
batch may be stored and not published, and then come again to the same instance, whose memory stands
before it, or to another one, which has just read the rows. What saves the episodes is that the first
message that ends an episode depends on the partition only, not on who reads it. `TableInv` says of
each row that it is closed there (`EndsAt`, `Unbroken`), or that no message written so far ends it;
of each opening that it has its run of violations (`Founded`). `Knows` says that a memory is true of
the messages up to its place. An owner may not have in memory the episode that is open, but then its
own replay leads there (`Expects`, `Leads`: there is a run of the engine from its memory to the
message that opens it), so its next draft opens the episode that is already a row. A new
owner that restored an episode lying ahead of its place may also try to close it too early, at a
message before the one that opened it: the constraint of the table rejects that transaction, and
`WriteCloses` and `WriteRemembers` are where the proof uses it. `DraftInv` carries all this through the loop over a batch, one message at a time
(`DraftStep`); `WriteTable` and `WriteOwner` are the transaction. The hypothesis is needed: each
other kind of fault breaks one of the three properties, as TLC finds when it is added to
`MCIngest_episodes` beside crashes: a member left out (`"evict"`) and a blind adoption (`"restore"`)
break `EpisodesAreSound`, a refused commit (`"refused"`) breaks `DebouncedRaise`, an edit and a start
without the setpoints (`"edit"`, `"unloaded"`) break `ClosedForReason`.

*Commands.* The claim is a statement of its own, so two relays may hold a row at once, each with
what it found. That is harmless because of what never changes back: the kind of a row is written
once, so a row found sound stays sound and one found broken stays broken; the topic only grows, so
what a relay sent before it marks is still there; and a row leaves the queue once, as published or
as rejected, in the way its kind says (`RowInv`). `WayInv` adds that only rows that switch a line
travel, in the topic and in the answers. With `CommandInv` every step maps to a step of
`CommandProgress` or to a stutter.

*Redrive.* A row points back to the row its copy was made of (`RowInv`, `CopyInv`); the newest row of
a message has no successor. `PassedInv` says that a row is resolved, or about to be, only when its
copy has been met or is still ahead in the topic, so nothing is lost between table and topic, also
when a transaction sent and then rolled back. `LockInv` says that two open transactions share neither a row nor a request: claim and
selection skip what others hold, and that is why an outcome is written once though each instance
recovers abandoned requests. How often a row was sent is bounded by the failures, one of which must have taken its mark back before
it can wait again (`SentInv`).

*Replays.* A claim writes the owner of a row, and nothing but an end changes it. A row never returns to work,
so what an executor has once seen of a lost run stays true, and each of its later writes asks for
the owner and finds nothing. For the pruning of old runs: a run that is pruned has enough newer ones
behind it. `RequestsProofs` carries both to `AskedSpec`, the behaviours that TLC is given: a step of
the whole is a step of the one part it is about, or leaves that part alone.

*Stream.* `RingInv`: the ring holds the last numbers of its epoch, without a hole. `PipeInv`: on the
way are the greeting, then perhaps a demand, then events in their order, all later than what was
applied. `TabInv` speaks of the two ids that a tab may present, the last one of its `EventSource`
and the one of the store it opens an address with: whoever asks from either is sent nothing that
was applied. What the hook remembers as seen (`runtime.seen`) plays no part in the argument: for
events the ids alone are enough.

*Session.* `RenewInv`: every token ever made is the current one of its row, or its successor is
remembered by a gateway or in the hands of the call that has just rotated it, or there is a cause
(`Lost`: a fault excuses it, or the session is closed). `LeadersInv` is why it lasts: a token has one
rotation at a time, whose pair nobody has been given yet, and a call that looks for the reason of a
refusal has found a token that is lost. `TabsInv` carries that to the screen: a tab has one call,
and is refused a refresh for a spent token only. One cause is a fault of the database between the
rotation and the pair: `SessionStands` says who is thrown out and why, and does not deny that this
happens (`StorageClosesNoSession`, see 5).

*Buffer.* `PumpInv` says when the batch in flight and the queue are empty. `HasBeen` is about what
the broker holds: whatever waits and is older than a message of its topic there has been there
before, by a send that failed after it reached the topic. So a repeat is a repeat and never a message
out of its turn, for every number of topics.

*Login.* `Whole`: a row stands for the moment at which its bucket is full again. That moment is the
one its failures give, however often the row is read, unless the bucket is `torn`, written by a look
older than the row; then it is an earlier one, so nobody is refused for more than the failures. A
look that found a row keeps it locked until its own write (`Seen`), so only a look that found none
tears a bucket, or one whose clock is older than the row it waited for; both take two attempts at
once. An attempt that nobody runs beside (`LoneInv`) finds, at each of its transactions, what the one
before left.

*Screens.* `RunWatch`: a picture of the runs is never ahead of a later one (`Kept`), so the last of
list, answer under way and table decides, and a run shown as finished can only disappear.
`RuleEditing`: `SaveInv` relates what a transaction has written so far with the entries it has still
to note; with one writer of a rule at a time the last entry is the rule. `AlarmFeed`: `Good` says of
a feed that whatever stood in the table when it was read, still fits, and lies within its pages, is
on them. It is kept by each way a feed changes, and holds of the feed on the screen, of the one being
read, and of the snapshots that refused acknowledgements bring back. A feed of cleared episodes is excluded because
there it is false (see `AlarmFeed`).

*Line.* `InTurn`: a run begins when all before it have ended. It holds because a start waits for the
stop before it and that stop for the loop before it (`Waits`), and because of `Overtaken`: while a
cycle that was told to end still goes on, no pending stop can end. That no two cycles overlap then
needs one step of induction over the runs, taken as a least run that has not ended. `Generations`:
a pass the watchdog gave up has an older number than the current one, so it finds itself abandoned
before it counts for a breaker. Connections that nobody closes are few: a pass given up leaves one at
most, and those it may still open are counted as well (`Counted`; `Doubled` is a cycle that connects
while a late pass has already opened its port). So there is a number free for the next one, and the
list of numbers in the model is no bound on the code. `OffCounted` is the same count for a worker
that is off with every stop ended: each connection it keeps, or may still open, is that of a pass
given up, so there are no more than there were trips, and none without one.

*Port.* The client asks again over the same socket and may meet an answer to what it asked before.
`Matching`: whatever is on its way and has the transaction the client waits for is about the unit it
asks. A client takes a transaction that nothing on its way has, and there is one, since fewer
requests travel than there are transactions.

*Panel.* Faults are numbered as they are put in, and a removal keeps the number reached then. `Clean`
says that since a removal only later faults act; `Shows` that entries on the screen, or in an answer
under way, contain what was put in and nothing older than what was removed. The numbers tell which of
an answer and a poll that cross is the later, which the screen itself does not know.

*Scenarios.* `InHand`: what a run has on the stand is on one of its lists (held, left, or unheard of)
before the simulator is asked; what is unheard of is a scenario of the simulator whose answer was
lost, which the run does not know of and the outcome does not name. `Kept`: a run in work has an
executor, or a start that has created it, or is known to be lost and then the sweep closes it.
`InOrder`: what waits to be written of the progress lies between what is written and what is done, so
a reader never sees a step back. The executor of a halting gateway is halted before the gateway goes.

*Handover.* `QueueInv` says what the queue of an instance knows of the group: its last assignment is
that of the coordinator unless the instance has left, who restores the device has been given it, and
who keeps it with nothing to apply is its owner. `Safe` is an owner that has read the row, or has
kept the device, with nothing but confirmations before it. `Alone`: beside a safe instance nobody is
in a transaction with a state. The reader is alone because the exclusive lock waits for the
transactions that began before; nobody enters later because only the owner does (`Enter` looks at
the ownership once more under the lock). An instance that started without the row took no lock, so
it may meet an open transaction of the one before it: TLC finds such a write, and the property speaks
of the time before the first blind start. `Alone` speaks of whoever writes a state or events
(`Writer`): the events that are committed after the upsert belong to the same transaction.

*Events of a device.* `Chained` and `Ended` say that the table, the events that wait and the status
the next one is compared with follow each other like the sentences of one story, and `Offered` that
the state a tick writes is where the story stands. A lost answer of COMMIT leaves events that are
stored and wait all the same: `Prefix` says they are the oldest, so the retry adds nothing twice. What
was read restores the status the story has reached, as `FitsTable` compares it. A guess of
startup_grace (`Loud`) is made by one who knows of no answer; then the row tells of none, and nobody
else is writing one (`Guess`, `ReadTrue`). Both theorems ask that tick and events are not older than the
adoption (`leftover`), and this is needed: see "Line and device" in 5.

TLC checked the strengthened invariants on the instances above before they were proved. Proofs that
would not go through changed the models where the small instances had not shown a fault:

- `SessionStands` had not thought of a rotation that breaks off while it closes the session of a
  barred user; with two faults the token that is left counts as reused. The fault now excuses that token too.
- `LineWorker` had too few numbers of connections from two trips of the watchdog on.
- `NoFalseEvent` and `GuessNeverCovers` are false when a device leaves an instance and returns;
  they had been checked only where it does not. Now they say which ticks and events they speak of, and
  hold there too, by TLC and by proof.
- Some definitions were written in another form with the same meaning (sequences picked by their
  places, records updated field by field), because the provers cannot reason about `SelectSeq` and
  nested `EXCEPT`.

Only model-checked:

- liveness under fairness (`DrainsUnlessRejected`, `DevicesAreRead`,
  `StopCompletes`, `RequestsEnd`, `EveryReadingEnds`, `EndsWell`, `StandEnds`), which the prover
  does not reach;
- what recursive definitions and folds compute over sequences of any length, since induction over data
  is out of reach too: `ReadsAreTrue` (codec and plans), `SpikesAreHeld` (the filter over a batch),
  `WorldIsOne` (catching up, step by step of the simulated time), `ReadingIsSound` and `AskedIsMeant`
  (the tracker of a replay, the meaning of a patch), `ConclusionsAreEarned` (what an experiment counts
  in its topic);
- the four findings, which are counterexamples.

## 5. What is left out, and simplifications

Not modelled:

- `packages/kafka`, the contracts, the migrations and `nest-common` have no module of their own: what
  they decide (settings of a consumer, a CHECK, a schema, a header) stands in the modules that use them.
- Seed, bench, the checker of links in documents; drawing, charts and layout of the web; the read-only
  queries of `read.ts`; paging of the dead letters; the rules of the stand as data; severity and
  hysteresis in a patch of rules; the tree above devices, whose aggregates the tracker does not use.
- Floats of 32 bits are numbers of few digits, without rounding. Validation of requests,
  authorisation, formatting, metrics and logs are left out.

Simplifications:

- One partition with one device and one metric in `Ingest`; several devices share nothing but the
  offset and the transaction. Device events, health and the spike filter are not there: `Readings` has
  the filter over repeated batches, without the database.
- `DeviceHealth` has neither the mode of a device nor the doors in its frames, and no order in the
  topic. A rebalance waits for all members; one that misses it is modelled in `Ingest`. Fine grain
  of time is gone: what matters is whether a success is old when a tick looks at it. Graceful
  shutdown (`stopped`) is a process that leaves.
- Time: `LineWorker` lets a delay end at any moment, so it shows nothing about durations; `Ingest`
  uses offsets for times of frames; in `Commands` a deferred row becomes due at any moment.
  `setPlanMode` and `setPollInterval` of the worker, which replace plans between passes, are not actions.
- `ingest_episodes` knows crashes, failed writes and failed sends. Members left out and edits of the setpoints are
  not in it, because with them its properties fail (see "Path of a frame"); nor are heartbeats of
  their own. A batch is drafted without an await, so `isRunning` and `isStale` can stop it before its
  first message only, where `Fetch` has them.
- `SimLine` takes an exception of Modbus and a wrong CRC for one answer, `refused`: the client counts
  both as a failed request of the same kind.
- `ReplayReading` asks for the starts, the ends and the offsets of the window at one moment
  (`replay-runner.service.ts:387`), and has no spike filter in its core. An idle partition whose
  retained part ends below the window is finished by `REPLAY_MAX_MS`, which `ReplayRuns` has.
- A fault whose answer was lost acts in `Scenarios` by the time the runner goes on, or never; a
  request that arrives after the cleaning is not there.
- `Commands` has one line, hence one partition and one collector: a collector of another stand, which
  would pass a command over in silence or answer `rejected` (`commands.service.ts:84`), is not there,
  and the arguments a command lacks are turned down where it is issued and where it is decoded
  (`deviceCommandSchema`). It takes the buffer of the
  collector as never full: answers compete with telemetry for its capacity, and `Publisher` is where
  a loss by overflow is modelled.
- `DlqRedrive`: graceful shutdown waits for the current request, which is an ordinary execution; the
  switches `DLQ_REDRIVE` and `OUTBOX_RELAY` are on. Messages of other topics are not redriven.
- `Commands` counts a gateway that dies on an unhandled rejection of `tick`
  (`outbox-relay.service.ts:57` has no catch around the claim and the second mark) as a death
  with a restart.
- What is joined in one run by `part` is checked side by side, never together: the composition of
  `Publisher` with `Ingest` and of the runs of scenarios with what they do to devices is not there.

### Seen while modelling, without a run of its own

Path of a frame:

- The comment at `raw-batch.service.ts:88` says that a repeat changes nothing. A batch
  repeated over a restored memory may open a second episode where the first attempt already closed
  its own; there is still one open at a time, as `EpisodesAreSound` asks.
- A member left out of the group while its transaction runs (`raw-batch.service.ts:336`, the heartbeat
  comes after the commit) writes after the new owner has restored: two open episodes. With
  `"evict"` and `"send"` as the faults of `ingest_episodes`, the part `OneOpenEpisode` of
  `EpisodesAreSound` fails, against "exactly one instance
  processes the data of a device" of ARCHITECTURE.md:236.
- A setpoint disabled between a failed publication and the retry: the retry does not raise, and the
  row written by the first attempt stays open for good (`"edit"` and `"send"`, part `NoOrphanEpisode`;
  `raw-batch.service.ts:223`).
- A batch handled before the first reading of the setpoints ended closes a restored episode on a
  sample that still violates (`"crash"` and `"unloaded"`, `ClosedForReason`; `alarm-rules.service.ts:30`).
- A batch whose commit was refused is shown to the spike filter again, so one outlier can confirm
  itself, against the comment at `raw-batch.service.ts:86`. After a crash or a handover the filter is
  clean: a first outlier is accepted though the stored row says it was replaced.
- A batch of cycles whose commit is refused after `observeCycle` is counted again when it comes back;
  `cycles-batch.service.ts:20` says the counters follow the write so that a repeat does not double them.
- A parameter of 32 bits at address 65535 passes the rules of a profile; the request made of it is
  refused by the device.

Line and device:

- A pass given up by the watchdog while it connects goes on to poll beside the next cycle: between
  `ensureLink` and `pollDevice` nobody compares the generation. `LateStepsSpareTheCycle` states what
  such a pass cannot do; that there is one poller at a time does not hold.
- `link.close` does not end a connect in progress (`modbus-link.ts:39`): a pass given up by the watchdog
  while it connects opens the port of a line that has been stopped since, against
  `lines.service.ts:136`, where stopping closes the port. `ClosedWhenStopped` counts such
  connections: one per trip at most, none without a trip.
- `health.service.ts:138` publishes after the transaction and outside its advisory lock, while
  the comment at `ingest-consumer.service.ts:66` says health is not published during a handover: the
  old owner's state may follow the new owner's in the topic.
- `pendingEvents` and a tick that waits for its lock survive a release. A process that leaves the group
  and gets the device back may write the same transition twice, once as a leftover, and a state
  judged before it left. `NoFalseEvent` and `GuessNeverCovers` do not speak of these (`leftover`);
  without that premise and with `"leave"` among the disturbances of `measurements` TLC finds both
  violated.
- After a start without the row the exclusive lock was never taken, so a hung transaction of the old
  owner may cover what the new one has written. ARCHITECTURE.md:242 names other costs of such a start.
- A device that never answered is offline after its errors, but `deviceVerdict` asks for the window of
  startup_grace first: a restarted processor shows it as unknown until the window ends.
- Simulator: a stop during `listen` of a synchronisation opens the port again; requests of a client
  that gave up stay in the queue of a live socket. The comment at `world.ts:40` (the world does not
  depend on how often one looks) does not hold when a fault of the physics begins or ends between two
  looks, nor beyond the 86,400 steps that are caught up; the checked form has that precondition.

Commands, redrives, replays:

- ARCHITECTURE.md:340 says a command is executed only if the insert into `core.applied_commands`
  succeeded. The collector has no database: it executes first, and a command delivered twice is
  executed twice (`Commands!applied` may repeat). Only the *record* is unique.
- A command may be recorded as `expired` although it was applied: repeated after its time, its
  second answer replaces the first in the compacted topic before the processor has read it.
- A batch of the outbox that could not be sent is put off as a whole, while newer commands of the same
  site stay due (`outbox-relay.service.ts:101`): the line may obey the older command last.
- The form of a replay checks the start of its window without the 60 s the gateway allows, and its rules
  may be 30 s old. A run settled by the list is no longer polled: if it drops off the list, the page
  falls back to older data and shows it as going on.

Gateway and browser:

- A database fault between `rotateSession` and `loadUserById` answers 503; the repeat is taken for a
  stolen token and closes the session, against `auth.service.ts:284` and ARCHITECTURE.md:258, which
  keep "revoked" and "not available" apart. `Sessions` states that promise as
  `StorageClosesNoSession`; no run checks it. The steps that break it: a login, the access token runs
  out, a refresh, `Rotate`, `Unavailable` while the user is loaded, a second refresh with the same
  cookie, `Look` finds a used token, `Revoke`. `SessionStands` names that cause among its
  exceptions (`excused`).
- A failed logout clears the tab and leaves cookie and session; another gateway does not know the
  rotations of the first.
- Live: the greeting advances `Last-Event-ID` before the backfill is read; a watchdog whose reopening
  is refused is not armed again; what happens between the first page and the first greeting is not covered.
- Wrong guesses at the same moment share a token of the bucket: each asks before any has paid. The first
  use of a bucket has no row to lock (`rate-limit.ts:65`), and the later write carries what was computed
  without it (`rate-limit.ts:77`): a question takes back the charge of another attempt. The
  clock is read before the wait for the lock, so a row may be written with an older time than it had.
  A fault while charging leaves a guess unpaid. `TokensAreFailures` says of all these that only
  attempts at once can bring them about.
- Drafts of rules stay after a save: another person's later change then looks like an unsaved draft and
  is overwritten. Two saves that lock their rows in different orders deadlock, and one ends with an error.
- Feed of alarms: a page that was under way takes back live changes (a cleared alarm returns, against
  `useLivePatch.ts:133`); an acknowledgement that fails takes back another that succeeded, or leaves the mark of
  a failed one (`useAckAlarm.ts:31`); an episode put at the head comes again with its page; a live end
  overwrites the time of the beginning; the counters of a site are not lowered or count twice.
- Panel of faults: the answer of "clear all" that follows the answer of a later change hides that
  fault until the next read; a lost answer shows a refusal though the fault is in.

Scenarios and tools:

- `runner.ts:315` says that the faults of a run are removed whatever its outcome. A scenario of the
  simulator is noted after its answer only (`runner.ts:151`): if the answer is lost, what it
  has put in stays until its time runs out, and neither the cleaning nor the outcome knows of it.
  `Scenarios` states the promise as `FaultsAreRemoved`, which the code does not keep and no run
  checks; `KeptAndKnown` says that nothing else is passed over. A runner that died leaves its faults too.
- Job of CI: while the stand is busy the scenario is not waited for even if the run in question has
  ended and another person's keeps it; a run that ends before the recovery looks is played twice
  (against `decide.ts:86`); two jobs of one account may adopt each other's run.
- kafka-lab: the report of dead letters prints no refusals without having looked (`dlq.ts`), that of
  order prints the loss of order without a key; a crash in `commits.ts` is taken for the planned one;
  `dropGroups` repeats names already deleted and may fail to the end, leaving the topics
  (`lab.ts:102`); a second start right after a killed one fails while its dead members live.

## 6. Plan

Done: the path of a frame with its proofs, its episodes included; the line, its simulator and its
panel, the handover of states and the events of a device, commands, redrives and replays, the buffer,
the session, the stream, the limit of the login and the screens, the runs of scenarios, each with its
proofs; CI, the lab and the pure parts, by TLC.

Next, in this order:

1. Proofs. For `Ingest`, which of the three properties of the episodes survives which of the other
   faults alone. The filter of `Readings` and the catching up of `SimWorld`, with their loops written
   as steps of the specification, so that an invariant takes the place of induction over data.
2. `DeviceHealth`: the mode of a device, its doors and the order of states in the topic.
3. `LineWorker`: changes of plan and interval between passes; the ladder of the breaker in numbers,
   shown to implement its four states.
4. Composition: `Publisher` before `Ingest`, where a repeated batch meets the idempotent write.
