# A TLA+ verification of the streaming threat detector

The program replays a packet capture through Zeek, reads the events that Zeek's
policy prints, runs three detectors on them and emits alerts, on the command line
or through a local API with a dashboard. Offline tools prepare the data and train
the model of the third detector, and measure a replay. This directory holds TLA+ modules of the
parts that keep state, the TLC configurations that check them on small instances,
and proofs, checked by TLAPS, of what matters most for every value of the constants.

`tlc -config X.cfg M` runs a check (the table below pairs them), `tlapm M.tla`
checks the proofs of a `*Proofs` module. `PROJECT.json` maps every definition to
its source lines.

## 1. Inventory

| Part | Source under `src/src/sih26145/` | State it keeps | Operations |
|---|---|---|---|
| Port-scan window | `detection/scan_window.py` | watermark, global deque, per-source deque and three counters, UID table | `observe`, `rollback_last_observation` |
| Port-scan detector | `detection/port_scan.py` | cooldown table by source | `process` |
| SYN-flood window, detector | `detection/syn_flood.py` | the same by target, with one counter and a running log-sum | `observe`, rollback, `process` |
| DGA detector, model | `detection/dga.py`, `ml/` | none after loading | `process`, `extract_dns_features` |
| Pipeline | `detection/pipeline.py` | the detectors | `process` |
| Replay runner | `replay.py` | buffer, accounting, deadlines, child, drainer thread | `run_command`, `run_replay` |
| Stderr tail | `replay.py` | chunks, size, lock | `append`, `snapshot` |
| Zeek policy | `zeek/emit_events.zeek` | count and time of the events emitted | event handlers, `zeek_done` |
| Alert store | `alert_store.py` | bounded deque, lock | `add`, `snapshot`, `stored_count` |
| Local API | `api.py` | replay lock, store | `list_alerts`, `replay_fixture` |
| Dashboard | `dashboard/dashboard.js` | `replaying`, `pollTimer`, what is shown | `refreshAlerts`, `runReplay`, `schedulePoll` |
| Contracts | `contracts/` | none | validation |
| Command line, runtime | `cli.py`, `runtime.py` | none | one replay and its exit status |
| Dataset and model tools | `src/tools/prepare_dns_dataset.py`, `train_dga_model.py`; `ml/dga_model.py` | four files: dataset, manifest, artifact, metadata | `prepare_dataset`, `train_and_export`, `DgaModel.load` |
| Benchmark | `src/tools/run_benchmark.py`, `generate_benchmark_fixture.py` | private copy, sample lists, pipe, exit status | driver, generator process, worker process |
| Milestone fixture generators | `src/tools/generate_milestone*_fixtures.py` | none | constant captures |

How they interact:

- The runner starts Zeek, reads its stdout line by line, calls the pipeline for
  each event and the alert callback for each alert; a drainer thread empties
  Zeek's stderr into the tail. The policy ends its stream with a sentinel
  (end of stream, EOS) whose accounting the runner compares with its own.
- The pipeline calls the port-scan and then the SYN-flood detector. An exception
  of either leaves the call at once.
- The API calls the runner with `AlertStore.add` as callback, in the one event
  loop that also serves listings. Each browser tab polls the listing and may
  submit a replay.
- The tools speak to each other, and to the running program, through files only: a
  manifest vouches for a dataset, a metadata file for an artifact, each by a hash.
  The benchmark asks the generator, in a process of its own, for the capture it
  would produce now, checks a candidate file against it, and has a worker process
  replay a private copy. Generator and worker each load the packaged model.

Where it is hard: windows and tables that expire, roll back and meet their limits
in one call; two detectors that reject independently; a child process that may do
anything, at any time, against several deadlines; a thread that shares a pipe and
a buffer; polling whose answers come late or out of order, around replays and
restarts; tools that are killed between the two files they keep in step, and files
that change while they are read. `PROJECT.json` lists each hazard at its line, with the properties that
are about it.

## 2. The modules

### Detection

- **`TimedQueue`**: the loop that pops old entries off the front of a deque or
  ordered dictionary. It is modelled as it is: an old entry behind a young one
  stays. That the queues are sorted is a property of their callers, checked and
  proved, not assumed.
- **`PortScan`**: one step is one call of `process(event)` to its return or
  exception; `result` is what the caller sees. The actions are the exits of the
  call: `RejectRegression`, `IgnoreDuplicate`, `RejectAtLimit` (in the code's order
  of checks, after the expiry), `RecordQuietly` (below the threshold or in the
  cooldown), `RollBack` (no room in the cooldown table) and `RaiseAlert`. Counters
  are bags, so a key at zero is a key that is gone. A call that raises may be
  followed by another: the detector is a library, and its state after an exception
  is part of its contract (the tests call it again).
  `EvidenceIsValid` is the alert contract's validator (`contracts/alerts.py`) on the
  evidence of an alert: it recounts what the counters of the window say.
- **`SynFlood`**: the same for `syn_flood.py`, with the log-sum of a target's
  counter as the code keeps it. `Log2` stands for the logarithm in a unit that makes it
  whole numbers, and may be any function with `Log2[1] = 0` that satisfies the log-sum
  inequality (`LogAssumption`); `CountLog` is `_count_log_count` on it. Its
  `EvidenceIsValid` recounts an alert's events and sources in the window and has the
  contract's last check too, that the entropy is at most log2 of the sources
  (multiplied out, since the model has no fractions).
- **`DetectorAbs`**: what both detectors promise, on sets: every measurement is
  counted from scratch, every expiry is a filter by age, a rejected call only lets
  time pass. `PortScan!ImplementsAbs` and `SynFlood!ImplementsAbs` are the
  refinements (deque to set, ordered dictionary to function, expired cooldown
  entries invisible: `Cooling`). A cooldown of no time, which `ScanConfig` and
  `SynFloodConfig` accept, silences nothing although the code enters the alert in
  its table (`Silenced`).
- **`Pipeline`**: both detectors as instances over one event. `ScanRaises`,
  `FloodRaises` and `BothReturn` are the exits for a SYN, `ProcessDns` the DGA path,
  on any query that the event contract accepts.
- **`DnsName`**, **`Dga`**: the detector without state, as operators. `DnsName` is the
  normalization of query names and the lexical features of a name, over a few
  characters that stand for the classes the code tells apart; `Dga` is the alert and
  what its contract demands of it, which normalizes, extracts and grades once more.
  `Pipeline` extends `Dga`, and its properties speak of the alerts that a call returns.
- **`AlertTime`**: the one place where the unit of time matters, so it has a clock
  of fractions of microseconds. The other modules count time in whole microseconds.
  Values in the code are binary floats; at capture times of today a float is within
  0.12 µs of the microsecond it stands for, so times that differ by other than a window,
  a TTL or a cooldown compare as integers do, and so do those that differ by exactly one
  when it is whole seconds, as every default is. Exactly one window, TTL or cooldown of a
  fraction of a second apart they may not: with a window of 0.1 s, an attempt at
  1700000000.1 is dropped at 1700000000.2 (`scan_window.py:206`), which the models keep.

### Replay

- **`Replay`**: the runner with an arbitrary child. `written` is all that the child
  has written to stdout; the pipe and the runner's buffer are slices of it, so no
  byte is kept twice. A unit is an event, a sentinel (right, one too many, or with a
  wrong time), an invalid record or a piece of a line. `pc` follows `run_command`:
  `reading` and `emitting` (the loop), `accounting`, `awaiting_exit`,
  `awaiting_stdout`, `joining` (after EOS), then the `finally` clause. `idle` counts
  down to the inactivity deadline of a read, `left` to the post-EOS deadline, `wait`
  is the timeout given to the call that blocks now (the wait after SIGKILL has none, and
  ends with the child). The child may stall, die, ignore SIGTERM, and leave a descendant
  that holds both pipes; either may write as long as there is a reader. `MaxUnits` bounds
  what they write but not how long: `ChildWritesOn` is a writer that goes on for ever
  with events, of which only the restarted deadline is kept. Detectors and callback are
  a choice of their outcomes. A blank line, a malformed one and an unterminated last
  one are all `invalid`. After the sentinel the runner judges the first line of what it
  reads (`AfterEos`): pieces of a line with the sentinel that ends it are data, and no
  second sentinel. Closing stdout in the `finally` clause is part of the step that has
  reaped the child (`StdoutClosed`).
- **`StderrTail`**: `append` one loop iteration per step, under its lock; a byte is
  its position in the stream.
- **`ZeekReplay`**: `Replay` with Zeek and its policy in place of the arbitrary
  child, to show what that child cannot: that a replay succeeds. It extends
  `Replay`, so the runner is the same.
- **`Cli`**: extends `Replay` with `main` around it: a configuration that is refused
  before the replay, and the exit status that a caller reads off the result.
  `CliSpec` is what the `replay` run checks, so every property of the runner is
  checked with it.

### Dashboard

- **`AlertStore`**: the store's operations on a sequence, used by `LocalApi`.
- **`LocalApi`**: the server. Its handlers are coroutines that never await, so a
  listing is one step and a replay occupies the loop from `BeginReplay` to
  `EndReplay`. A request and its answer are one message that the network delays and
  reorders. A restart clears the store and fails the requests not yet answered; an answer
  already sent may still arrive. The body of a listing has two fields that the code's has
  not: the number of alerts emitted when it was made and the server's life it is of,
  against which `ListingIsSound` judges it.
- **`Dashboard`**: the script in each tab, one step from await to await.
  `schedulePoll` overwrites `pollTimer`, so a timer may lose its name: `timer` is
  the one that `pollTimer` names, `strays` counts the others, which nothing can
  clear. Timers of one delay fire in the order they were armed, strays first.

`ReplayCoordinator` refuses a replay while another one holds its lock. It takes the lock
and releases it, in a `finally` clause, within one call, and the coroutines that call it
never await: no request of the shipped server finds the lock held. So the model has
neither the lock nor the refusal.

### Tools

- **`ModelBuild`**: `prepare_dns_dataset.py` and `train_dga_model.py` over the four
  files they keep. `Select` reads a snapshot of the sources as the reading loops do
  (`Take` is one turn of one): lines that are refused, names that come twice or with
  both labels, limits, families without a name. `Split` puts DGA rows by whole family
  and benign rows by the hash of their name into the test part. A run of a tool is
  several steps, one per opening and per write of a file, since opening truncates;
  `Killed` may come between any two and leaves the files as they are, the dataset
  perhaps cut short. `Loads` is `DgaModel.load`'s acceptance. The hash of a file is
  its content, and a fitted model is the rows it was fitted on, which makes two
  models equal only if they were trained alike.
- **`Benchmark`** extends it with `run_benchmark.py`: `phase` follows the driver
  (`starting` to `spawning`) and then the worker (`replaying`, `emitting`). The copy
  loop reads a packet per step from the descriptor (`source`), which follows the file
  at the path only while it is `linked` to it; `Replace` and `Rewrite` change the
  candidate at any time. `start` and `samples` are the measuring clock and
  `samples` list, `sink` the pipe into which the worker writes its own alerts and
  which `DrainSink`, a thread, empties. The steps of `ModelBuild` go on beside it, so
  the generator and the worker may load different models. A capture is a sequence of
  packets, and Zeek's part is that a packet becomes an event or is lost.

A definition whose comment begins with "Faulty" is a plausible mistake in the
definition after it. None is used by the specifications; put in the place of the
right one, each violates the property it is listed with in `PROJECT.json`, which
shows that the property can be broken.

## 3. The runs

| Run | Module, configuration | Checks | Bounds |
|---|---|---|---|
| `scan` | `MCPortScan`, `PortScan.cfg` | `TypeOK`, `EvidenceIsValid`, `NoDoubleCount`, `WindowSound`, `SourcesMatchWindow`, `TablesWithinLimits`, `RejectionLeavesNoTrace`, `AlertSpacing`, `ImplementsAbs` | three sources, two hosts, four UIDs, times 0 to 3, every limit small enough to be met |
| `flood` | `MCSynFlood`, `SynFlood.cfg` | `EvidenceIsValid`, `NoDoubleCount`, `TargetsMatchWindow`, `ImplementsAbs` | two sources, two targets, four UIDs; logarithms in thousandths |
| `pipeline` | `MCPipeline`, `Pipeline.cfg` | `FloodFollowsScan`, `DgaAlertsAreValid`, `RunsAreLongest` | both detectors, every limit met; every query of up to 5 characters of five classes, where a name may have 3 |
| `pipeline_alerts` | `MCPipeline`, `PipelineAlerts.cfg` | `EveryAlertReturned`: violated | the same |
| `alert_time` | `MCAlertTime`, `AlertTime.cfg` | `AlertFitsWindow`: violated | quarters of a microsecond, a window of 3.25 µs |
| `replay` | `MCReplay`, `Replay.cfg` | `TypeOK`, `SuccessIsComplete`, `DiagnosisIsTrue`, `ChildReaped`, `NoFreshBudget`, `StatusIsTrue`, `LateMeansLate`, `Ends`, `DrainerEnds` | 3 units and events without end after them, a pipe of 2, lines of up to 2 units, deadlines of 2 ticks |
| `replay_drainer` | `MCReplay`, `ReplayDrainer.cfg` | `NoDrainerLeft`: violated | 2 units |
| `zeek` | `MCZeekReplay`, `ZeekReplay.cfg` | `ZeekReplaySucceeds` | 5 units, 2 chunks of stderr on a pipe of 1 |
| `stderr_tail` | `MCStderrTail`, `StderrTail.cfg` | `KeepsLatest`, `SnapshotExact` | a tail of 4, chunks of 1 to 6, 12 bytes |
| `dashboard` | `MCDashboard`, `Dashboard.cfg` | `TypeOK`, `StoreIsNewest`, `ListingIsSound`, `PollingNeverStops`, `OneReplayPerTab`, `ShowsLatest` | two tabs, at most two listings under way per tab, two replays, a restart, a store of 3, listings of 2, four alerts before a restart and three after |
| `dashboard_overlap` | `MCDashboard`, `DashboardOverlap.cfg` | `PollingDoesNotOverlap`: violated | one tab, one replay, no restart |
| `tools` | `MCBenchmark`, `Benchmark.cfg` | `LoadedModelIsAccountedFor`, `MetadataIsTrue`, `ReplayedIsValidated`, `ReportIsHonest`, `BenchmarkEnds` | three runs of the tools on three snapshots, after a model of a fourth; a candidate among three captures, a FIFO or missing, changed once; 5 events measured, a pipe of 1 |

What the passing runs show: the detectors count, expire, reject and alert exactly as
a count from scratch over a set would; a replay ends unless it is fed for ever, tells
the truth about how, in its diagnostic and in the exit status, and leaves no child
behind; the server and its tabs stay right through delays, reordering and a restart; and no
order of kills, runs and file changes makes a model load under a description of
another one, or a benchmark report what it did not measure.

Why the bounds are enough:

- *Detectors.* The actions depend on the order of timestamps, on equality of UIDs
  and addresses, and on counts against limits. With a window of one unit and times
  up to three, entries stay, expire and are admitted again within one run. The TTL
  is longer than the window for the port-scan detector (the table remembers what
  the window has let go) and equal to it for the SYN-flood detector (the boundary
  at which a repeated UID is admitted as its flow leaves). Every exit of `process`
  and every limit is reached. `Symmetry` permutes addresses, ports and UIDs, which
  are only compared for equality.
- *Query names.* Queries of up to 5 characters where 3 are allowed are refused and
  accepted on both sides of the length limit, with and without the final dot. Three
  characters leave room for a run inside a label, at its end and across a dot.
- *Replay.* A success needs one event and a sentinel; the third unit is an event
  out of order, a second sentinel or data after it, and a pipe of two makes the
  child block. A sentinel, a piece and a second sentinel that ends its line fit in three
  units, and so does a line longer than `MaxLine`. Deadlines of two ticks with a reserve of one separate "expired",
  "within the reserve" and "in time".
- *Dashboard.* The script's hazards need a listing under way beside a replay, which
  two slots per tab allow, and the replay of another tab at the same time. Four
  alerts overflow a store of three, and a listing of two leaves out some of what is
  stored, as the dashboard's 50 of 100 do; three fill it again after a restart, beside
  listings from before it.
- *Tools.* Three runs are a `prepare` that is killed or completed, a training of it
  that is killed or completed, and one more of either: enough for an old manifest
  beside a new dataset, an old metadata file beside a new artifact, and the training
  of another model between the generator and the worker. The snapshots have
  duplicates, refused lines, both limits met, a name of both labels with an
  unreadable line, and names that cannot be split. The captures are the fixtures of two models
  and one of the right length and wrong content, and `Rewrite` appends to any. One
  change of the candidate can fall before, within or after the copy. One of the two
  models' fixtures is longer than `MaxMeasured`, so that the cap is met.

`CHECK_DEADLOCK FALSE` is set for `AlertTime`, whose stream of events ends with the
bound on time, and for `Benchmark`, whose processes end. `Finished` stands for the return of `run_command`, so that
any other stop of `Replay` is a deadlock.

Bounds in guards: `MaxUnits`, `MaxErr`, `MaxTime` (`Replay`), `MaxTotal`
(`StderrTail`), `MaxTime`, `MaxEvents` (`AlertTime`), `Slots`, `MaxAdded`,
`MaxReplays`, `MaxRestarts` (`LocalApi`, `Dashboard`), `MaxRuns` (`ModelBuild`),
`MaxChanges` (`Benchmark`; there the tools run before and beside the benchmark, not
after it). `MaxMeasured` is the code's own limit. `PortScan` and `SynFlood` need none: their limits bound them, and
`Time` is a finite set.

## 4. Fairness

- `Replay!Spec` is fair to the runner, the drainer and the clock, and grants that a
  process that was sent SIGKILL dies. Nothing is granted about the child or its
  descendant otherwise: that is the point of `Ends` and `DrainerEnds`. One thing keeps a
  replay from ending, and `Ends` names it: the runner is in the loop before the sentinel
  and a chunk restarts its deadline again and again (`replay.py:144`), for which the code
  sets no limit.
- `PromptSpec` lets time pass only while no thread can run, so that a violation of
  `NoDrainerLeft` is not one of a starved thread.
- `ZeekSpec` assumes that Zeek and the threads run before a deadline comes nearer,
  and that no detector and no callback raises.
- `Dashboard!Fairness`: every request is served in the end, every answer arrives or
  fails, an armed timer fires. A replay ends because `run_command` does (`Ends`): the
  approved fixtures are finite, so Zeek does not feed it for ever. Nobody has to submit a replay. `fetch` has no timeout, so a request that is never
  answered would stop the polling of its tab; this is the one assumption here that
  the code does nothing to justify.
- `Cli!CliSpec` has the fairness of `Replay!Spec`. A configuration need not be refused.
- `Benchmark!Spec` is fair to the driver and its worker, taken together since one
  waits for the other, and to the draining thread. Nothing is owed by who changes
  files, by the other tools or by a timeout: `BenchmarkEnds` holds without help from
  them. That the worker's replay ends is `Ends`: a capture has finitely many packets.

The other specifications state no fairness: a detector does what it is asked to.

## 5. The proofs

TLAPS proves, for every value of the constants that satisfies the named
assumptions, the theorems listed in `PROJECT.json`. The assumptions are what the
constructors validate, what the code writes down as a constant, or the shape of a
model's data: `TimeAssumption`, `LogAssumption`, `NamesAssumption`, `RawName`
(a query name is a sequence of characters, in `DgaConstants`), `SnapshotsAssumption`
(a source is a list of lines; the families of a snapshot are distinct, as in
`DEFAULT_DGA_FILES`, and none is called `benign`) and `PackagedAssumption` (the model
in the repository was trained, so its selection did not fail and could be split).
`TestFamilies` and `TestBenign` may be anything: what is proved of a split does not
depend on the seed or the hash. Every
safety theorem `Spec => []P` below follows the same argument: an inductive invariant
holds at first, survives every action, one lemma per action or group of actions, and
implies `P`. What the invariant adds to `P`, and why `P` needs it:

**`PortScanProofs`** (with `TimedQueueProofs`), from the assumptions of `PortScan`
alone.

- *The queues* (`TypeCorrect`, `FlowsCountedOnce`, `WindowIsSound`, `TablesBounded`,
  `AlertsSpaced`, `RejectionsLeaveNoTrace`).
  `NoDoubleCount` is not inductive: whether an event may be admitted is decided by
  the UID table, which forgets. The invariant `IInv` adds that every attempt in the
  window has its entry in the table, with its timestamp and under a key that occurs
  once (`WindowConsistent`), and that both queues are sorted, so that the expiry loop
  leaves nothing old behind. An attempt within the window then has an entry within
  the TTL, because `Window <= DedupTtl`, and its UID is refused.
- `AlertSpacing` needs the cooldown table sorted and without duplicates
  (`CooldownConsistent`). It stays so because a source still in the table after the
  expiry is suppressed: `Put` only ever appends (`AlertIsAppended`). The code's
  branch that assigns to a key already there is never taken.
- The parts of `IInv` take the state as parameters, so that they also hold of the
  state between the expiry and the insertion inside one call: `ExpiryKeepsWindow`
  and `InsertKeepsWindow` are proved once and every action uses them. `RollBack` is
  the expiry alone, because the front of an append is the queue itself
  (`FrontOfAppend`).
- *The states of the sources* (`StatesMatchWindow`, `EvidenceAlwaysValid`): deque and
  counters of a source are the projection of the window on it, counted. The code
  keeps them by increments, so the proof follows them through every loop: recording an
  event, forgetting the oldest one, once per turn of the expiry loop (`Turns`,
  `TurnsMatch`), and undoing the newest one (`UndoRecord`) all keep `Match`. The
  contract's validator then finds in an alert's evidence what was counted
  (`SnapshotIsSound`).
- *The bounds* (`TablesBounded`): those of the two queues and of the cooldown table
  are in `IInv`; that of the number of sources and of each source's deque
  (`Bounded`) needs the states to match the window, since what an expiry does to
  them is known only through it.
- *The refinement* (`SetsAreImplemented`): `Spec => ImplementsAbs`, every call is a
  step of `DetectorAbs`. `AgedWindow` and `AgedCooling` turn the expiry loops into
  filters by age, which needs the queues sorted and each key once;
  `SnapshotIsEvidence` says that counters and deque of the source measure the set;
  `FullIsExceeded` that the four limits agree with those counted from scratch. The
  abstract detector asks whether the sources with the new one are too many, the code
  whether a new one meets a full table: the two agree only because of `Bounded`.
  `RefinementStep` then takes each exit of `process` to its abstract action. A limit
  of the window leaves expired cooldown entries behind and every other exit drops
  them, which `Cooling` cannot tell apart (`SuppressingAges`).

**`SynFloodProofs`**: `FlowsCountedOnce`, `TargetsAlwaysMatch`,
`EvidenceAlwaysValid`, of the same shape by target, from the same lemmas on queues
(`UidWindowExpiry`, `UidWindowInsert`). What is new is the log-sum, which the code
corrects by differences and the property recounts. The recount is a sum in an order
that `CHOOSE` picks; that the order does not matter (`SumSplits`) lets one source be
split off (`LogSumSplits`), so that taking out a source's old weight and adding its
new one is exact (`LogSumMoves`). The invariant has `MaxEventsPerTarget` as the bound
of every count, for beyond it nothing is known of `Log2`. `EvidenceAlwaysValid` adds the
bound on the entropy: among the sources of a target, taken one by one, events times
log2(events) less the log-sum stays at most events times log2(sources), by the log-sum
inequality for one source more (`SpreadGrows`, `EntropyIsBounded`). That inequality is
the only fact of logarithms assumed; a logarithm given prime by prime in a fine enough
unit satisfies it up to any bound. Its
`SetsAreImplemented` is the refinement again, with `CooldownInv` and `Bounded` as
parts of the invariant, and with the sum of the entropy among the evidence: it is the
sum over the sources of the set of events, each with its number of events in that set.

**`TimedQueueProofs`** has the lemmas about loops (`InductionUpTo`, `LoopExists`) and
about counts over a list (`PositionsOfAppend`), and those that both refinements need,
on entries of any kind: a sorted deque as a set (`SetOfUnexpired`, `SizeOfSet`,
`ListedSet`, `FrontIsMin`), an ordered dictionary as a function
(`FunctionOfUnexpired`, `FunctionOfAppend`), a cooldown table as the entries that
suppress (`SuppressingAges`, `SuppressingStarts`), and a count over the positions of a
deque as the one over its set (`TallyOfSet`).

**`PipelineProofs`**: `FloodIsNeverAhead` follows from the types of the two
watermarks alone: the flood detector is asked only when the scan detector has taken
the event's time. `DetectorsAreImplemented` maps every step of the pipeline to a step
or a stutter of each detector, so that, under the assumptions of `PortScan` and
`SynFlood`, what is proved of them also holds of the detectors in the pipeline.
`DgaAlertsPass` and `RunsAreTheLongest` are about query names of any length, any
characters, any dots. The invariant of the state is simple, and a theorem of its own
(`AlertsAreMade`): a DGA alert was made for some name that passed the event contract.
The work is in the loops over that name:

- `Placed` says where each label of `split` lies in the name, turn by turn: the last
  one reaches up to the character read, from a dot or from the beginning, and
  characters without a dot between them are in one label (`LabelsArePlaced`). From it,
  a name that passed has no empty label and no final dot, so normalizing it again
  changes nothing (`NameIsNormalized`), which is why the alert contract accepts it.
- `Counted` says what the two counters of `_longest_run` have seen of a label,
  `LongestIn` and `LongestOf` what they leave behind after it and after all of them.
  With `Placed`, that is the longest stretch of the whole name (`LongestRunIsStretch`):
  no run crosses a dot, and none is lost at the end of a label.
- `FeaturesAreInRange` bounds every feature: no more characters of a kind than
  characters, no more different bigrams than bigrams, and at least one of each where
  the contract asks for one.

**`CliProofs`**, of the runner with its command line, for any number of units, any
pipe and any deadlines: `TypeCorrect`, `SuccessfulReplaysAreComplete`,
`DiagnosticsAreTrue`, `NoChildIsLeft`, `OneDeadline`, `ExitStatusIsTrue` and the action
property `LateOnlyWhenLate`. None of them is inductive; what is true depends on where
`run_command` is. `ProcessInv` says for each place what the child and the drainer can
be there (from `awaiting_stdout` on the child is reaped; a drainer that is dead
though nobody told it to stop has met the end of stderr), `StreamInv` what has been
read of the stream (events in order up to the last unit parsed, no sentinel before
`eos`, which facts a result stands for, for each of the sixteen diagnostics), and
`DeadlineInv` that every timeout handed to a call is at most what is left of the one
deadline. (`OneDeadline` says nothing of a wait that has no timeout: the code waits for
a child it has killed until that is gone.)

**`DashboardProofs`**, of the server and its tabs, for any set of tabs, slots,
replays and restarts: `TypeCorrect`, `StoreHoldsNewest`, `ListingsAreSound`,
`PollingGoesOn`, `OneReplay`. `OneReplayPerTab` speaks of the tabs and the network, and
needs the server's part in it: `NetInv` says that a request has one message in the
network (`OnePerRequest`), that a replay which occupies the loop has its request under
way (`ActiveInv`), and of every answer what its listing was (`ListingInv`, which is
`Sound` and the types it needs); `ReplayingInv` that a tab is replaying exactly while it
has a replay there. `PollingNeverStops` is inductive beside them.

**`StderrTailProofs`**: `TailIsExact` and `SnapshotsAreExact`, for every capacity and
chunk length. Inside the loop of `append` only `size >= Latest` holds of the size;
`IInv` says so, with adjacency of the chunks (`ChunksCover`: they form one interval)
and the size being that interval's.

**`BenchmarkProofs`**: `ModelIsAccountedFor`, `MetadataTellsTheTruth`,
`ReplayIsValidated` and `ReportsAreHonest`, of `Benchmark!Spec` with any sources,
limits, captures, scores and candidates.

- That a model which loads is the one its metadata describes is not inductive: the
  dataset and manifest files may change while a model is trained and written.
  `BuildInv` follows the job instead: from the check of the manifest on, it is the
  split of the dataset its manifest names (`JobIsSplit`); between the two writes the
  artifact is the model of that split (`ArtifactIsFitted`); and a metadata file names
  the hash of such a model whether or not that artifact is still there
  (`MetadataNamesModel`). A kill only leaves that state, and `Loads` then says that
  the artifact is the one named.
- `MetadataTellsTheTruth` has two halves. One is about a selection: `Taking` is what
  each turn of a reading loop keeps (no name twice, `counts` and the list of families
  those of the rows, `taken` the rows of the family being read) and `Listing` what
  holds between two sources, where it matters that no family is read twice. So
  whatever the lines, `Select` tells the truth about its rows (`SelectionIsTrue`), and
  a split, which puts every row in one part, keeps families and names apart
  (`SplitIsTrue`). The other half is `FilesInv`: a readable manifest is that of a
  selection, because prepare writes it when the dataset holds the rows of its job
  (`DatasetIsSelected`); a training job has such a manifest, and its rows could be
  split (`JobCanSplit`); so readable metadata describes one (`MetadataIsOfManifest`).
- `ReplayInv` follows the bytes: the copy equals the generator's capture from its
  validation on (`CopyIsChecked`), the worker starts with nothing replayed, and its
  input stays an end of that capture. The candidate file does not occur in it.
- `ReportInv` follows the measurements: what was replayed is the front of the capture
  as long as no packet was lost (`NoneLost`), and the alerts answer the packets
  replayed, all but the one whose alert is being emitted (`AlertsAnswer`). At the end
  the number of events is that of the capture, so nothing was lost, and the number
  of alerts that of its names (`FixtureCounts`).

How the model is written for it: the loops of the detectors, of the log-sum, of the
generator, of `split` and `_longest_run`, of the selection and of the split are
recursive functions in a `LET`, which a proof can unfold, and not folds or `SelectSeq`,
whose operator arguments the prover cannot expand. A loop that stays in a set has a
value after each turn (`LoopExists`), and `InductionUpTo` is induction up to a number
on a set instead of a predicate. The bags of the community modules are taken as
`Bag == INSTANCE BagsExt`, since the prover loses a backend in a module that reaches a
`RECURSIVE` operator.

Only model-checked:

- `ZeekReplaySucceeds` and `AlertFitsWindow`, which state fairness or are refuted;
- liveness (`Ends`, `DrainerEnds`, `ShowsLatest`, `BenchmarkEnds`): liveness under
  fairness and `ENABLED` are out of this prover's reach.

## 6. Where code and documents disagree

1. `pipeline_alerts`: when the flood detector meets a limit, the scan alert of the
   same event is lost, though `pipeline.py:23` promises every alert produced.
2. `alert_time`: with timestamps finer than a microsecond, an alert can be refused
   by its own contract, because membership of the window is decided on the
   timestamps as given and the contract on rounded ones (`docs/features.md:74` says
   they share their precision).
3. `replay_drainer`: once the post-EOS deadline has passed, the drainer is told to
   stop but not waited for, and stderr is closed under it.
4. `dashboard_overlap`: a listing under way at a submission and answered after the
   replay arms a timer beside the listing with which the replay ends, and the tab has two
   listings under way at once (`docs/architecture.md:78`: "non-overlapping"). It need not
   last: the next `refreshAlerts` clears the timer that `pollTimer` names
   (`dashboard.js:183`), so the two chains can become one again.

Worth knowing, though no run is needed to show it: the runner reads nothing
while it waits for the exit after the sentinel, so a child blocked on a full stdout
fails as `post_end_of_stream_timeout`; and a descendant of the child that keeps
stdout open has the same effect. And the docstring of `run_benchmark.py` (line 55)
says that the candidate's size "is checked before any of its bytes are read", where
`_copy_validated_pcap` reads up to one byte more than the expected size and checks
then (`CopyPacket`, `Validate`). That no file is too long to be read rests on that
limit, which the model has but does not put to the test: its files are finite
(`MaxChanges`), so `BenchmarkEnds` would hold without it.

## 7. Not modelled

- *Detectors*: the arithmetic of the DGA model, its hashed n-grams and the entropy of
  a name, confidence and severity of scans and floods, samples in alerts,
  floating-point drift of the entropy, float comparisons at the exact end of a window, TTL
  or cooldown of a fraction of a second (see `AlertTime` in section 2), the declarative
  field validators, JSON.
- *Program*: the text and layout of the dashboard, the HTTP guards (host, origin,
  action header), which keep no state, the replay lock and its refusal, which the one
  event loop never comes to, fixture paths, temporary directories, the
  parsing of the command line's options and the wording of its diagnostics.
- `emit_syn_attempts.zeek`, the older policy, which the program does not run.
- *Tools*: the fit and its evaluation, the percentiles and the CPU and memory
  figures, which are arithmetic on samples; the encoding of packets; the generator's
  own writing of files; a candidate that grows for ever; the bound on the size of the
  worker's manifest. The
  milestone fixture generators write constant captures byte by byte, with no state
  and no choice.
- Two reads of one file: `train` hashes the dataset and then opens it again, and
  `DgaModel.load` hashes the artifact and then loads it. Each pair is one step here,
  which is right as long as the tools run one at a time, as their users do.
- `fetch` without a timeout: see the fairness of `Dashboard`.

## 8. Plan

Done, in this order: `TimedQueue`, `PortScan`, `DetectorAbs` and the refinement, the
proofs of `PortScan`; `SynFlood`; `Pipeline`; `Replay` and its runs; `ZeekReplay`;
`StderrTail` and its proofs; `AlertStore`, `LocalApi`, `Dashboard`; `AlertTime`;
`DnsName` and `Dga`; `Cli`; `ModelBuild`, `Benchmark` and their proofs; the proofs of
`Cli`, `Dashboard`, `Pipeline` and `SynFlood`, of the states of sources and of the
benchmark's report; the proofs of both refinements; the proofs about the names and
alerts of DNS queries and about the metadata of a model.

Next, extending the model:

1. A composition of `Replay` with `Pipeline`, so that `DetectorRaises` and the alerts
   of an event are those of the detectors and not a choice.
2. An abstract specification of a replay (events in, alerts out, one verdict) that
   `Replay` implements, and one of the API that `LocalApi` implements.

Next, proving more: every safety property and action property that a passing run checks
is a theorem. What is left needs another prover, for the liveness properties, or the
extensions above: each brings a refinement to prove.
