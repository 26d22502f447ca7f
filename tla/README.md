# LinSight: TLA+ specification and proofs

A model of LinSight: the `linsightd` daemon, the plugins it samples, the
Prometheus exporter, the tunnel, and the clients (GUI and CLI). It is checked
with TLC on small instances; every safety property the passing runs check, and the
scheduler's refinement, is also proved with TLAPS for every value of the
parameters. File and line references are to `src/`.

## 1. The system

`linsightd` samples sensors for its clients and pushes the samples to them over
a Unix socket. Its parts:

| Part | Source | State | Operations | Who calls it |
|---|---|---|---|---|
| Scheduler | `apps/linsightd/src/scheduler.rs` | per sensor: refcounts by period, cached fastest period, due time, strikes | `subscribe`, `unsubscribe`, `tick_plan`, `tick_commit` | read loops and the sampler, under one mutex |
| Client sessions | `transport/unix.rs` (`accept_loop`, `serve`) | client map, per-session ledger of tokens, bounded outbound queue, session counter | accept, handshake, subscribe, unsubscribe, requests, teardown | one read-loop and one pump thread per connection |
| Sampler | `transport/unix.rs` (`spawn_sampler`) | the tick in flight | plan, sample, commit, fan out | one thread |
| Sampling pool | `transport/unix.rs` (`SamplingPool`) | job and result channels, workers | `sample`, worker loop, `Drop` | the sampler |
| Hardware registry, nicknames | `hardware.rs`, `nickname_store.rs`, `linsight-core/atomic_write.rs` | overlay of nicknames, `hardware.json` | load, `SetNickname` (apply, save, confirm, broadcast) | read loops, under an `RwLock` taken anew for each step |
| Alert engine | `alerts.rs` | rules, their debounce and cooldown, event ring | `on_sample`, upsert, delete, save | `tick_commit`, read loops |
| History | `history.rs` | bounded channel, batch, SQLite file | record, flush, prune, query | `tick_commit`, read loops, a writer thread |
| Plugin host, SDK, sensors | `plugin_host.rs`, `linsight-plugin-sdk`, `linsight-sensors` | plugins, descriptors, counters between samples | load, register, sample | start-up, pool workers |
| Prometheus exporter | `prom.rs` | connection count | scrape | HTTP threads |
| Protocol | `linsight-protocol` | a frame buffer | read and write frames, handshake | both sides |
| GUI client and models | `linsight-gui` | requests in flight, catalogue, dashboards, preferences | connect, request, dispatch | Qt thread, reader thread, workers |
| Tunnel | `linsight-tunnel` | connection permits | accept, copy, drain | tasks |
| CLI | `linsight-cli` | none | sequential protocol client | |

How they interact: a read loop calls `subscribe`, keeps the token in its ledger
and gives it back with `unsubscribe`. The sampler plans a tick under the
scheduler mutex, samples through the pool with no lock held, commits under the
mutex again, takes a snapshot of the client map, and offers each sample to the
ledgers' owners with `try_send`. The pumps write the queues to the sockets.

What makes it hard: every one of those critical sections interleaves with those
of all other threads; results are committed to a table that has changed since
the plan; static sensors are sampled once and then parked, so a reading missed
is missed for good; plugins may hang; the daemon may die between the steps of a
save; and the clock is the wall clock. PROJECT.json lists the hazards line by
line with the properties that would catch each.

What makes each part correct:

- scheduler: an entry exists exactly while a token is out; its period is the
  fastest one held; only a static sensor that was read is parked; no back-off
  outlives the period it was earned at;
- sessions: refcounts, client map and session counter balance at all times; a
  leaving session winds down; every subscriber is offered a first reading;
- pool: an answer counts only for the call it was made for; jobs are neither
  lost nor doubled; `sample` and `Drop` end;
- nicknames: the file is never torn; registry, file and clients agree after a
  request that runs alone;
- alerts: an evaluation is applied to the rule it was made for; events alternate
  and respect debounce and cooldown; the file follows the rules;
- history: an accepted record stays until it is replaced or too old; events and
  samples go to one writer; a down-sampled query is evenly spread;
- plugin host: an instance is initialised once, with its configuration, and not
  used after its shutdown; catalogue and hardware registry are what was declared;
- sensors: a reading is of the files it was registered for and no older than the
  snapshot allows; work is counted once; hung calls of samples cost a bounded
  number of threads;
- exporter: a scrape does not keep the scheduler from the rest of the daemon;
- tunnel: a clean close loses nothing, an active stream is not cut, slots return;
- protocol and CLI: a command stays in step with the frames whatever is pushed;
- GUI: the connection comes back; static values reach the screen; pages show
  the answers to their own questions; no dashboard is lost.

## 2. Modules

| Module | Models |
|---|---|
| `SchedulerContract` | what the scheduler promises: tokens per sensor and a due class (due, wait, parked) |
| `Scheduler` | `scheduler.rs` with the microsecond clock, periods, strikes and u64 arithmetic; implements `SchedulerContract` |
| `Sessions` | accept loop, read loops, pumps, sampler and broadcasts, one action per critical section; built on the operators of `SchedulerContract` |
| `SamplingPool` | the pool, its channels, hung plugins, late answers and drop |
| `Nicknames` | the `SetNickname` handler step by step, `hardware.json`, crashes and failures |
| `Alerts` | the alert engine and the requests on its rules, `alerts.toml` |
| `History` | the history writer threads, their database, the switches in the scheduler |
| `PluginBoundary` | the conversions of the plugin ABI, as operators |
| `PluginHost` | loading, registering, sampling and shutting down plugins; the hardware registry's construction; uses `PluginBoundary` |
| `Sensors` | plugins that read files: disk, nvme, net, zram, hwmon, i915, amdgpu, xe, cpu, mem, sock, system |
| `RateSensors` | plugins that turn counters into rates: cpu, its cores, proc, systemd, containers, xe engines |
| `ProbedSensors` | plugins whose calls may hang: fs, nvml, smart |
| `Prom` | the exporter's threads and the scheduler mutex |
| `Tunnel` | the tunnel's tasks, permits and timeouts |
| `Wire` | frames on the socket, a session's two writers, the commands of the CLI |
| `GuiLink` | the GUI's connection: dialling, forwarders, supervisor, switches of host |
| `GuiPump` | the overview model: pump thread, frame queue, Qt thread |
| `GuiModels` | requests of the alert, history and hardware pages, the in-flight table |
| `GuiFiles` | dashboards, hosts and preferences on disk, shared by GUI processes |
| `SchedulerProofs`, `SessionsProofs`, `SamplingPoolProofs` | the theorems about the module each is named after |
| `ServicesProofs` | the theorems about `Tunnel`, `Nicknames`, `Prom` and `GuiLink` |
| `DaemonProofs` | the theorems about `Alerts`, `History`, `PluginHost` and `PluginBoundary` |
| `SensorProofs` | the theorems about `RateSensors`, `ProbedSensors` and `Sensors` |
| `EdgesProofs` | the theorems about `GuiFiles`, `GuiPump`, `GuiModels` and `Wire` |
| `Loops` | lemmas those proofs use: what a loop written as `FoldLeft` goes through |
| `MC...` | instances for TLC |

`Sessions` takes the scheduler from the contract rather than from the numbers;
`Scheduler`'s property `ImplementsContract`, checked and proved, is what makes
that sound.

Three runs check several components that share no state: `MCDaemon` (alerts,
history, plugin host), `MCServices` (tunnel, exporter, GUI link) and `MCEdges`
(the three sensor modules, the three GUI modules, the wire). A variable `part`
is chosen in `Init`; a behaviour is the life of that component, with the others
left where they begin. The state space is the union, not the product, of the
components'; under `MCServices` the fairness assumed is that of the part that
moves.

### Correspondence

**Scheduler.** `entries` is `Scheduler::entries`; `tick` is what `spawn_sampler`
holds between its two critical sections; `clock` is what `now_micros` reads and
may step back; `high` is a history variable. A request's rate is seen as the
period it is converted to: `0` stands for a request faster than the native rate
(or none), `MaxPeriod + 1` for one below `MIN_RATE_HZ`. `+` wraps as in a
release build. Strikes beyond the cap act like the cap and are not counted. In
`tick_commit` the pool may have answered for any subset of the plan.

**Sessions.** `phase` is the position of a connection's `serve()` thread;
`ledger` its `ClientSubscriptions`; `removed` the local vector of tokens on
their way back; `sinks` the `ClientMap`; `queue` the length of the outbound
queue (its contents do not matter to the properties); `sampler` the sampler's
local variables. `reading` is a history variable: what became of the first
sample offered since the subscription. A connection is used once, as client ids
are. A `Subscribe` message is taken to list each sensor once, so with one rate
it is one token per sensor; a list with repetitions is a sequence of the same
steps. `accept_loop` is three steps: `Accept` counts a connection in and compares
the count it found with the cap, and then `SpawnSession` serves it or `TurnAway`
(cap, foreign UID, failed spawn) counts it out again. `sessions` is the counter,
so for a moment it may be one above the cap; what is served may not.

**SamplingPool.** `Hung` are the sensors whose plugin never returns. `results`
records for each outcome the call its job was made for. The deadline is a step
that may come at any time. A pool none of whose threads could be spawned is not
modelled.

**Nicknames.** `req` holds the handler's position, its snapshot and whether any
other request overlapped it. `disk` is `hardware.json`: whether it parses, and
what it says; no file counts as an empty one. The initial file is arbitrary.
`load` may fail to read the file, and may fail to rename a malformed one away.
`Broadcast` offers the catalogue to every client with `try_send`
(`unix.rs:1296`); a client whose queue is full misses it. `shown` is what was
offered last, so where a property speaks of the clients it speaks of the offer.
Nicknames of devices no plugin declares are carried along unchanged by the code
and left out here.

**Alerts.** `lock` is the scheduler mutex; `tick_commit` holds it over the three
phases of `on_sample` (`observe`, evaluation, `apply_eval_result`), the requests
hold it from the change to the reply, and the saving of the file is broken into
open, write and result. `jobs` are the evaluations being waited for. An
expression is the set of sensors it mentions; it is true when all read high and
an error when one has no value. A save writes durations through
`format_duration`, which cuts them to whole milliseconds. A save may fail and
the process may die at any step of it.

**History.** `channel[w]`, `pending[w]` and `writers` are a writer thread's
channel, its batch and whether it runs; `rows` are both tables. Every
switch-on starts a new writer, so two may overlap. `event_writer` is the alert
engine's clone. A flush that fails gives its batch up, and the process may be
restarted. `query` is the down-sampling
SQL as arithmetic on row numbers, after the request's number of points is put
into 1 .. `MaxPoints` (10,000 in the code) or replaced by the default.

**PluginHost, PluginBoundary.** Start-up runs on one thread, so loading one
candidate is one action; the order of `read_dir`, the failing calls and
`plugins.toml` vary. `log[c]` lists the calls made on a candidate, including
which of instance and library is dropped first on each error path (the order is
recorded and no property compares the two: see "Seen while modelling"). A value that
crosses the ABI goes through the conversions of `PluginBoundary`.

**Sensors, RateSensors, ProbedSensors.** A plugin is its tree of files or tasks,
what `init` found there, and its caches. A file's contents are abstracted to
which file was read, and when; a counter's to the window of work it stands for.
Files and tasks come and go between samples. A value that does not parse counts
as a file that cannot be read.

In `Sensors` names and labels may meet. An hwmon sensor's id is made of the
device's name, its label in the form `Sanitised` gives it (any function) and the
suffix of its kind; `Disambiguated` appends an index to a name as the code does,
without looking whether the result is taken. Of the inputs of one device with
one id the first in `read_dir`'s order, in which `inputs` lists them, answers.
Two devices of one name have one key, and `validate_manifest` then refuses the
plugin as a whole: `init_inner` is not enabled. Thermal zones are not devices;
of two with one label the host registers the first (`First`) and the snapshot
keeps the last one read.

In `ProbedSensors` a plugin is first initialised. fs asks every line of the mount
table in turn, on a thread of `statvfs_raw` that nobody counts; the ones that do
not return are `strays`. A mount whose path makes no key, or two that end with
one key, leave the plugin refused. nvml asks on the host's own thread and smart
as it does in a sample, and registers nothing without an answer. In a sample a
call that hangs leaves its thread behind (`workers`) until the target recovers.
Whether a mount reports inodes, and with it two of its sensors, is left out.

The report of a rate carries the window it covers and whether the scan before had
missed the task (`missed`); that is what it takes to say which exceptions the
code makes.

**Prom.** One action per critical section of a scrape, and the rest of the
daemon as one more user of the mutex. A scrape takes the mutex twice: once to
copy the targets (`TakeTargets`, `ReleaseTargets`) and once for the host
(`TakeHost`, `ReleaseHost`). `hung` plugins never return.

**Tunnel.** `tunnel[p]` is the task of a connection, as the state machine that
`handle_server_conn`, `handle_client_conn` and `copy_bidirectional_idle` make: what is read, written and
still held in each direction, and the timers that run. TLS is one step that
fails or succeeds; the allow-lists are modelled on names as sequences of labels.

**Wire.** A frame is a sequence of bytes as far as they matter: the length, the
variant, the rest. The socket holds `PipeCap` of them, and a write that gets no
room fails where it stands. The CLI's commands are a small state machine each.

**GuiLink.** `link[s]` is one connection, from dial to the end of its forwarder;
slots are reused once nobody remembers them. The two threads that dial (the
supervisor and the one of a user's switch) are `dialer`. The local daemon may be
a service or the child of a client, and dies with it. Reconnecting is stepped
through as `forwarder_checks`, `forwarder_clears` and the steps of `DialStep`.

**GuiPump.** `tiles` is `SampleState`, `queue` the `CoalescedSampleUiQueue` with
its flag handed over without a lock, `qt` the Qt thread. A tile's text is the
time of the sample it was made from. `refresher` is the thread that renames tiles
after a nickname: it compares the generation, changes the tiles and serialises
them under the lock, and queues the result (`json`) after it; the pump's rebuild
after a reconnect lets go of the lock before it queues its reset, too.

**GuiModels.** `calls` are all the requests made; `page` what a model shows;
`conn` each client's in-flight table and socket. `peer[c]` is the daemon client
`c` talks to, and `version` what each daemon knows, advanced by every change. A
connection may be lost (`ClientLost`); a client is replaced while it is down, by
the supervisor, or while it is up, when the user changes the host
(`ClientReplaced`), and the requests in flight on it still come back.

**GuiFiles.** `files` maps slugs to absent, partly written or whole documents;
every file operation is one action, and a process may be killed between two.
`raced` marks that two processes worked on the same existing file at the same
moment, which the code does not guard against.

## 3. Runs

| Run | Configuration | Shows |
|---|---|---|
| `scheduler` | `MCScheduler.cfg` | type, `PeriodIsFastest`, `ParkedOnlyAfterReading`, `DueWithinBackoff`, refinement of the contract |
| `sessions` | `MCSessions.cfg` | type, `RefcountBalanced`, `SinksAreSessions`, `SlotsBalanced`, `ParkedMeansOffered` |
| `sessions_live` | `MCSessionsLive.cfg` | `SessionsWindDown`, `FirstReadingOffered` |
| `laggy_client` | `MCLaggyClient.cfg` | violation: `LaggyClientRecovers` |
| `pool` | `MCSamplingPool.cfg` | `ResultsAreOfThisCall`, `JobsAccountedFor`, `PoolKeptBusy`, `SampleReturns`, `DropEnds` |
| `hung_plugin` | `MCHungPlugin.cfg` | violation: `BlockedPluginLeavesAWorker` |
| `nicknames` | `MCNicknames.cfg` | type, `FileIsWhole`, `SoloRequestTakesHold` |
| `lost_nickname` | `MCLostNickname.cfg` | violation: `SavedWhenQuiet` |
| `daemon` | `MCDaemon.cfg` | alerts: `OutcomesMeetTheirRules`, `RingTellsTheTruth`, `FileFollowsRules`; history: `EventWriterInSync`, `NothingLostInSilence`, `QueryIsFair`; plugin host: `PluginsLiveOnce`, `CatalogueIsHonest` |
| `services` | `MCServices.cfg` | tunnel: `CleanCloseLosesNothing`, `IdleMeansIdle`, `TunnelSlotsComeBack`; exporter: `ScrapesYieldTheMutex`; GUI link: `LinkComesBack` |
| `edges` | `MCEdges.cfg` | sensors: `ReadingsAreReal`, `NoWorkCountedTwice`, `ProbesAreContained`; GUI: `StaticsReachTheScreen`, `AnswersMatchTheirQuestions`, `NoDashboardLost`; wire: `CommandsStayInStep` |
| `missed_rebuild` | `MCMissedRebuild.cfg` | violation: `TilesAreOfTheNewHost` |

### Bounds

- `scheduler`: one static and one polled sensor, a fast and a slow period, two
  tokens out at once (`MaxTokens`), a clock up to `Horizon` = 3, back-off capped
  at 2^1. Two tokens are what it takes for a slow and a fast subscriber to share
  an entry, for one to leave while the other stays, and for an entry to be
  dropped and made again during a tick; the horizon spans a plan, a back-off
  and a step back. `MaxMicros` = 12 plays u64::MAX and lies beyond every due
  time, as the assumption `BackoffAssumption` demands.
- `sessions`: three interchangeable connections, two slots (so that the cap
  turns one away, and a slot given back is used again), one static sensor at two
  periods, and a queue of one message, full after one send. Duplicate
  subscriptions at both rates, teardown against fan-out and the full queue all
  occur. The static sensor is the hard case (a polled one is sampled again);
  polled sensors, and several sensors in one message, are covered by the proofs.
- `sessions_live`: the same with two connections and one period, for the
  liveness checker.
- `pool`: more sensors than workers, so that jobs stay pending, one of them
  hung, and three calls (`MaxCalls`): a late answer can skip a call. The hung
  sensor's worker, a refill and a drop with jobs still queued all occur.
- `nicknames`: two threads, two devices, two names, three requests, one crash:
  two requests overlap, and a third runs alone afterwards. Clients, devices and
  names are interchangeable, hence the symmetry (only safety is checked there).
- `daemon`, alerts: two sensors, a rule over both with a debounce and a cooldown,
  a request that replaces it with a disabled one or adds a second, four samples,
  one change, one fault. That is enough to fire, clear and fire again, to change
  the rules at every point of an evaluation, and to lose a save. The clock runs
  as far as the longest cooldown.
- `daemon`, history: one key, a channel and a batch of two, two writers and three
  records: the channel overflows, a batch fills, two writers overlap and write
  the same key and time, one flush fails, rows pass out of retention. A query
  returns at most two rows (`MaxPoints`) and is asked for zero to three, and for
  the default.
- `daemon`, plugin host: one built-in and six libraries in two directories, one
  of each kind the loader tells apart (with and without metadata, contradicting
  it, a built-in's id, an invalid manifest, another ABI), with overlapping
  sensors and devices and three contents of `plugins.toml`.
- `services`, tunnel: two peers for one permit, one of them not on the list; a
  direction with two chunks and one with none; idle timeout longer than the I/O
  timeout. Exporter: two scrapers for one slot, two sensors, either may hang.
  GUI link: local and two remote hosts, one switch, two mishaps. Five slots: the
  client in use, one for each dialler, and old ones with a forwarder to finish.
- `edges`, sensors: machines with entries that are not devices, devices with no
  file, and names and labels that meet in each of the ways there are: two devices
  of one driver, a name that looks like an appended one, two labels with one
  sanitised form, two zones that come to have one label; one file fault; a
  snapshot lifetime of one and a clock up to two, so that a snapshot is used,
  expires and is made again. Rates: two tasks, two units of work, two exits,
  restarts or unreadable files; a scan of proc or of containers lists one task
  (so the limit is met), one of systemd both. Probes: three targets, one of them
  twice in the table, two threads at once and two left behind, a back-off that
  reaches its cap, two changes of mood, so that a call of init and one of a
  sample hang.
- `edges`, GUI: two hosts with different catalogues, three samples forwarded, a
  bridge of two; two requests over two clients, of one daemon or two, with one worker slot; two
  processes, three file operations, one kill and one failed write, names that
  derive to the same slug. Wire: a socket that holds less than two frames, three
  pushes, `--count` 0, 1 and 3, and lists of two sensors, one of them perhaps
  unknown, or of none (then `watch` subscribes at once; `read` names a sensor).

Deadlock checking is off where the system may really stop: connections are used
once and may all end, the pool ends when it is dropped, plugins are shut down,
commands exit, and the bounds on requests, faults and time are used up.

### Fairness

`Sessions!ServeFairness`: weak fairness for the teardown steps and the pump. The
threads exist, no mutex is held while blocking on another session, and a socket
write is bounded by `CLIENT_WRITE_TIMEOUT`. Clients owe nothing: no fairness for
subscribing or leaving. `SamplerFairness`: the sampler loops forever, time
passes, and a sensor that is sampled again and again is planned and answered in
the end (strong fairness, as other sensors may take a tick's workers). The
weakest assumption is that a plugin answers eventually; without it nothing can
be promised. `SamplingPool!FairSpec`: the deadline comes, workers run, and a
plugin that is not hung returns.

`TunnelFairness`: the runtime polls the tasks and time passes; peers owe nothing,
and a dial or handshake need not end (it has no timeout of its own, and
`TunnelSlotsComeBack` is about connections that copy). `PromFairness`: the
scrape threads run, except inside a plugin that hangs, and a thread that wants
the mutex gets it if it is free again and again; that is a little more than
`std::sync::Mutex` promises, and without it no user of the mutex could be
promised anything. `GuiLinkFairness`: the supervisor, the diallers and the
forwarders run, and a host that is down comes back; whether the connection ever
returns is otherwise not the GUI's to say. Mishaps are bounded (`MaxMishaps`),
so the last of them is followed by a recovery.

### What the violations show

- `laggy_client`. `unix.rs:61` says that a laggy client "recovers live data once
  it catches up". For a static sensor it does not: its only sample is dropped by
  the full queue after the commit has parked the sensor.
- `hung_plugin`. `unix.rs:270` says that "one blocked plugin cannot stall the
  entire scheduler tick". Each retry after a back-off gives the hung plugin
  another worker; with all of them inside it no sensor is sampled any more.
- `lost_nickname`. `unix.rs:953` describes a change as lost at restart only "on
  save failure". Two overlapping requests whose saves both succeed can leave the
  older snapshot in the file, because snapshot and rename have no common lock.
- `missed_rebuild`. `overview_model.rs:644` says that the next sample from a new
  host "must arrive with g > current_g so the pump rebuilds the tile catalogue".
  `drain_into_state` (line 338) advances `current_g` itself when a newer sample
  follows an older one in the same batch; the rebuild then never happens and the
  page keeps the old host's tiles until the next reconnect.

Each passing property is also tried against a mutant of the definition it
guards (PROJECT.json, "mutants"), which must break it.

### Seen while modelling

Behaviour that the models reproduce, or leave out knowingly, and no property
states:

- All ssh tunnels of a GUI process use one temporary socket path
  (`linsight-gui/client.rs:161`), so a dial may attach to the previous host's
  forwarding while that is still up. `LinkComesBack` asks for a working
  connection, not for the host.
- Replacing a client that spawned the local daemon kills that daemon, which the
  new client may already use; the supervisor then starts another.
- `parse_core_stats` accepts one digit after `cpu`, so cores from 10 up are
  neither advertised nor sampled.
- The tunnel's `--allow-cn` is documented as an exact match
  (`linsight-tunnel/main.rs:118`) and is matched with wildcards like the SANs.
- `alerts.rs:296` says evaluation runs without the lock, so that requests are not
  blocked; that is the engine's lock, and the scheduler mutex is held throughout.
  `OutcomesMeetTheirRules` depends on it.
- A pump write that times out leaves half a frame on the socket while the read
  loop goes on; `CommandsStayInStep` allows for it (`torn`).
- `linsight list` expects its answer as the next frame and fails if a broadcast
  comes first.
- The xe fast scan credits a client's whole counter again in the scan after one
  that missed it; systemd and containers do so after a scan that could not read a
  unit or did not list it. `NoWorkCountedTwice` names these exceptions.
- `enumerate_hwmon` tells devices of one name apart by appending the directory's
  index, without looking whether the result is taken
  (`hwmon/src/plugin.rs:196-200`). With hwmon directories named `nvme`, `nvme`
  and, from its own `name` file, `nvme_2`, two devices get the key `hwmon:nvme_2`,
  and `validate_manifest` (`linsight-plugin-sdk/src/manifest.rs:241`) refuses the
  plugin: the machine has no hwmon sensor at all.
- Labels are sanitised into ids without looking either
  (`hwmon/src/plugin.rs:262-271`): of inputs labelled `+12V` and `-12V` the second
  is never registered, and the one id answers from whichever `read_dir` lists
  first.
- Thermal zones of types `acpitz`, `acpitz` and `ACPITZ 2`, at indices that fit,
  come to have one label. The host registers the first and drops the others, which
  the test at `system/src/plugin.rs:756` says must not happen, and the value shown
  is that of the last one read. `ReadingsAreReal` allows for it (`OfNamesake`).
- `MAX_DETACHED_HANDLES` is called the "upper bound on simultaneously-existing"
  statvfs threads (`fs/src/plugin.rs:85`). It does not count those of `init_inner`
  (lines 268 and 534): each mount that hangs at start-up leaves one more.
  `ProbesAreContained` bounds the threads of samples by the cap, and all of them
  by the cap and the lines of the mount table.
- On an init error `register_with_config_checked` returns early and its parameters
  drop in reverse order, the library before the plugin (`plugin_host.rs:309-322`),
  against the order the comments at lines 40 and 356 ask for. `FailedInit` records
  it; `PluginsLiveOnce` asks that an instance goes away, not that it does so
  before its library.
- The refresher serialises the tiles under the lock and queues them after it, and
  so does the pump's reset: the old host's tiles, renamed, may be queued after the
  reset and stay in `tiles_json` until the next rename or reconnect
  (`overview_model.rs:499-504`, `566-581`).
- Nickname broadcasts of overlapping requests may cross, and a client then shows
  the older catalogue until the next one.

## 4. Proofs

TLAPS checks the following for all values of the constants, from the assumptions
the modules name: `SchedulerAssumption`, `BackoffAssumption`,
`SessionsAssumption`, `PoolAssumption`, `NicknamesAssumption`,
`AlertsAssumption`, `HistoryAssumption`, `CandidatesAssumption`,
`PluginAssumption`, `KeysAssumption`, `TunnelAssumption`, `PromAssumption`,
`GuiLinkAssumption`, `GuiFilesAssumption`, `GuiPumpAssumption`,
`GuiModelsAssumption`, `WireAssumption`, `RatesAssumption`, `ProbesAssumption`,
`TreesAssumption`. Most give the constants their types (finite sets of threads,
positive capacities, sensors named by strings). Those that say more:
`CandidatesAssumption` (a file is in one plugin directory and is no built-in);
`KeysAssumption` (`KeyOrder` lists every device key: the order of strings, given
as a sequence because TLA+ has none); `TreesAssumption` (two entries of a
directory have different indices; an interface has all its statistics; the
plugins of the whole machine have one entry for it; how names and labels meet is
not restricted). `RingAlwaysTrue` has a hypothesis of
its own (no stored file names a rule twice).
An invariant is called inductive below if `Init` establishes it and every step
keeps it; each theorem rests on one, and each action has a lemma saying it keeps
it.

- **SchedulerProofs**: `TypeCorrect`, `PeriodAlwaysFastest`, `NeverParkedUnread`,
  `BackoffBounded`. The inductive invariant is the conjunction of the four
  properties and `ReadingsAreOld`, which says that neither the tick nor any
  entry remembers a clock reading later than `high`; without it the due time an
  `unsubscribe` computes from the last reading has no bound. It is restated
  entry by entry (`EntryOK`), and each of `subscribe`, `unsubscribe`,
  `tick_plan`, `tick_commit` has a lemma that keeps every entry in order.
  `BackoffBound` is the arithmetic: from a clock reading within the horizon no
  back-off wraps or reaches u64::MAX. `MinOfPeriods` gets the least period from
  the well-foundedness of the naturals. `Refinement` is `ImplementsContract`:
  the tokens of an entry map to the contract's counts and its due time against
  the clock to the class due, wait or parked; `NextRefines` shows each operation
  to be the contract's operation of the same name, and a tick of the clock to be
  `elapse` or a stutter. It uses the invariant (`DueWithinBackoff`, so that no
  arithmetic makes a parked sensor out of one that waits) and `TickShape`.
- **SessionsProofs**: `TypeCorrect`, `RefcountsBalance`, `ClientMapSound`,
  `SlotsNeverLeak`, `ParkedIsOffered`. `SlotsBalanced` rests on the acceptor being
  one thread: at most one connection is at the door, counted and not yet served.
  `RefcountBalanced` needs
  `TokensOwedOnce` (no token both held and owed by one session);
  `SinksAreSessions` needs `SamplerMemory` (a pump the sampler found dead stays
  dead); `ParkedMeansOffered` needs both `SinksAreSessions` and `FanOutShape`.
  The lemmas on `acquire` and `release` say what they do to each count, the
  cardinality lemmas what a step does to the set of holders.
- **Nicknames** (ServicesProofs): `TypeCorrect`, `FileAlwaysWhole`, `SoloRequestsTakeHold`.
  `FileIsWhole` needs `SnapshotsHeld` (what is on its way to the file was held
  by the registry); `SoloRequestTakesHold` needs `AloneInStep` (a request that
  has been alone so far still is, and what it passed on is what the registry
  says).
- **SamplingPoolProofs**: `TypeCorrect`, `NoLateAnswerTaken`,
  `EveryJobAccountedFor`, `PoolAlwaysKeptBusy`. The invariant adds `CallsAreOld`
  (no job or answer bears the number of a call to come), `WorkersHoldOne`,
  `PlannedOnce` (a plan names a sensor once, and what is pending is not in
  flight) and `OneCopyEach`, which says without cardinalities where the one job
  or answer of a sensor in flight is. A late answer of an earlier call is thus
  never a member of the set that is waited for.
- **Alerts** (DaemonProofs): `OutcomesAlwaysMeetTheirRules`, `FileAlwaysFollowsRules`,
  `RingAlwaysTrue`, and the types. `LockShape` is the heart of the first: jobs are out
  only while `tick_commit` holds the mutex, so no request moves a rule under an
  evaluation. `FileSound` extends the property to the time outcomes are applied.
  `RingInv` says of each rule what the ring holds, with neighbours in place of
  least positions (`Least` turns one into the other), and relates the newest
  event to the rule's firing state and the time its cooldown counts from.
  `RingAlwaysTrue` assumes `FilesNameRulesOnce`: requests cannot make two rules
  of one name, a file edited by hand can, and the events of such rules cannot be
  told apart.
- **History** (DaemonProofs): `EventsFollowSamples`, `NothingEverLostInSilence`,
  `QueriesAlwaysFair`. The first
  needs `HandlesAreLive` (a handle is to a writer that runs) and `EngineWired`.
  The second is an action property: each step is shown to keep each record, or
  to have a row with its key and time, or a failure to account for it;
  `Greatest` picks the record of a batch that a flush leaves in the table. The
  third is stronger than the run's property: it holds for a query of any key,
  range and number of points, which the clamp puts into 1 .. `MaxPoints`. It needs `OneRowEach` (the table has one row for a
  key and time), from which the rows of a window have the places 1 to n
  (`Place`, `Nth`); the rest is the arithmetic of the buckets, that a bucket is
  never empty and never wider than the window's share.
- **PluginHost** (DaemonProofs): `PluginHostCorrect`, `CatalogueAlwaysHonest`. For
  the first, a candidate's log goes through stages (not made, made, initialised,
  stopped, settled); `HostInv` says that each registered plugin has one instance,
  initialised with the config filed for it, that every other candidate is settled
  (`AllUp`; after the stop, `AllGone`), and that what is still to be loaded has
  not been touched (`Waiting`). For the second, `CatInv` says that a registered
  sensor is the first declaration of its id, of the plugin it points to. A loop
  of `HardwareRegistry::build` adds each device once (`OneEach`, `Lists`);
  `Rank` folds category and key into one number, by which the snapshot is sorted
  (`Sorted`), so it is in order and has every device once. Values cross the ABI
  by the conversions of `PluginBoundary`, whose round trips are lemmas. In
  proving them two arms of a `CASE` in that module were found to overlap, where
  TLC had always taken the first; the module now says which one holds.
- **Tunnel** (ServicesProofs): `CleanCloseNeverLoses`, `IdleAlwaysMeansIdle`,
  `ConnectionsStayBounded`. A task copying is sound if a direction is done only
  at its end of file with everything read (`DoneMeansRead`), and if its select
  timer never runs ahead of the silence (`TimerBehindSilence`).
- **Prom** (ServicesProofs): `ScrapesAlwaysApart`, the safety half of
  `ScrapesYieldTheMutex`: the connections in service stay within the cap, the
  scheduler mutex is a scrape's only while it copies the targets or the host, so
  that no plugin is sampled under it, and a scrape that answers 200 has been through a
  `sample` of every target, none of which hangs.
- **GuiLink** (ServicesProofs): `LinkAlwaysWatched`, the safety half of
  `LinkComesBack`: while the flag says the connection is alive, the connection in
  use has a forwarder that will see it end, or the thread that published it is
  about to start one. `LinkInv` says that a thread that reconnects has its slot to
  itself until it publishes it, and that of the two threads one at a time is past
  the reconnect lock.
- **EdgesProofs**: `DashboardsAreKept` needs `FilesAwait` (what an operation is
  about to write or replace is still there) and `RemovalCovered` (before an old
  file goes, the new one is whole and nobody is about to remove that).
  `StaticsAlwaysReachTheScreen` needs `FlagHeld` (whoever left the queue's flag
  set has a closure under way), `FrameWatched` (a frame in the queue has someone
  who will look at it) and `FramesCarryStatics` (the newest frame, wherever it
  is, has the static values the pump has). `AnswersAlwaysMatch` needs the
  in-flight table of a client to hold exactly the calls awaiting an answer of
  it, under ids never given twice, and every answer on its way to be right for
  the call whose id it bears. `CommandsAlwaysInStep` needs `BytesSound`: as long
  as no write was given up, what is in the socket together with what is left of
  the write in progress is whole frames, so a frame's size is known from its
  first byte (`NeverMisled`), and skipping a body takes exactly that frame
  (`FrameConsumed`); and `CommandSound`: the request whose answer is awaited is
  for the sensor whose turn it is, and those before it are known to the daemon.
  Sequences are reasoned about through the lemmas on `Joins` and `Cut`, which
  say what is where after `\o` and `SubSeq`.
- **RateSensors** (SensorProofs): `WorkIsCountedOnce` has one invariant per way of remembering. The tables and xe:
  the last window of a task that is remembered ended at what is remembered
  (`WindowsEndAtBaseline`), and one that was reported but is not remembered is
  gone or was missed by the last scan (`ReportedAreRemembered`); xe's baseline is its
  snapshot. The cores: baseline, cache and snapshot are of the same moment, and a
  core was last told its window of the cache or one that ended before
  (`CoresInStep`). The proof showed that proc needs no exception for missed
  tasks, and the property no longer makes one.
- **ProbedSensors** (SensorProofs): `ProbedSensorsCorrect`. `Struck` says that
  the threads left behind are in calls that hang and matches each with a strike of
  its own; `Strayed` that init's are one to a line of the table it has been
  through, which with the cap bounds all of them. A pass of `snapshot_with` starts
  and collects calls in two loops; `GatheringOK` is what their accumulator keeps:
  nobody waits for a permit, the cap counts what was started, and a hung call is
  in flight or timed out.
- **Sensors** (SensorProofs): `ReadingsAlwaysReal`. `SensorsInv` says that devices
  belong to entries of the tree and that two of one name are one, or thermal zones
  (`DevicesFit`: what `validate_manifest` is for), that an advertised sensor is a
  metric of the first device of its name (`AdvertsFit`), and that a snapshot has
  the reading of every device, or of a zone of the same label, of the moment it was
  taken, or that the device is excused by a file that is or was not readable
  (`SnapshotFits`; for the cpu's remembered paths, `Found`). One lemma per plugin
  says that its `sample` answers so.

`Loops` holds no theorem about the system: its lemmas `FoldRuns` and `FoldKeeps`
are what the proofs above use for the program's loops. The provers cannot take an
operator as an argument of a theorem, so the step of a loop is a constant of
`Loops`, and a module of proofs instantiates it once for each loop. `FoldLeft` is
then the last of a run of values, each made from the one before.

Only model-checked, because liveness under fairness, and ENABLED, are out of the
prover's reach: `SessionsWindDown`, `FirstReadingOffered`, `SampleReturns`,
`DropEnds`, `TunnelSlotsComeBack`, `ScrapesYieldTheMutex`, `LinkComesBack`.

## 5. Not modelled, and the plan

Left out for good:

- QML, layout, formatting of values, theme tables, wording of notifications,
  logging;
- TLS, certificate parsing, the dynamic linker, SQLite and the serializer, which
  are other people's code and appear as what their callers see of them;
- the parsing of single `/proc` and `/sys` files where it is pure text handling,
  the PCI id database, the evaluation of alert expressions (`TestAlertExpr`
  included), URL checks;
- the CLI's `db` and `plugin` commands, which work on files without the daemon.

Left out of the modules so far: the daemon's orderly shutdown, the pump's send
interval, the frames of the GUI's own handshake, the pre-1970 clock sentinel
(`scheduler.rs:226`), a NaN native rate (`scheduler.rs:134`), the requester that
disconnects between save and broadcast, and which request handlers block in I/O
under the scheduler mutex (`GetHistory` does).

What would come next: the daemon's orderly shutdown, as an action that ends
sampler, sessions and history writers in its order; the pump's send interval; and
safety theorems behind the liveness properties that have none yet
(`TunnelSlotsComeBack`, `SessionsWindDown`).
