# sp_piAll in TLA+

A verification development for `sp_piAll`, the environment shared by every
Raspberry Pi of a sensor network: modules that model the code under `src/`, TLC
configurations that check them on small instances, and TLAPS proofs for every
value of the constants. `PROJECT.json` lists the runs, the mutants, the lines
each definition models, the findings, the hazards and the theorems.

## The system

Each Pi runs one process per sensor (`dht22.py`, `C5A.py`, in other repositories,
built on `pi_common.SamplingLoop`), one device agent, and at boot
`sync_clock.py`. They share a directory: one SQLite cache, one `device_uuid.txt`,
one `networkList.txt`, and in `/run` one `clock.json`. Backends (a PC with an
HTTP server and MySQL) are reached over a LAN that comes and goes.

| Component | State it keeps | Operations | Interacts with |
|---|---|---|---|
| `cache.py` | table `SensorLog` on disk | `save_reading`, `get_unsent`, `mark_uploaded_many`, `delete_many`, `correct_boot_timestamps`, `cleanup`, `init_db`/`_migrate` | every sensor process, by SQLite calls of one transaction each |
| `client.py` | `_base_url`, `_sensor_id`, `_batch_supported`, `_schedule`, `_send_seconds`, `_retry_delay`, `_corrected_this_boot` | `_run`: maintenance (discover, register, sync, poll) and upload (flush, cleanup) | backends (HTTP), cache, `Clock`, a mailbox for the sampling thread |
| `clock.py` | `Clock`: offset, synced, reference pair; `clock.json` | `refresh`, `publish`, `load_published`, `probe` | agent writes the file, every client reads it; two threads share a `Clock` without a lock |
| `scheduler.py` | period, pending switch, last tick | `schedule_period_change`, `wait_for_next_tick` | `Clock.now()`, sampling loop |
| `samplingLoop.py` | none but its locals | constructor, the loop, two retry policies | scheduler, sensor, cache, client |
| `identity.py` | `device_uuid.txt` | `get_device_uuid` | every process, without a lock |
| `discovery.py` | none | `network_search`, `find_backend`, `candidates` | backends |
| `device_agent.py` | backend in use | discover, measure, publish, heartbeat, shutdown notice | backends, `clock.json`, systemd |
| `sync_clock.py` | none | a bounded retry loop at boot | system clock |
| `config.py` | none | `readConfig` | every sensor at its start |
| `vpd.py` | none | a formula | |

What is hard here: two threads per process and several processes per Pi on one
table; crashes and power cuts at any point, with only the disk surviving; answers
that are lost after the backend has acted; two backends with different databases;
a clock that is wrong at boot and jumps when it is corrected; period switches that
are announced ahead; due-times, timeouts and age limits that have to fit together.
The hazards, each at its line, are in `PROJECT.json`.

## Modules

| Module | Models | Checked by | Proved in |
|---|---|---|---|
| `SensorCache` | the cache calls as operators on a function from logID to row | used below | |
| `ReadingDelivery` | abstract: take, deliver, retire, oldest first, never before delivery | refined by `BackendClient` | |
| `BackendClient` | several sensor processes, the shared cache, the backends | `MCBackendClient` | `BackendClientProofs` |
| `TickScheduler` | the grid, period switches, skipped ticks, an offset that jumps | `MCTickScheduler` | `TickSchedulerProofs` |
| `ReadingTime` | how far a stored time is from the truth: stamp, sync, correction, upload, reboot | `MCReadingTime` | `ReadingTimeProofs` |
| `ClientLoop` | `_run()`: two due-times on one thread, backoff, the backlog | `MCClientLoop` | `ClientLoopProofs` |
| `PublishedClock` | `probe()`, `publish()`, `load_published()` as operators | used below | |
| `ClockRegister` | abstract: an atomic register that readers trust for a bounded time | refined by `DeviceAgent` | |
| `DeviceAgent` | the agent's cycle, `clock.json`, the sensors that read it, systemd, hosts | `MCDeviceAgent` | `DeviceAgentProofs` |
| `SensorConfig` | `readConfig()` where a value decides something | used below | |
| `Retention` | what leaves the cache and when: `_retire()`, `cleanup()`, the config files | `MCRetention` | `RetentionProofs` |
| `RetryLoops` | the read policies and the boot loop, each within a budget | `MCRetryLoops` | `RetryLoopsProofs` |
| `DeviceIdentity` | `get_device_uuid()` by several clients | used below | |
| `CacheMigration` | `init_db()` by several processes, interrupted anywhere | used below | |
| `Startup` | composes the two: sensors and the agent start, end and restart | `MCStartup` | `StartupProofs` |

`BackendClient`, `ReadingTime` and `Retention` compose `SensorCache` with the
processes that call it. `BackendClient` has all of the upload and registration and
leaves times out; `ReadingTime` has all of the stamping and correction and an
outline of the upload; `Retention` has all of the retirement and the sweep.
`ClientLoop` says when the cycles of `BackendClient` begin, which is what its
fairness rests on. `DeviceAgent` shows that the published clock is what
`ReadingTime` takes for granted (`Publish`, `Expire`, a file of another boot).

### How state and actions correspond to the code

**SensorCache.** A row has the columns a property tells apart; measurements are
left out. IDs come from AUTOINCREMENT and are never reused. Every operator is one
transaction; `correct_boot_timestamps()` is two (`Correctable`, `CorrectRows`),
because `sqlite3` opens no transaction for a SELECT.

**BackendClient.** One `phase` per background thread. Each HTTP request is one
step with three outcomes: done and answered, done but the answer lost, not done.
A backend is a `Sensor` table (`registry`: IDs in order of registration, one
sequence per database) and the set of readings it holds (`stored`); `UNIQUE
(sensorID, datetime)` makes an insert idempotent, the foreign key refuses an
unknown ID. These belong to the backend, which is not in this repository; they
are modelled from how the client uses them and marked external. `Record` is the
sampling thread. `Exit` ends a process anywhere and loses everything but the
cache; `MaxFaults` bounds exits, lost answers, failed requests and outages of a
backend. A dead host and a live host that misses a probe are both possible, so
`Discover` picks the first of *some* answering set. Which rows are old enough for
`cleanup()` is a free choice here.

**TickScheduler.** Time is integral; a second is a time unit. The sampling thread
is `ready` (top of the loop), `armed` (update applied), `sleeping`, `reading`,
`stopped`. The background thread may leave an update in the mailbox and replace
the offset at any moment. The period starts at `max(config, MIN_PERIOD)`; updates
are at least `MIN_PERIOD` and start at a multiple of their period, as the backend
guarantees. The histories `tick`, `prev`, `setBack`, `wait` exist for the
properties.

**ReadingTime.** A time is represented by its error. The system clock of a boot
has a constant error, a published offset leaves an error of `PublishedError`, the
monotonic clocks of two boots differ by `BootShift`. `Clock.refresh()` is two
steps, because the sampling thread reads `synced` and `offset` without a lock.
The wake-up jitter of a corrected row and the drift of a clock within a boot are
not modelled. The history `resynced` records where the sampling thread was when
the offset changed under its reading.

**ClientLoop.** A due-time is the time left until it. Each cycle takes up to the
sum of its request timeouts (`MaxDiscovery`, `MaxFlush`); a client without a
backend uploads in no time. The unit is the shortest sampling period, so the
cache grows by at most one row per unit and `MAX_SEND_SECONDS` can be compared
with `batch_size * max_batches_per_cycle`. An upload sends all but some of the
rows that came in meanwhile, up to its capacity, or breaks off anywhere.

**PublishedClock, DeviceAgent.** The unit of time is one request timeout: a
request takes no time or a unit, and local calls take none. Discovery is host by
host, the probe sample by sample, `publish()` is the write of the temporary file
and the rename. A measurement has a round trip and an age; `clock.json` has the
age of the measurement, the time since `syncedAtMonotonic` (what a reader
computes) and whether its `bootID` is this boot's. After a power cut a file that
survived looks new by its monotonic value, and only `bootID` gives it away.
`Kill`, `Restart` and the removal of `/run/sp_dashboard` are systemd's, from the
unit file. `quiet` and `missed` are histories.

**SensorConfig, Retention.** A config file is a function from keys to values, and
a value is a number, a typo or empty, from a text or a JSON file; `Or` and
`Truthy` are Python's. A row has an age in days and the error of its datetime.
`cleanup()` compares the cutoff, of the system clock (`wrong`), with the row's
datetime, of the corrected clock. The backend acknowledges some oldest rows of
what is offered: how it comes to that is in `BackendClient`.

**RetryLoops.** One module for the three loops, as `policy`: attempts last up to
`MaxAttempt` and nothing interrupts them, gaps may last `Late` too long, the
budget is looked at where the code looks at it (twice in the boot loop).

**Startup, CacheMigration, DeviceIdentity.** A sensor runs `init_db()`, then
`get_device_uuid()`, then saves readings; the agent only asks for the UUID. An
ALTER is durable at once, the UPDATEs at the commit; the initial tables are those
each earlier version can have left; only the columns that decide which UPDATEs run
are kept. `AddColumnFails` is the `duplicate column name` that a second process
meets. `exists()`, the truncating open, the write and the read of the UUID file
are four steps.

## Runs

State counts are of distinct states; the longest runs, `agent`, `failover`,
`trust` and `retention`, take one to two minutes.

| Run | Instance | Shows |
|---|---|---|
| `failover` | 2 sensors (one deletes on upload), 2 backends, one without the batch route, 3 readings, batches of 2, 1 fault; 1.7 M | `DeliveryInv`, `NoReadingLost`, `OldestFirst`; refinement `DeliverySpec` |
| `drains` | 2 sensors, 1 backend, 2 readings, 1 fault, with fairness; 92 k | `BacklogDrains`; `NoMisfiledReading` with one backend |
| `misfiled` | 2 sensors, 2 backends, 2 readings | `NoMisfiledReading` is violated |
| `grid` | 2 schedule updates, 2 offsets, 16 time units; 1.3 M | `TickInv`, `TicksOnGrid`, `TicksAdvance`, `SkipsCounted`, `SwitchNotOverslept` |
| `trust` | 2 processes (symmetric), 1 reading, 2 boots, a clock that is right or wrong at boot, 1 fault; 2.4 M | `TrustInv`, `CorrectedIsTrue`, `SyncedUnlessResynced`, `RepeatsOnlyByCorrection`, `EstimatedUnlessInHand`, `WrongOnlyByFault` |
| `midsleep` | 1 process, 1 boot, no fault | `SyncedIsTrue` is violated |
| `agent` | 2 hosts, 2 samples, interval 5, age limit 20, grace 3, 1 sensor, 1 fault, any number of reboots; 5.6 M | `TypeOK`, `HeartbeatInTime`, `BlipTolerated`, `KilledOnlyMidCycle`; refinement `RegisterSpec` |
| `startup` | 2 sensors and the agent, 2 legacy rows of any version, 1 new row, 1 interruption, 2 exits, 3 UUIDs; 1.7 M | `StartupReady`, `RetiredUnlessCut`, `NewRowsKept`, `UUIDShared`, `SettledForever` |
| `due` | maintenance 5, retry from 1, send 0, 3 or 9 within 1 to 6, cycles of up to 2 and 3, capacity 11, with fairness; 20 k | `TypeOK`, `MaintenancePunctual`, `UploadPunctual`, `BackoffDoubles`, `KeepsUp`, `GoesOn` |
| `retention` | a DHT22 and a C5A, 3 odd config files, a clock a day behind, 2 rows, 1 fault, with fairness; 91 k | `TypeOK`, `OnlyAckedLeave`, `YoungStay`, `Collected` |
| `kept` | the same | `KeptAfterAck` is violated |
| `retries` | budget 9, spacing 2, 3 attempts of up to 5, gaps 1 late; 1.2 k | `TypeOK`, `BeginsInBudget`, `EndsInTime` |

Why the bounds are enough. Two sensors make every interference of one process
with another possible; a third adds nothing that a second does not do. Three
readings with batches of two give a full batch followed by a partial one, and a
batch of one sensor interleaved with rows of the other. One fault allows a lost
answer, a broken single-row batch, a crash or an outage; two backends and one
outage are a failover, and the return to the first is free. For the scheduler,
periods 5, 3 and 2 have no common grid below 30, 16 units see both switches, a
skipped tick and both directions of the offset. For the times, one reading taken
in the first boot and corrected in the second (or by the other process) is the
shortest way to every wrong mark. For the agent, two hosts are one to lose and
one to find; a cycle of six units of work is longer than the interval of five, so
both forms of the delay occur; with an age limit of 20 a file can just outlive two
failed cycles, and the faults that are not counted (hosts that come and go,
reboots) are unbounded. For the start, the number of rows matters only in that an
old and a new one exist together, and two exits let a client end in the middle of
minting and again afterwards. In `due` a cycle of either kind can overrun the
other's due-time and the capacity is the least that `MarginAssumption` allows. In
`retention` a row passes every age up to beyond the longest retention of a file.
`retries` has a budget that is no multiple of an attempt and a gap. The theorems
below drop these bounds.

`CHECK_DEADLOCK FALSE` is set where the system may stop or a bound ends a
behaviour: a stopped scheduler, loop or agent, a retry loop that is over, the end
of `MaxMono`, of the UUIDs, rows or exits.

### Fairness

`FairSpec` of `BackendClient` assumes, per process: weak fairness of the steps
inside a cycle (one thread, every request has a timeout, so the next step always
comes); strong fairness of `BeginMaintenance` and `BeginUpload`, which compete for
the idle thread (`_run()` gives each its own due-time; `MaintenancePunctual`,
`UploadPunctual` and `GoesOn` of `ClientLoop` show that neither can starve the
other); weak fairness of `Start` (`Restart=always`). Nothing is assumed of
backends or network: `BacklogDrains` asks for one backend that stays up from some
point on. `MaxFaults` makes the other faults finite, which is what "eventually"
needs. `ClientLoop` assumes weak fairness of its one thread and of time; with a
send interval of 0 and no floor, `GoesOn` would fail by a loop in which no time
passes. `Retention` assumes that days pass and that each process's upload cycle
takes its steps, which is `GoesOn`. `DeviceAgent` and `RetryLoops` need no
fairness: `HeartbeatInTime` and `EndsInTime` are bounds on time, as invariants,
and time cannot pass where the code has something to do.

## What the runs found

Each of these is a run marked "violation", with the source quoted in
`PROJECT.json`:

* `misfiled`: a sensor ID outlives a change of backend (client.py:285), and the
  readings are filed under whichever sensor has that ID there.
* `midsleep`: a first sync during the wait for a tick marks an unsynced time
  SYNCED (samplingLoop.py:169), and the correction never looks at it.
* `kept`: the sweep measures a retention from when a row was taken, not from its
  acknowledgement (cache.py:380): what waited out a long outage is deleted in the
  cycle that uploads it, against config.py:103.

The modules state eight more properties that the code does not have and that have
no run of their own; TLC violates each on the instance named here.

| Property | Module | Instance |
|---|---|---|
| `BacklogDrains` with two backends | `BackendClient` | `FairSpec`, 1 sensor, 2 backends with the batch route, 1 reading, 1 fault: the ID is unknown to the second database and every batch fails its foreign key |
| `SensorLimit` | `TickScheduler` | as `grid`, without offset changes: after a switch two readings may be closer than the sensor's minimum period |
| `NoRepeatedTick` | `TickScheduler` | as `grid`, 12 time units: an offset that sets the clock back repeats a tick |
| `UploadedUntouched` | `ReadingTime` | 2 processes, 2 readings, no fault: the row is uploaded between SELECT and UPDATE |
| `OneUUID`, `HasUUID` | `DeviceIdentity` | 2 clients that start together, no exit; 1 client, 1 exit: the file was created and not written. `UUIDShared` says that there is no other way |
| `LegacyRetired` | `CacheMigration` | 2 processes, 1 interruption: a power cut inside the migration loses the retirement of legacy rows for good. `RetiredUnlessCut` says that nothing else does |
| `StreamBackfilled` | `CacheMigration` | 2 processes, no interruption: the one that added `stream` dies of a duplicate column |

Smaller disagreements between the code and its comments, met while modelling:

* A JSON `"Retention": 0` is falsy and falls through to the next key or to one day
  (config.py:170), against "0 deletes on upload" (config.py:104).
* "The rows stay on the Pi" (the comments in `_migrate()`) holds until the next
  sweep, which collects retired rows too; "days = 0 sweeps every uploaded row"
  (cache.py:369) is not so for rows of the same second, or when the corrected clock
  is ahead of the system's.
* `retry_within_budget()` bounds when an attempt starts, not when it ends: a read
  that lasts can pass its own tick at the shortest period (`EndsInTime` has the
  attempt in its bound), against samplingLoop.py:23-24.
* The boot loop ends within 90 s and one attempt (`EndsInTime`), and an attempt of
  `n` dead hosts, ten samples and two subprocesses can take `5n + 50 + 20` s, which
  is more than the 30 s that `TimeoutStartSec=120` leaves.
* A stop during a long probe runs into `TimeoutStopSec=15`: the agent is killed
  without its SHUTDOWN event. `KilledOnlyMidCycle` says that this is the only way.
* `syncedAtMonotonic` is read when the file is written, not at the exchange: the
  age a sensor computes is too small by up to the samples after the best one
  (`MaxLag` in `Limit`). Two sensors may hold different offsets for a cycle.
* "Measured from the START of the cycle, so a slow probe does not ... push the Pi
  past the server's threshold" (device_agent.py) is a margin, not a need: on the
  instance of `agent` a heartbeat is never more than 11 units apart, of 15; it is
  `BlipTolerated` that would fail without it.
* A `publish()` that fails between the two steps leaves its temporary file.

## What is proved

`tlapm` checks all of it with Z3, Zenon and LS4, for every value of the constants
that satisfies the named assumptions: `ClientAssumption`, `ScheduleAssumption`,
`TimeAssumption`, `LoopAssumption`, `RetryAssumption`, `MigrationAssumption`,
`StartupAssumption`, `RetentionAssumption`, `ConfigAssumption`, `ClockAssumption`,
`AgentAssumption` say what the constants are (that a mark such as `None`, `Torn` or
`Typo` is no number and no record included), and five say more:

* `OneBackend`, for `RightlyFiled` only; the run `misfiled` shows it is needed.
* `MarginAssumption`, for `LoopKeepsUp`: the capacity of a cycle holds the rows of
  the longest send interval and of a late and a long cycle. With 2 s between
  readings, 3600 s are 1800 rows of 2000, and the other cycles may take 400 s.
* `BackoffAssumption`, for `RetriesBackOff`: the count of failures may stop at
  `MaxFailures` because the delay has reached its cap by then. It is about the bound
  of the model; every pair of delays has such a number.
* `AgeAssumption`, for `BlipsTolerated`: the age limit outlasts the rest of the
  cycle that published and two whole ones. With three hosts a cycle works at most
  67 s (3 + 9 + 50 + 5) and lasts at most 68, so 60 + 136 < 300.
* `IntervalFits`, a hypothesis of `HeartbeatsInTime`: three intervals hold a pause (a
  cycle or a restart, whichever is longer) and the work of a cycle.

`DeployedFits` shows that the last two are met by the values in the code and the unit
file, in units of 5 s and with up to five hosts (the template lists three), and
`DeployedHeartbeats` is `HeartbeatsInTime` for these. With six hosts the sum is 37
units of 36; the unit is coarse there, for discovery waits 3 s for a host.
`StopGrace > 1` in `AgentAssumption` is `TimeoutStopSec=15` against the 5 s of the
notice.

**BackendClientProofs.** `NoReadingLost` is not inductive: that a thread retires
only delivered rows needs to know that what it holds as answered is delivered
(`AckedIsDelivered`), which needs that its batch still consists of its own unsent
rows although other processes retire and delete (`BatchIsOldest`), and that a
request has a target (`RequestHasTarget`). `OldestFirst` needs that the batch is a
prefix of the sensor's queue and the answered rows a prefix of the batch.
`DeliveryInv` is their conjunction with `TypeOK`: `TypeStep`, `TargetStep` and
`QueueStep` show that each action keeps it. From it follow `NothingLost`,
`QueueOrder`, and `ClientsDeliver`: `Spec => DeliverySpec`, with the unsent rows as
pending readings; a batch stored is `Deliver`, a batch retired is `Retire`,
everything else stutters or takes a reading. `RightlyFiled` proves
`NoMisfiledReading` for a single backend with `IDIsOwn` as the strengthening.

**TickSchedulerProofs.** `TickInv` adds that the wait in progress is for a grid
point of the period in force (`WaitOnGrid`) and that after a tick the clock is past
it unless it was set back (`ClockPastTick`). The arithmetic is in lemmas on
`NextMultiple`, `SwitchTarget` and multiples; `ArmStep` and `WakeStep` are the two
steps with content. Proved: `TicksOnGrid`, `TicksAdvance`, `SwitchNotOverslept`,
and with `LastTickKnown` (the reference for the count is the latest tick, or
forgotten by a switch) `SkipsCounted`.

**ReadingTimeProofs.** `TrustInv` says that what a `Clock` believes comes from an
offset of this boot (`ClockInv`), that a stamp comes from the clock in force
(`StampInv`), that a correction has a reference and rows of this boot only
(`CorrectionInv`), and that a time which has left the Pi is the row's unless the
row was corrected (`SentInv`). `LogStep` collects what any step may do to the
table, so that the other lemmas need not open every action. Proved:
`CorrectedIsTrue`, `SyncedUnlessResynced`, `RepeatsOnlyByCorrection`. For
`EstimatedUnlessInHand`, `BehindInv` adds that a clock with a reference keeps a
published offset although the file may lapse (`ReferenceInv`), and that a row with
a wrong time which its process could have known waits for that process's
correction, or has been selected by it (`OverlookedInv`). `WrongOnlyByFault` follows
once it is known that, where nothing has failed, a synced process that is at no
correction has made one (`CorrectionDone`): its hypothesis is the fault that
`_correct_cached_timestamps()` has no second chance after.

**ClientLoopProofs.** `LoopInv` says, for each place of the thread, how late either
due-time can be by the time spent there, and that the backlog is what has come in
since the last upload. `BackoffInv` says that the delay to come is the power of two that the
failures so far ask for, capped. Proved: `MaintenancePunctual`, `UploadPunctual`,
`KeepsUp`, `BackoffDoubles`. The powers of two are a recursive function, and that it
exists has to be proved: `PrimitiveRecursion` shows, for any start and step, that there
is a function with these equations, by way of the least element of a set of numbers
(`Least`), and `Powers` is its instance.

**RetryLoopsProofs.** `RetryInv` relates the time at each place to when the attempt
or the gap began. Proved: `BeginsInBudget`, `EndsInTime`.

**StartupProofs.** `CacheInv` says that what a call remembers is about columns that
exist and that a row of this version is as it was saved; `IdentityInv` that, unless
disturbed, at most one client mints, and that whoever runs has what is in the file.
Each part is proved for its own steps; `StepKinds` shows that every step of
`Startup` is one of the one part, of the other, or of both. For `RetiredUnlessCut`,
`RetireInv` follows the upgrade: a call that has added `sourceKey` has no column left
to add and cannot fail (`LastAdded`), it has still to retire what waits
(`BeingRetired`), and after it every row without a source is retired (`AllRetired`).
Proved: `StartupReady`, `NewRowsKept`, `RetiredUnlessCut`, `UUIDShared`,
`SettledForever`; and `ImplementsMigration` and `ImplementsIdentity`, that the
composition implements each of its parts.

**DeviceAgentProofs.** `AgentInv` has eight parts, one per piece of state, each with
the types of its variables: how long the cycle can have been at work at each place
(`WorkInv`), how old a sample (`ProbeInv`), the temporary file (`TempInv`) and
`clock.json` (`FileInv`) are, when a sensor looks again (`ReaderInv`), what a stop
leaves (`StopInv`), and how long ago the file was published, by the cycles begun
since (`BlipInv`). Each part is preserved under those it rests on. For
`HeartbeatInTime`, `QuietInv` bounds the silence at each place by a pause and the time
at work, and says that a cycle which can no longer end with a heartbeat (`Hopeful`)
has met a fault or a lost host since it began; a scan that starts while a host is up
still has one ahead of it (`ScanFinds`). Proved: `KilledOnlyMidCycle`,
`BlipTolerated`, `HeartbeatInTime`, and `ImplementsRegister`: `Spec =>
RegisterSpec`, the register being the age of the measurement in a whole file of
this boot; the rename is its write, a refresh its read, everything else but time,
stops and reboots stutters.

**RetentionProofs.** `RetentionInv` says that what is marked uploaded, or is about
to be retired, has been acknowledged or was retired by a migration. For `YoungStay`,
`StreamInv` adds that what a process is about to retire is of its stream, and
`KeptAsAsked` that `readConfig()` never keeps a reading shorter than its file asks:
where its `or`s pass over a value, that is a 0 or an empty one. Proved:
`OnlyAckedLeave`, `YoungStay`, and that the retention is never negative whatever an
accepted file says (`DaysOfAnyFile`).

Every invariant and every action property of the passing runs is a theorem. Only
model-checked are the liveness properties `BacklogDrains`, `GoesOn` and `Collected`:
they need fairness and ENABLED, which the prover does not have. The induction theorems
of the library take an operator as a parameter, which no backend instantiates; where
a proof needs induction over data (`PrimitiveRecursion`) it argues with the least
element of a set instead. No module uses RECURSIVE.

## What is not modelled

`vpd.py` (a formula), `__init__.py`, the text formats of the config file and of
`networkList.txt`, the config keys that only reach the backend, the systemd units
other than by what they promise the agent. Within modelled parts: jitter and read
latency, log messages, the SQL index, a schedule without `effectiveFromMs`, the two
subprocesses of `step_system_clock()`, `stop()` between two batches as anything
other than an exit, a `networkList.txt` that is not UTF-8 (it ends the agent, which
`Crash` covers), and what the server does with heartbeats and events.

## Plan

Done, in this order: the cache, delivery and the client with their proofs; the
scheduler; the times; the two due-times with the drain capacity; the published
clock and the agent; retention and configuration; the retry loops; the start of the
clients; and the proofs of all of them.

Left: a reason for the fairness of `BackendClient` inside the model, that is the
cycles of `ClientLoop` as a refinement of `BeginMaintenance` and `BeginUpload`;
`ReadingTime` with the register of `ClockRegister` in place of its `Publish` and
`Expire`.
