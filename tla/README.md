# Kiln controller: verification project

TLA+ models of the kiln controller in this repository, model-checked with TLC,
with theorems checked by TLAPS.  Paths are relative to `src/`; `service/…`
paths below `service/src/kiln_controller/` are written in short, so
`routers/device.py` is `service/src/kiln_controller/service/routers/device.py`.

## The system

A kiln device (ESP32 firmware, `device/`) samples its sensors once a period
and reports the samples to a service (`service/`, FastAPI on one asyncio event
loop with an SQLite database) over a websocket.  The service stores them in a
metrics server (VictoriaMetrics) and acknowledges them; until then the device
keeps them.  Users manage devices and firing schedules through a REST API,
with a browser frontend and a Python client library on top.

| part | state | operations | talks to |
|---|---|---|---|
| **Sampler** `device/sampler.*` | ring buffer: `start`, `current`, slots with `timestamp`, `sample_count` | `sample`, `currentSample`, `getSamples`, `discard` | called by the main loop and by telemetry; reads the clock |
| **Clock, scheduler** `device/time_sync.*`, `device/scheduler.*` | `offset`; `lastCall` | `now`, `setTime`; `shouldCall`, `loop` | set by telemetry's commands |
| **Device telemetry** `device/telemetry.*` | websocket, `reboot` | `send`, `dispatchCommand`, `webSocketEvent` | sampler, clock, service, registration |
| **Registration, boot** `device/registra*.cpp`, `device/device.ino` | stored registration, watchdog window, state of the main loop | `setup`, `loop`, `load`, `save`, `reset`, `handleSubmit` | REST API, telemetry |
| **Telemetry endpoint** `routers/device.py` | one task group per connection: reader, writer, command queue | handshake, `_reader`, `_handle_telemetry`, `_writer` | device, database, metrics client |
| **Metrics client** `metrics/victoriametrics.py` | – | `telemetry` (PUT) | metrics server |
| **Resources** `routers/base.py`, `models/` | tables of users, devices, schedules, phases | GET, POST, PUT, DELETE; validation; cascades | database, frontend, client |
| **Authentication** `routers/auth.py`, `dependencies.py` | session cookie | `login`, `logout`, `current_user` | every REST request |
| **Wire protocol** `device/protocol.*` | – | `pack`, `unpack`, `pages` | both ends of the websocket |
| **REST client library** `service/src/rest_client/` | resources with an id's life cycle, cached lists | `get`, `post`, `put`, `delete`, `expire`, `+=`, `del` | REST API |
| **Firing** `device/firing.*` | state, always IDLE | stubs | – |

What is hard, and what makes each part correct:

- *Sampler.*  The ring identifies samples by timestamps, while `discard`
  computes with slots.  The loop may stall, the service may move the clock
  either way, acknowledgements may be late or repeated, and the ring overwrites
  its oldest sample.  Correct means: ordered, every batch complete, nothing
  acknowledged is retransmitted for ever, nothing unacknowledged is released.
- *Device, service and metrics server together.*  Connections are lost, a
  failing task takes the command queue with it, a PUT may be stored without its
  answer arriving, a device may be deleted under its connection.  Correct
  means: a sample leaves the device for an acknowledgement only once it is
  stored, and every sample is stored once failures stop.
- *Resources.*  Rules span rows (a schedule's neighbouring phases, a user's
  devices) while requests write single rows, and requests interleave at every
  `await`.  Correct means: every schedule is continuous at all times, no row is
  orphaned, and nothing gets stuck.
- *Registration and boot.*  Power fails, answers and flash writes are lost, the
  flash holds what another firmware left, `setup` blocks under its watchdog,
  and only a 404 may end a registration.  Correct means: a device that runs
  will find its registration again, keeps it as long as the service does and
  comes to run with it, and otherwise comes to register.
- *Wire protocol.*  Both ends write the layout of every message down by hand, a
  message is up to three frames, and its fields become names in the metrics
  server.  Correct means: no message is refused or misread, and every field of
  every sample is stored under a name of its own, at the time of the sample.
- *REST client.*  Requests of other clients come between any two of its own,
  also within `+=` and `del`; requests fail, or take effect without an answer.
  Correct means: no row is made twice, lists do not hide what was done through
  them, and an id that was kept never comes to mean something else.

`PROJECT.json` lists the hazards at their lines, each with the properties that
watch it.

## Modules

| module | models | depends on |
|---|---|---|
| `SampleQueue` | abstract: what the sample buffer promises | – |
| `Sampler` | sampler, clock, scheduler; the two calls telemetry makes | refines `SampleQueue` |
| `SamplerProofs` | theorems about `Sampler` | `Sampler` |
| `SampleQueueProofs` | `Sampler` implements `SampleQueue` | `SamplerProofs` |
| `SteadyClockProofs` | what more holds of `Sampler` with a steady clock | `SamplerProofs` |
| `TelemetrySession` | the service's half of the websocket | – |
| `TelemetryLink` | device, network and service | instantiates `Sampler` and `TelemetrySession`, refines `Sampler` |
| `TelemetryLinkProofs` | theorems about `TelemetryLink` | `TelemetryLink`, instantiates `SteadyClockProofs` |
| `Protocol` | the bytes of messages, as each end declares them | – |
| `TelemetryWire` | frames, unpacking, metrics, answers | `Protocol` |
| `TelemetryWireProofs` | theorems about `Protocol` and `TelemetryWire` | `TelemetryWire` |
| `Registration` | boot, registration, the end of a registration | – |
| `RegistrationProofs` | theorems about `Registration` | `Registration` |
| `ScheduleStore` | users, devices, schedules, phases and their rules | – |
| `ScheduleStoreProofs` | theorems about `ScheduleStore` | `ScheduleStore` |
| `RestService` | a collection and the session, as one client meets them | – |
| `RestClient` | the client library: resources and lists | `RestService` |
| `RestClientProofs` | theorems about `RestClient` | `RestClient` |
| `MC…` | instances for TLC | |

### Sampler

Time is in ticks; `PERIOD` ticks are one sample period, and timestamps count
periods, as they count seconds on the device (`SAMPLE_PERIOD` is 1000 ms, the
`* 1000 / samplePeriod` of `discard` cancels).  `uptime`, `offset` and
`lastCall` are `esp_timer`, `TimeSync` and `Scheduler`; `start`, `current`,
`timestamp` and `sample_count` are the ring's fields.  The measured values are
left out.  `sent` is a history variable: the newest timestamp of every batch
transmitted, which are the only timestamps a service acknowledges (the link
module checks that it does).

| action | code |
|---|---|
| `LoopPass(d)` | `Scheduler::loop` in a pass of `Telemetry::loop` that comes `d` ticks after the previous one; `Sample` is `sample` with `currentSample` (open a slot, drop the oldest, clear; or go on filling) |
| `SetTime(o)` | `TimeSync::setTime` |
| `Send` | `Telemetry::send`: both stretches of `getSamples` |
| `Discard(ts)` | `discard` |

All of these run in the one Arduino loop task, so each is one atomic step; the
TODO at `device/sampler.h:105` is about a build where they would not.

### TelemetrySession and TelemetryLink

`TelemetrySession` has the endpoint's tasks: the reader between
`receive_bytes` (`reader = "receive"`), the PUT it awaits (`"storing"`) and its
answer (`"stored"`), the `queue`, and what has left the writer (`outbox`).  An
exception in either task ends the group (`TearDown`).  `stored` is what the
metrics server has; it belongs to no process.  The module has actions only;
`TelemetryLink` composes them with the device's: `Send` puts the batch in the
session's `inbox`, `Dispatch` takes a command out of `outbox` and applies
`Sampler`'s `SetTime` or `Discard`, `Connect` performs the handshake or receives
the 404 that makes the device register again.  The websocket library is
external and modelled from its use: frames arrive in order and once while the
connection lives, and everything under way is lost with it (`Lose`,
`SeeClose`).  A connection the device has given up may still hold a PUT whose
samples are stored; `Accept` lets it happen or not.

Faults are bounded by `MaxFaults`: connection losses, 2xx answers other than
204 (`Refuse`), and exceptions before or after storing (`StoreRaises`).

### ScheduleStore

`users`, `schedules`, `devices`, `phases` are the tables, reduced to ids,
owners and what the rules look at.  The ways requests use the database:

- POST inserts and validates in one transaction, which holds SQLite's write
  lock from the INSERT: one step (`CreatePhase`).  A refused request rolls back
  and is no step.
- PUT writes what it is sent; only the unique constraint can refuse it
  (`UpdatePhase`; `PutSchedule`, `PutUser` and `PutDevice` stand for POST and
  PUT, whose effects on what is kept here are the same: the owner is not looked
  up, and foreign keys are declared but SQLite enforces them only on request).
- DELETE reads and validates before its first write, and the driver opens a
  transaction only at the first write, so other requests fit in between:
  `DeletePhase`, `DeleteSchedule`, `DeleteUser`, `DeleteDevice` validate and
  remember what was read, `Commit` deletes those rows.  This is for the
  database in a file, as `service/Makefile` starts it.  The driver (aiosqlite
  with sqlite3's default transaction control) is external.

The constants `Overlap` and `PhasePuts` choose whether requests are handled
while a delete is, and whether clients PUT phases.  Phase order is expressed by
`Consecutive` on sets rather than by sorting, which also keeps the module free
of recursion.

### Protocol and TelemetryWire

`TelemetryLink` is about when telemetry is sent, stored and acknowledged;
`TelemetryWire` is about what is read, named and stored.  `Protocol` has the
layouts of both ends, each from its own source: `CSample`, `CTelemetry`, … are
the packed structs of `device/protocol.h`, `PySample`, `PyTelemetry`, … the
`struct.Struct` formats of `device/protocol.py`.  An integer in a message is
kept as what it is the value of (field and sample), and a byte string as its
size and the integers written into it, at their offsets; reading at another
offset or width gives `Garbage`.  `Offsets` is where packed fields lie, the last
one the size; `Concat` and `Slice` put byte strings together and take them apart;
`Pages`, `Unpack` and `Struct` are functions of `protocol.py` of nearly the same
names.

| action | code |
|---|---|
| `TakeSample` | `currentSample` finishes a sample, one period after the last or, if periods were skipped, more (`Gaps`); a full ring drops its oldest |
| `Send` | `Telemetry::send`: header and up to two pieces of the ring as frames, `fin` on the last |
| `Receive` | external: the websocket server makes a message of frames; a frame that does not continue what is open ends the connection |
| `Handle` | `_reader`: unpack, `VictoriaMetricsServer.telemetry`, acknowledge (`Store`); another 2xx (`NotStored`); after either a clock that is off is set (`Answer`); an exception, stored or not (`PutFails`); a message that cannot be unpacked (`Refuse`) |
| `Dispatch` | `dispatchCommand`: the payload read as the struct its type names; of an acknowledgement, `Discard` |
| `Lose` | the connection is lost and made again |

Samples are numbered as they are taken; the ring has `first` to `closed` of them
and the slot that is being filled, and `times` are their timestamps, in periods.
`Discard` is `sampler.cpp:122-156`: what it takes from the timestamps is a number of
slots (`DiscardCount`), which is cut down to the samples there are, so after
skipped periods it gives up more than it was asked to, as in `stalled`.  Unlike in
`Sampler`, timestamps only grow here: clock corrections are left to the modules
above.  `Seconds` is the conversion of the header's milliseconds.  `misread` records
that either end refused or misread anything.  That both ends are of the same
version is assumed.

### Registration

`state` is where the device is (`boot`, in `setup` after `load`
(`connecting`), `REGISTERING`, `RUNNING`), `job` what `handleSubmit` does next,
`ram` the global `registration`, `flash` what `Preferences` holds, reduced to
version, size and the device it names.  `network` says whether the network of
the form can be joined; `devices` are the service's.  `excused` and `trouble`
are history: the devices that were lost to a failure or a version, and how much
has gone wrong.

| action | code |
|---|---|
| `Boot` | `setup` up to `connect`: `load`, and `reset` of what it rejects |
| `Connect` | `connect` polls for 15 s under a watchdog of 15 s: without a network the device reboots |
| `Restart` | `loop` finds `reboot` |
| `Submit`, `Post`, `SaveAndReboot` | `handleSubmit`: the form, `registerWithService`, `save` |
| `Disconnected` | `webSocketEvent` with a 404: `reset`, `reboot` |
| `PowerFails`, `NetworkLost`, `NetworkBack`, `DeleteDevice` | the world; the first also stands for the watchdog |

`handleSubmit` takes seconds and power may fail at any time, so it is three
steps.  `reset` and `save` may fail, and nobody looks at their results.  Flash
starts empty, or as this or another firmware left it (`Blobs`).

The service of this repository refuses what the firmware posts: with 401, as the
device has no session (`dependencies.py:31`), or 422, as it sends no `user_id`
(`models/device.py:71`).  That, and no answer at all, is `Refused`, after which
the form is shown again.  The form takes any address, and with `Accepting` it may
be that of a service that answers as the firmware expects (`Accepted`); a
registration that is in flash from the start is of such a service.

### RestService and RestClient

`RestService` is the service as a client meets it: the rows of one collection,
the greatest id that SQLite's autoincrement has given, the users, and the
session's cookie.  Its actions are what answered requests do (`Create`,
`Update`, `Delete`, `List`, `Get`), those that are refused or never arrive
(`Refuse`), and other clients' (`Others`).

In `RestClient`, `objs` are the `Resource` objects with their `id` and
`_id_reason`, `held` those the program refers to, `list` and `expired` the
`ResourceList`, and `call` a `+=` or `del` that is under way.  Every request is
one step of both sides; a request that takes effect may lose its answer, which
leaves the object as it was and raises.  A `+=` of several resources is one step
for each (`AddNext`, `DelNext`), with other clients in between, and whatever
ends it expires the list (`Continue`).  History variables: `maker`, the object
each row was made from; `lost`, how many POSTs lost their answers; `behind`,
that the collection was changed through the list and not fetched since.

## Runs

| run | question | bounds |
|---|---|---|
| `steady` | Is `discard` exact, and oversampling bounded, when the clock is set once and no pass exceeds a period? | ring of 3, period of 4 ticks, 32 ticks: the ring wraps twice |
| `drifting` | What holds whatever the stalls and clock corrections? | ring of 4, passes of 1 or 5 ticks against a period of 2, three offsets, so the clock goes both ways and skips periods |
| `stalled` | Does `discard` release only what was acknowledged when a period was skipped?  No. | ring of 4 |
| `delayed` | Are acknowledgements always of stored samples, is the clock error bounded, and is the service the environment `Sampler` assumes? | clock commands up to 3 ticks late, one fault, two messages under way |
| `delivery` | Is nothing lost silently, is everything delivered once failures stop, does a deleted device find out? | prompt clock commands, two faults, 10 ticks: five periods over a ring of 3 |
| `store` | Do POSTs and DELETEs, one at a time, keep schedules continuous and rows attached, and can every schedule be taken apart? | 2 users, 2 schedules, 4 phases at 3 places, 2 temperatures |
| `store_puts` | What survives unvalidated PUTs? | 2 users, 2 schedules, 2 phases at 2 places |
| `store_put` | Does a PUT keep a schedule continuous?  No. | 1 schedule, 2 phases |
| `store_race` | Do overlapping requests?  No. | 1 schedule, 3 phases, 2 deletes at once |
| `client` | Whatever fails or is done by others: is nothing made twice, do lists show what was done, do kept ids stay harmless? | 2 rows, 2 users, 4 objects of which the program holds 2, 1 lost answer |
| `wire` | Do the two ends agree byte by byte, is what is acknowledged stored under names of its own, does `discard` give up no more beyond it than periods were skipped, does every sample leave the ring? | ring of 4, 4 samples one or two periods apart, 4 frames under way, 1 answer queued, 1 failure, 1 device state |
| `boot` | Through power failures, outages, lost answers and writes and foreign registrations: does a device run only when registered, keep its registration, and come to run with it or to register again? | 4 kinds of registration in flash, both kinds of service, 5 troubles |

A ring of three slots has every shape the code distinguishes: empty, one
finished sample, full, wrapped and not, and both stretches of a batch.
`drifting` uses four, because a `discard` that overshoots a full ring of three
would come round to where it should have stopped and leave no trace.  The
offsets are the smallest that reorder and skip periods.  Four phases are enough
for an insertion between neighbours and a removal from the middle with both
neighbours present, which is as far as the pairwise rules look.  Users,
schedules, devices and temperatures are interchangeable in `ScheduleStore`, so
its passing runs use symmetry; no liveness is checked there.

`client` has two rows and two objects held so that a list operation handles two
elements, the second after the first was made, lost its answer, or was deleted
by another client; the list needs two more objects.  The user who is logged in
can be deleted and another one made.  With two ids of users, no user is made
after the second is gone, so the half of `StaleIsHarmless` that is about the
session rests on its theorem.  In `wire` four samples are enough for a message
with two frames of samples, one of which has more than one sample, for a full
ring that drops its oldest, and for an acknowledgement across a gap that gives up
a sample too many; a sample's bytes do not depend on which it is.  One state is
enough, because a state is only read and looked up in `StateEnum`.  In `boot` the
form may name either kind of service; with this repository's alone no device
leaves `REGISTERING`.  The blobs are of this version and
size, of this version but shorter, of an older version and the same size, and
longer than the firmware's buffer.  `MaxTrouble` is five, so several failures
can follow one another during one registration; `MaxDevices` is beyond what
they allow and never bites; `MaxStuck` bounds the one endless loop there is
(see *Observations*).

`delayed`, `delivery` and `boot` switch deadlock checking off: in the first two
a device that was told to register again stops, and time is bounded; in `boot`
a running device changes nothing once nothing more may go wrong.  `OversamplingBounded` is about a
steady clock only: before the clock is set, or after it is set back, a slot
takes more sub-samples than `sample_count` can hold.

### Fairness

Three runs assume fairness, always weak, and never of a failure.

- `delivery`: the device's loop, its sender timer and its dispatching (the
  Arduino task runs for ever and its watchdog restarts it if it does not), the
  websocket library's reconnecting (`setReconnectInterval`), and the service's
  reader, writer and disconnect detection (one event loop, no task blocks it).
  Connection losses, the user's deletion and the metrics server's refusals have
  none.  `Delivered` is about what is pending when modelled time ends; every
  earlier sample was delivered before it or overwritten in a full ring.
- `wire`: sending, receiving, dispatching, and the service's reader, stated as
  `Reader`: the reader finishes its message without a failure, as the number of
  failures is bounded.
- `boot`: the steps of `setup` and `loop`, the service's 404 for a device that is
  gone, and the end of every outage.  Nobody has to submit a form, and no POST has
  to succeed: a device that registers may stay as it is for ever.  Failures are
  bounded by `MaxTrouble`, which stands for their coming to an end.

### What the violations show

- `stalled`: `discard` converts the distance of two timestamps to a number of
  slots.  With samples 3, 5, 6 pending, acknowledging 5 releases 6 too, against
  `device/sampler.h:122`.  In the runs with a steady clock this does not
  happen, and `NoSilentLoss` holds; `DiscardedAreStored` of `wire` bounds the
  loss by the periods that were skipped.
- `store_put`: `_update` never validates, against `README:37` and
  `models/_base.py:7`.
- `store_race`: the only phase, a ramp, is being deleted; before the commit a
  constant phase is created behind it; both requests succeed.

### Observations

Met while modelling; they are not runs, because the models leave out one side of
the disagreement, or have it as the behaviour that the properties allow for.

- `device/registration.cpp:11`: `load` reads flash into the registration itself
  and then rejects it, so `ram.version` is the rejected one, and `save` writes
  it back.  After a registration of another version with the same size, every
  new one is rejected at the next boot and the device registers again and
  again, until its power is cycled while flash is empty; `docs/README.md:59`
  has it start in operational mode.  `Registration` has the loop, as far as
  `MaxStuck` goes.
- `device/registrar.cpp:170`: the firmware posts `{"name": …}` with basic
  authentication.  `dependencies.py:31` wants a session (401), and
  `models/device.py:71` a `user_id` (422).  With this service a device does not
  get out of `REGISTERING` (`Refused`).
- `docs/README.md:270` has a watchdog of 2 s and `device/device.ino:10` one of
  3 s; `docs/README.md:486` has the device continue through outages, while one
  that boots during an outage is restarted by its watchdog until it ends
  (`device/registration.cpp:59` waits as long as `device/device.ino:9` allows).
- `device/sampler.cpp:71`: the arguments of `avg` have no parentheses, so with
  `sample_count - 1` for `COUNT` it computes `(A * n - 1 + B) / n`, adding about
  `B / n` with every sub-sample where a mean would add `(B - A) / n`.  A constant
  temperature sampled five times is reported about 2.3 times too high.
- `rest_client/_resource_list.py:55`: `refresh` empties a list before it asks
  for the rows.  If that fails, a list that had not expired is empty and stays
  so until something expires it.  (`RefreshFails` has the step.)
- `rest_client/_resource_list.py:129`: `+=` checks the types of its elements
  before it posts them; an iterator is used up by the check and nothing is
  posted.

## Theorems

TLC checks each property on a small instance first; each theorem then shows it
for every value of the constants that the named assumptions allow.  TLC
evaluates the assumptions in the runs.

### Sampler

`SamplerProofs` proves about `Sampler`, for every buffer size of at least 2,
every period, rate, pass length, offset and bound on time (`SamplerAssumption`,
which TLC also evaluates in the runs of `MCSampler`):

- `SamplerInvariant`: `Spec => [](TypeOK /\ Spaced /\ Dated /\ SentClosed)`,
  and its parts `SamplerTyped`, `SamplesDated` and `SentBatchesClosed`.
- `BatchesAreExact`: `Spec => []BatchExact`.
- `AcksReleaseAll`: `Spec => AckReleasesAll`.

The argument.  `TypeOK` is not enough for anything about the ring, because the
code mixes slots and timestamps.  `Spaced` is what ties them together: along
the ring from `start` to `current`, timestamps grow by at least as much as the
slots are apart.  It is inductive with `Dated` and `SentClosed`: a new slot
gets a timestamp greater than its predecessor's (`Advance` is only enabled
then), `Discard` only moves `start` forward, and by no more than up to
`current`, so all distances stay.  `Dated` is needed because the slot of an
unsynchronised clock has timestamp 0 and is reused instead of queued.
`BatchExact` follows from `Spaced` by cases on whether the ring wraps, and
`AckReleasesAll` too: a sample at distance `k` from the start has a timestamp
at least `k` above the oldest one, so `discard`'s count covers every sample the
acknowledgement does.  It is exactly the converse, that the count covers no
others, that `stalled` refutes.  The lemmas give the arithmetic of `Pos` and
`Wrap` and of the two stretches of `getSamples`.

`SampleQueueProofs` goes on from the same invariant:

- `RingImplementsQueue`: `Spec => QueueSpec`, the refinement of `SampleQueue`.
- `DropsOldestWhenFull`: `Spec => DropsOnlyWhenFull`.

The argument.  `Spaced` makes timestamps name slots: two slots of the ring have
different timestamps, so the number of pending samples is the number of slots
in use, and the oldest sample is the one at `start`.  Sampling opens a slot in
one of three ways: the first one, which queues nothing because its predecessor
is undated; a free one; or over the oldest when none is free.  Each maps to a step
of the queue, and only the third loses a sample.  A `Discard` maps to a step that
removes a prefix, because the slots it passes over are the oldest.

`SteadyClockProofs` proves what is false in general (`stalled`) and true when
the clock is `Steady`: every pass of the loop ends at least `RATE` before a
period is over (`Prompt`; with the firmware's `SAMPLE_PERIOD` of 1000 ms and
`SAMPLE_RATE` of 200 ms, within 800 ms), and all clock commands give the same
offset (`SetOnce`).

- `AcksReleaseOnly`: `Steady` implies `Spec => AckReleasesOnly`.
- `OversamplingIsBounded`: `Steady` and `Divides`, that a period is a whole
  number of rates, imply `Spec => []OversamplingBounded`.

The argument.  A call is never more than a period after the last one, so the
bucket of a call is that of the last call or the next (`UpToDate`, `Polled`),
and a new slot's timestamp is one more than its predecessor's.  `Gapless` says
so for the ring: from `start` to `current` timestamps grow by no more than the
slots are apart.  Together with `Spaced` it makes timestamps and slots differ by
a constant, and then `discard`'s count is exact.  For the counts, calls happen at
multiples of `RATE` (`Aligned`), so all but the first sub-sample of a slot were
`RATE` after the one before (`Counted`), and a slot is left when its period ends.
The constants of `steady` satisfy these conditions, and those of `stalled` do
not.

### The link

`TelemetryLinkProofs` proves about `TelemetryLink`, for any ring, epoch, delay,
number of messages under way and number of faults (`LinkAssumption`, in which a
command is late by less than the epoch, and `SamplingAssumption`, what `Sampler`
assumes of the constants they share):

- `AcknowledgedIsStored`: `Spec => []AcksAreStored`.
- `LinkImplementsSampler`: `Spec => SamplerSpec`, so that the theorems about
  `Sampler` hold of the device in the composition.
- `ClockIsBounded`: `Spec => []ClockBounded`, and `LinkTyped`:
  `Spec => []TypeOK`.
- `NothingIsLostSilently`: with commands that are not delayed (`Undelayed`,
  `MaxDelay = 0`) and prompt passes (`Prompt`), `Spec => NoSilentLoss`.

The argument is a chain of custody, and `AcksAreStored` is its last link only.
What a message carries covers what was pending when it was sent
(`MessagesCovered`); what the reader has stored is what its message carries
(`BodyStored`); an acknowledgement covers what is stored (`AcksCovered`).
*Covers* means: everything pending up to the timestamp.  It survives the
device's steps because these add nothing pending as old as what was ever
transmitted (`PendingAges`, from `Spaced` and `SentClosed`): clock corrections,
overwritten samples and discards only make the pending set smaller at its old
end.  It survives failures because they only drop messages, commands and
answers.  The clock's bound needs `SetTimesRecent`, that no command is later
than the bound on delays; with the bound below the epoch an offset is never
zero or negative, which is what makes the link's `SetTime` one that `Sampler`
allows.  `NothingIsLostSilently` joins the two halves.  Without delays
`ClockBounded` leaves two offsets, none and the epoch, so the device's clock is
steady; a discard then frees what its acknowledgement covers and no more, and
that is stored.  `delivery` is an instance of its conditions.

### Schedules

`ScheduleStoreProofs` proves about `ScheduleStore`, for any sets of users,
schedules, devices, places and temperatures and any number of requests under way
(`StoreAssumption`):

- `StoreTypes`: `Spec => []TypeOK`, and `CreatedPhasesFit`:
  `Spec => CreatedValid`.  Both hold however requests interleave and whatever is
  PUT, because a POST validates what it inserts in one transaction.
- Under `Serial`, one request at a time and no PUTs of phases:
  `SchedulesStayValid` (`Spec => []ScheduleValid`), `NoPhaseIsOrphaned`
  (`Spec => []NoOrphans`), `SchedulesComeApart` (`Spec => []Dismantlable`) and
  `DeletedUsersOwnNothing` (`Spec => UserLeavesNothing`).

The argument.  `TypeOK` is made inductive by what autoincrement ensures, that no
id is beyond `lastPhase` (`Typed`).  `ScheduleValid` is stated as a
property of the finished schedule, that every phase but the first has a
predecessor it fits; the code instead checks the pairs its sorted loop meets.
`ValidContinuous` shows that the second implies the first: a phase that is not
first has a predecessor, the phase of the schedule at the least distance before
it (`Predecessor`, from `LeastElement`, the well-ordering of the naturals).  A
delete acts in two steps, so `SerialInv` adds to
`AllValid` what the first step learned and the second relies on: `Deleting(r)`
says that what a delete under way has validated still holds.  With one request
at a time nothing can make it false before the commit.  `store_race` shows that
it does become false when requests overlap, and `store_put` that `AllValid` does
when phases are PUT: neither half of `Serial` can be dropped.  The commit of a
deleted phase preserves `AllValid` because ids are unique; of a deleted
schedule, because all its phases go; of a user, because it owned nothing.

### The REST client

`RestClientProofs` proves about `RestClient`, for any number of objects, rows,
users and lost answers (`ServiceAssumption`, `ClientAssumption`):

- `NoStraysEver` (`Spec => []NoStrays`), `ChangesShown`
  (`Spec => []OwnChangesShown`), `StaleHarmless` (`Spec => StaleIsHarmless`) and
  `ClientTyped` (`Spec => []TypeOK`).

The argument.  `Typed` adds to `TypeOK` the types of the history and what a call
under way may contain (`CallOK`): what `+=` has to post are objects the program
holds.  That every id given is
at most `lastRow` makes the next id new to every object, which is
`StaleIsHarmless`; the same holds of the users and the session.
`StraysBounded` counts: a step makes a row that no object knows only when it
loses an answer, and then one; an object forgets its id only when its row was
deleted, or when the program drops the object, and `maker` forgets it with it.

### Registration

`RegistrationProofs` proves about `Registration`, for any registrations found in
flash, any number of troubles, and with or without a service that accepts the
POST (`RegistrationAssumption`):

- `RunsRegistered` (`Spec => []RunningIsRegistered`), `OrphansAreExplained`
  (`Spec => []OrphansExplained`), `KeepsRegistration`
  (`Spec => RegistrationKept`) and `BootTyped` (`Spec => []TypeOK`).

The inductive invariant adds to these `Named`, that a registration about to be
saved, or in flash, names a device, and `Rejected`, that while the device
registers flash holds nothing that `load` would accept, and a device named
there is already accounted for.  `RegistrationKept` rests on the latter:
`SaveAndReboot` writes to flash only while it holds nothing to keep, as `Reset`
does by its callers' conditions.

### Messages in bytes

`TelemetryWireProofs` proves about `TelemetryWire`, for any ring and any
gaps between timestamps, any number of samples, frames under way, answers queued
and failures, and any states of `StateEnum` (`WireAssumption`):

- `NothingIsMisread` (`Spec => []Understood`), `DiscardedSamplesAreStored`
  (`Spec => DiscardedAreStored`), `SeriesAreOne` (`Spec => []OneSeries`) and
  `WireTyped` (`Spec => []TypeOK`), all from `WireInvariant`
  (`Spec => []WireInv`).
- `WithoutGapsDiscardedIsStored`: if no period is ever skipped (`Gaps = {1}`),
  `Spec => DiscardsStoredOnly`, that whatever `discard` gives up is stored.  Without
  that condition it is false, as `stalled` shows.
- `SameTypesSameValues`: of any two packed structs whose fields have the same
  types in the same order, one reads what was written of the other, each value
  at the place of its field.

`TelemetryLinkProofs` shows that acknowledgements are of stored samples when a
message is a set of timestamps; here the timestamp is what the device reads in
four of the bytes it receives, and a sample what the service reads in one of the
pages of a message.  The argument has three layers.

*Layouts.*  Where a field lies is a sum over those before it, for any sequence of
fields: `OffsetsDef` shows that the recursive function has the value it should,
`OffsetsGrow` that fields do not overlap, `SameOffsets` that only the types
count.  All three are by induction on the number of fields, which the provers
can use only over a set: `SetInduction`, from the well-foundedness of `<` on the
naturals.  So an integer that is read at the offset and the type of a field
is the one that was put there (`ReadLaid`, `UnpackLaid`), provided that whatever
follows lies behind the struct.  The proofs then look at the
structs themselves: `SampleLayouts` and `HeadLayouts` say that `protocol.h` and
`protocol.py` have the same types in the same order, and names that differ.

*Messages.*  The bytes of a header and of consecutive samples are `Body(state,
from, to)`, whether the ring made one piece or two of them (`BodyOfParts`).
`InSlice` shows that a page is a sample's bytes and nothing else, which comes
down to a division: samples have equal sizes, and no integer crosses their
borders.  Hence `ReadSamples`, that the service reads exactly the
samples `from` to `to`, and `ReportOf`, which metrics it stores.

*Steps.*  `DiscardedAreStored` is not inductive, nor is it with `Understood`.
`WireInv` adds what is under way.  Frames are of whole messages, of which each
continues the one before; a message's samples begin with the oldest that the ring
had when it was sent, and so no later than the ring does now (`FramesOK`).  The
open message fits the frame that comes next, and a connection that is lost takes
both (`MessageOK`).  So when a message is stored, everything in the ring up to
the newest sample it has is stored, and answers acknowledge only such samples
(`Answers`, `StoredFrom`).  Samples may leave the ring meanwhile, overwritten or
discarded without having been stored, which is why nothing is claimed of what is
before `first`.  Timestamps grow along the ring (`RingOK`).  Hence a count that is
not negative or zero is of an acknowledged sample that is still in the ring, and
exceeds its place there by the skipped periods only.  `first`, `closed` and what is
stored only grow, and `Grow` shows that nothing of this depends on their staying
as they were.
`Kept` says which metrics are stored; `RowsAreOneToOne` compares their
names.

### Only model-checked

Liveness (`Delivered`, `DeletedIsTold`, `AllReleased`, `ReturnsToRegistering`,
`RegisteredComesToRun`), which is out of the prover's reach.  Every other
property that a passing run checks is a theorem.

## What remains

- The running mean and minima of a slot's sub-samples against their definitions
  (`device/sampler.cpp:71`).
- Ownership and telemetry together: a device whose owner does not exist cannot
  store telemetry and sends the same samples for ever
  (`victoriametrics.py:128`).  `TelemetryLink` has the failing step, as one of a
  bounded number of faults.
- Overlapping requests with rules that hold under them: what `store_race`
  refutes holds if a delete validates after it has the write lock.

## Not modelled

- *Firing control* is a stub in the firmware; the commands only log.
- *Sub-samples*: the measured values.  Only their number is kept.
- *The frontend, the dashboard and the build files* have no protocol of their
  own.
- *Names, credentials and rates*: usernames and their uniqueness (a 409 is a
  refused request), passwords, which are right or refuse the request, phases'
  durations and rates, the tags of metrics.
- *Rows made by PUT by other clients*, which the comment at `base.py:149` warns
  of, `id = None` set by hand, and `_testing_shadow` in the client library.
  Lists within a resource are of the same class as the list that is modelled.
- *Messages of another version* of the protocol, and the access point's pages
  and network scan, which keep no state.
- *The administrator of a new database* in `ScheduleStore`, which starts without
  users; deleting the administrator leads there.
