# A verification project for panoseti_grpc

TLA+ models of the services under `src/src/panoseti_grpc`, TLC configurations that
check them on small instances, and TLAPS proofs. `PROJECT.json` lists the
components, the runs, the map from definitions to source lines, the hazards and
the theorems; this file explains them. Paths below are relative to
`src/src/panoseti_grpc/` unless they start with `src/`.

## 1. Inventory of the system

| Component | State | Operations | Hard behaviour | What makes it correct |
|---|---|---|---|---|
| daq_data edge, client access (`daq_data/managers.py` ClientManager, `state.py`, `server.py`) | reader slots, reader count, reader and writer locks, cancel event, shutdown event | StreamImages, InitHpIo, shutdown | a lock kept across `context.abort`, tests that are stale after a lock wait, a shared cancel event, cancelled RPCs | slots and count agree; no stream under an unforced reconfiguration; everyone who waits is answered; shutdown drains |
| daq_data edge, hp_io (`managers.py` HpIoTaskManager, `hp_io_manager.py`, `simulate.py`, `server.py` serve) | tracked task, stop and valid events shared by all generations, simulation set-up and loop, product queue | start, stop, HpIoManager.run, the initial task, InitHpIo with restore, shutdown | time-outs that cancel, swallowed cancellations, events of another generation, callers without the lock | one live task; events meet their task; truthful answers; shutdown returns |
| daq_data edge, frames (`data_sources.py`, `hp_io_manager.py`, `server.py` `_get_fresh_images_for_client`) | bounded queue, frame ids, cache of newest frames, last sent ids in client slots | a frame is received, cached, polled; slots are reused | back-pressure, ids that restart, ids compared between modules | nothing lost or reordered; nothing sent twice; the newest frame arrives |
| daq_data gateway (`aggregator.py`) | stubs of the edges; per stream a drain task per edge and a queue of 200 | StreamImages fan-in; InitHpIo and Status proxies; start-up, shutdown | a slow consumer, a failing edge, clean-up with a full queue; an edge that is configured after its deadline | order, no loss, isolation of edges, termination; an answer that is true of the edges |
| daq_control (`daq_control/server.py`, `manifest.py`, `client.py`) | tracked pid, lock, run directories, manifest | StartDaq, StopDaq, StatusDaq, CleanupData, GenerateManifest, GetManifest, GetManifestDigest, RetryFailedTransfer, GetTransferStatus | an external process that outlives the server, process scans that age across awaits, cancellation while a process is spawned, calls repeated by the channel | one hashpipe; a stop that stops; nothing deleted before it is copied; every call answered |
| telemetry, logs (`telemetry/server.py`, `client.py`, `logger.py`) | bounded queue and thread of the log handler, batch queue in memory, Redis, fallback file | get_logger, Log, batch worker, stop | a full queue, a server or a Redis that is down, a reply that is lost, a stop during a batch, one handler shared by all loggers | each record is accounted for, in order, and settles |
| telemetry, devices (`telemetry/server.py`, `client.py`, `config.py`) | a hash per device in Redis, with or without a lifetime | ReportStatus | transactions that overtake each other, another configuration after a restart | a record is that of its newest report, and lives as long as that report says |
| ml_inference (`ml_inference/server.py`) | subscribers, bounded queues that drop the oldest | EmitPrediction, StreamPredictions, SubscribeAlerts | slow subscribers, clients that vanish in a yield, a context that has not the method it is asked | the newest is kept; what is scored arrives |
| unified server (`server.py`) | services, background task, shutdown event, shared health status | start, signal, stop | the order of stopping, a signal during start-up | all services are shut down |
| ublox_control (`ublox_control/server.py`, `initialize/conf_gnss.py`) | serial port, reader task and thread, cache, subscriber queues; the registers of the receiver | InitF9t, CaptureUblox, stop; the configuration script | calls that overlap in threads, a reader that ends, full queues; answers that are late, missing or negative in the middle of a transaction | one port, known to the servicer; readers and captures end; groups of settings applied whole or not at all |
| client classes (`*/client.py`) | channel, valid hosts, merged streams | unary calls, streams, close | a server that is down, silent or back; a call repeated although it was executed; streams of several hosts merged | a result is true of the server; packets are not mixed up; calls and streams end |
| PFF files and the time of a frame (`panoseti_util/pff.py`, `daq_data/resources.py`) | a file of frames | wr_to_unix, img_info, time_seek | 10 bits of a second, clocks that differ, missing and unfilled frames | right times; a search that ends close to its target |
| grpc_utils (`grpc_utils/`) | health status, retry policy | toggle, decorators | an uncounted toggle shared by overlapping calls, an attempt that outlives its retry | serving is reported when it is so |
| command lines, plotting, configuration, generated and vendored code | none that outlives a call | | | |

How they interact: clients call edges directly or through the gateway, which is a
client of the edges; the daq_control server starts hashpipe, whose snapshots the
edge reads from unix sockets (`UdsDataSource`); every service logs through the
telemetry handler; the unified server hosts any of the services in one asyncio
process. Inside a process everything is coroutines on one event loop, so an
interleaving is possible exactly at an `await`; the exceptions are functions run
with `asyncio.to_thread` and the worker thread of the log handler. In all modules
one action is the code between two awaits of one coroutine, and each place where a
coroutine may be suspended is a value of its state variable.

## 2. What is modelled

Each module starts with a comment that says which code it models and what it leaves
out; each definition names the function it translates where its own name does not.

### ClientManager, ReaderPool

`ClientManager` models `get_reader_access` and `get_writer_access` with the
StreamImages loop, the writer section of InitHpIo and `shutdown()`. `slot` and
`activeReaders` are `_readers[...].is_allocated` and `_active_readers`, kept apart
because the code keeps them apart; `readersLock` is the holder of `_readers_lock`
across an await (the refusals, which await `context.abort` with the lock held);
`reader` and `writer` say at which await an RPC is. A stream can be asleep between
polls, suspended in a `yield`, or on its way out; a client may disconnect at each.
hp_io is one bit, `hpValid`, that changes at any time, also while a writer configures;
`HpIoLifecycle` is where it comes from. A writer section may never end: nothing makes
a writer that configures leave (`EndRefusal` is only the refusal of an RPC that could not
start configuring). `ReaderPool` is what callers are promised: a bounded pool that closes.
`ClientManager` implements it with `inside <- Holding` and `closed <- shutdown`.

### HpIoLifecycle

Each `start()` makes a new `HpIoManager`, numbered by generation; one stop event and
one valid event serve them all. `runs[g]` follows `HpIoManager.run` of one
generation and its simulation set-up; `call[c]` follows each caller of `start()` and
`stop()`: InitHpIo (which holds the writer lock, fails, restores the former
configuration, may be cancelled), the initial task, and the coroutine that shuts
down. Both 2 s time-outs, the 10 s wait for the valid event, the failed set-up and the
task that swallows its cancellation are actions.

`setting` never changes. `unified` chooses between the shutdown of the standalone
`serve()`, which calls `stop()` before it closes the gRPC server, and that of
`PanosetiServer.run`, which closes the gRPC server, calls `stop()`, and then cancels and
awaits the initial task. `serial` FALSE is the code: only InitHpIo calls
exclude each other. `serial` TRUE adds the guard that two callers of
`start()`/`stop()` do not overlap, as if all took the writer lock: what holds then is
what `start()` and `stop()` guarantee on their own (section 4 says what the missing
lock costs). `configs` limits what InitHpIo asks for, a bound.

### FrameStream

Each data product has a socket; a connection to it gets a handler of its own
(`_handle_client`), which blocks on the full queue. `_processing_loop` discovers
modules and products, numbers the frames and keeps the newest of each module and type;
`_get_fresh_images_for_client` polls that cache. A frame is its module, its connection
and its number in both; `last` is the `last_sent_*_id` of a slot, reset when a client
leaves (`ReaderState.reset`). Hashpipe closes a connection and opens another when it
likes. A reconfiguration closes the sockets, drops queue and cache and starts the ids
again; the last ids of the readers stay. It may come while streams are open: a forced
InitHpIo only pulses the cancel event, and a reader that sleeps through the pulse goes on.
`since` is a history variable, the reconfigurations there had been when a stream was opened.
Requests choose modules, in any order, and types.

### GatewayFanIn, GatewayProxy

`GatewayFanIn`: the drain tasks of the gateway's StreamImages, the queue they share,
their sentinels, the handler that yields and counts sentinels, the disconnect and the
clean-up (`cancel`, `gather`). Edges answer, end or fail when they like.

`GatewayProxy`: InitHpIo and Status of the gateway, one call to all edges at once with a
deadline for each. An edge runs its handler also for a call that has timed out or
has been sent again by the channel, and loses its configuration when it likes. `config` is the
call an edge was configured by last; `held` is a history variable, all it has been since the
present call began. `MCGatewayFanIn` puts streams and calls side by side.

### DaqControl

The handlers of the DAQ control server, and its termination by `serve()`, around one external process. `proc` is the
life of each hashpipe process: running, killed (SIGKILL on its way), zombie, gone. A
scan by name finds zombies (`_get_pids_by_name`), `is_hashpipe_running` does not; the
difference is the difference between `Found` and `Alive`. A scan in a thread is one
action and the use of its result another, so it can be stale. StartDaq holds the lock
while it looks, makes directories and spawns; cancelled while the pipes are connected
the transport kills the process and waits for it, lock held. StopDaq, StatusDaq and
CleanupData take no lock. `dirs` and `manifest` are the run's directories, in the
order CleanupData deletes them, and the contents of the manifest in the first;
`rmtree` may raise half way because files appear under it. A server may start with
a hashpipe of an earlier one running, and restart at any time. Numbers of manifests
stand for contents: a manifest made again may be the same or another.

### ManifestTransfer

The calls by which a head node copies a finished run and then has it deleted. The
server side is the code's: `compute_manifest` in a thread, which lists the files, reads
them one by one, writes a temporary file and renames it; the stream of GetManifest,
which goes on reading the file it opened when the name is given to another; the
digest; a selective CleanupData with its comparison. The daemon that calls them is
not in the repository; `head` follows the order of
`src/docs/daq_control_service.md`. The channel repeats a unary call after UNAVAILABLE
(`grpc_utils/retries.py`) while the first attempt may still run: an attempt is a
thread of its own here, and an inode is named by the attempt that wrote it. Two heads may
transfer the same run.

### LogPath

A log record on its way: `get_logger`, which attaches the one shared
`AsyncGrpcHandler`; the handler's bounded queue and worker thread; the `Log` call,
which validates and answers "Queued"; `RedisBatcher` with its queue, the batch in flight,
the push and the fallback file. Redis goes and comes back, and a push may have
been executed although its reply is lost: `PushAgain` is the client of Redis sending it once
more, and the code's `except` clause writes the batch to the file. The
server stops as the code does, which closes Redis under the batcher, or crashes.
`arrived` is a history variable, the order of the answers; `gone` says what was lost,
so that `LogsAccounted` can say that nothing else was.

### DeviceStatus

`ReportStatus`: the key of a device and its lifetime by the configuration that is
loaded, validation, and one MULTI/EXEC. A report is its number, in the order in which
the handlers began. Handlers have connections of their own, so Redis takes their
transactions in any order, also after the handler or the server is gone, and the client of
Redis sends a command again when its reply is lost. A restart may load another
configuration. Left out: a field that only an earlier report carried stays in the
hash (HSET); devices of one type do not meet.

### MLBroker

The registry of subscribers with its limits, the broadcast that drops the oldest item
of a full queue, the handler loops that look at their context, take, filter and yield, and
clients that read slowly, stop reading or leave in each of their awaits. A filter is the
set of predictions it lets through. `IsActive` is what `await context.is_active()` may do,
which is grpc's: answer, or raise. With the grpc.aio of `src/pyproject.toml` it always
raises (section 4), in the step in which the queue was registered, and every subscription is
over before it has waited for anything. The model keeps the other outcomes as well,
because the loop was written for them, and with them alone are the registry's limits and its
queues ever put to use; what `NewestKept` says of a queue is therefore about this code under a
context with such a method.

### UbloxControl, F9tConfig

`UbloxControl`: InitF9t stops the reader, opens the port, runs the steps of `conf_gnss` in
threads and starts the reader; it reads `_serial` and `_io_task` again after each await, and
fails or is cancelled at each. Ports, tasks and threads are named by the call that made
them. A reader is a task around a thread: cancelling the task leaves the
thread, which ends at its next read of a closed port. `_distribute_packet` runs on the
event loop, hence `inbox`. CaptureUblox keeps `_cache_lock` across the yield of the cached
packets.

`F9tConfig` looks inside the step that `UbloxControl` takes as one: the conversation of
`conf_gnss.main()`, or of InitF9t, with the receiver. It polls model, unique id and
settings, splits the two groups of settings into messages (a transaction of several
when there are too many for one), awaits an acknowledgement of each and verifies. The
receiver, which is external, answers late, refuses any message or is
unplugged; `line` holds what is under way in both directions, so that an answer may come
when the host waits for the next one.

`MCUbloxControl` runs one or the other; the interface is that a step of InitF9t
ends, well or not.

### UnifiedServer

`PanosetiServer.run`: servicers created in `INIT_ORDER` (a factory may raise), the
background task of daq_data (an edge's initial task, whose insides are in
`HpIoLifecycle`, or a gateway's `startup()`, which opens channels), the signal, and the
three stages of the shutdown. `HealthToggle` is shared by all services; the
calls that flip it are abstract. The role of daq_data and the services enabled are chosen
in `Init`.

### Clients

The nine client classes as one module: a class is a record of what distinguishes it
(retries, keep-alive, opened by `with` or by the constructor, translation of errors) and
a method one of what it asks (a deadline, an effect on the server, what it makes of a
reply). Hosts go down, which breaks connections, or silent, which does not, and come
back; `served` are the attempts servers still work on, also when their client has given up
or sends the call again. `capture_ublox()` merges the streams of several hosts through
a queue and sentinels; `labels` are the pairs made by `zip`.

### WhiteRabbit, PffFile

`WhiteRabbit` is `wr_to_unix` in its three versions: the second of a frame from the low
10 bits of its TAI second and the Unix time of the DAQ node. `PffFile` is a file of
headers, with missing and unfilled frames, and `time_seek`, whose interpolation stays in
integers. `MCClients` runs it beside the clients.

### How the modules meet

`ClientManager` takes hp_io as a bit that `HpIoLifecycle` explains; `FrameStream` takes
from `HpIoLifecycle` that there is one live generation, and nothing from `ClientManager`:
it lets a reconfiguration come at any time; `GatewayProxy` takes an edge's
InitHpIo as one step; `UnifiedServer` takes from `HpIoLifecycle` that an edge's
`shutdown()` returns; `ManifestTransfer` takes from
`DaqControl` a run that has stopped; `UbloxControl` takes from `F9tConfig` that a step ends.
The interfaces are named in the module headers. The MC modules that name two
or three modules put them side by side in one run, and do not interleave them: the product of
the state spaces is beyond TLC. So `MCServices` has the unified server, and two of the services
it hosts, the broker and device status; `MCClientManager` has two casts of clients.

## 3. The runs

All runs but two pass; `silenced_stream` and `broker_grpc` each show a sentence of the
repository that the code does not keep, and TLC's counterexample. Each takes between some
seconds and three minutes with two workers.

| Run | Properties | Bounds |
|---|---|---|
| `client_manager` | `SlotsAccounted`: slots, count and streams agree. `WriterExclusive`: the cancel event belongs to a writer that configures, and without force no stream runs then. `ImplementsReaderPool`: the refinement. `ShutdownDrains`: streams end at a shutdown. `Served`: a StreamImages that waits for the readers lock is answered whatever writers do; an InitHpIo that waits for the writer lock gets it or an answer, unless one that has it configures for ever | 2 slots (so that one is refused and slots are reused); 3 readers and 1 writer that calls again and again, forced or not, or 1 reader and 2 such writers |
| `hpio` | `OneLiveTask`. `EventsOwned`: the stop and the valid event belong to the tracked task. `AnswersTrue`: InitHpIo's answer is what runs. `WritersAnswered`, `ShutdownReturns` | initial task, one InitHpIo with its restore, shutdown: three generations. Settings: `serve()` with callers apart and live and simulated configurations; the unified server with overlapping callers and live configurations |
| `frame_stream` | `PipelineInOrder`: nothing lost or overtaken on the way to the cache, ids tell frames apart. `NeverTwice`: nothing sent again, older or unasked. `NewestArrives` | 2 modules, 2 products of different types, 2 connections, 3 frames, a queue of 1, 1 slot used by one client after another, 1 reconfiguration |
| `silenced_stream` | violated: `NewerFound`, a poll finds the newest image | the same |
| `gateway` | `NothingLost`: each edge in order, without gap. `ProxyHonest`: success means every edge, by this call. `CallersServed`: responses arrive, streams end, calls are answered | 2 edges, 3 responses each, a queue of 2; 3 calls |
| `daq_control` | `OneHashpipe`. `StopStops`: a success of StopDaq is true. `CleanupFindsLost`: nothing is deleted under a hashpipe the server lost track of. `DigestGuards`. `CallsAnswered` | 2 calls that overlap, 2 processes, 2 directories, a manifest and a digest of another, 1 restart |
| `manifest_transfer` | `NoUnverifiedDeletion`. `StreamWhole`: a manifest arrives whole also when it is replaced. `TransferEnds` | 2 heads, 2 files, 2 attempts per call, 1 broken connection or crash |
| `log_path` | `LogsAccounted`: no record is lost for a reason the code has not, doubled or moved in front of another. `RecordsSettle` | 2 loggers, 4 records of which one is invalid, handler queue 1, batch 2, 2 get_logger calls, 1 outage or lost reply, 1 stop or crash |
| `broker_grpc` | violated: `LastArrives`, the newest prediction reaches who subscribed before it | the broker of `services`; `is_active` raises |
| `ublox` | `OnePort`: no descriptor leaks. `ConfigTrue`: groups are whole, what was acknowledged is in the receiver. `AllEnd`: readers and captures end | 2 InitF9t calls, 1 capture, 2 packets, a queue of 1, a shutdown; groups of up to 5 settings in messages of 2, a position south of zero, all flags |
| `services` | `ServingWhenIdle`: health. `SignalEnds`: a signal ends the server with nothing left open. `NewestKept`: a queue of the broker is the newest part of what was sent, without gap; clients read in order. `StatusTrue`: a record has its report's lifetime, an answered report is not undone by an older one, what an unknown device sends (`SANDBOX:` keys) always has a lifetime | every choice of services and role, 2 calls at a time, 2 edges. Broker: 2 streams for 1 slot, one of which may stop reading, 1 alert subscriber, 4 predictions, queues of 2, every outcome of `is_active`. Devices: 2 clients at a time, a production and an experimental type, either of which may be missing in the configuration, 3 reports, 2 faults |
| `clients` | `AnswersHonest`: a result is true of the server. `MergeFaithful`: merged streams are not mixed up. `TimesTrue`: the time of a frame. `SeekClose`: a search ends close to its target. `CallsReturn`, `StreamsEnd` | any class, 2 hosts, 2 calls of 3 attempts or a stream of 2 messages per host, 2 faults; files of up to 6 frames with any missing, and of 14 frames with a gap anywhere, of which one is unfilled, around a wrap of the 10 bits, clocks from one second behind to two ahead |

Why the bounds are enough: each protocol is symmetric in its clients, and each hazard
involves two or three actors and one reuse of what they share (a slot, a generation, a
full queue, a pid, a key, an inode). The bounds allow exactly that: more readers than
slots, more items than queue places, one generation more than InitHpIo needs to
restore, a second process after the first, a second attempt after the first, a third report
that another one in flight can undo, a third message of a transaction. Two calls are
enough for `daq_control` because
the initial states include a hashpipe that already runs and a run that was recorded. The
files of `clients` are long enough for `time_seek` to look at several frames.
Deadlock is checked in `client_manager`, whose clients come again for ever. The other
configurations say `CHECK_DEADLOCK FALSE` because the systems really stop there: calls,
frames and records are bounded, a gateway stream ends, a server is shut down.

**Fairness.** The event loop runs every coroutine that stays ready: weak fairness of
the step it is about to take, for a timer too (`asyncio.sleep`, `wait_for`), since time
passes. A thread that can go on does, hence weak fairness of the handler's worker, of
the manifest's and of the reader's thread. `asyncio.Lock` and `asyncio.Queue` serve
their waiters in order: a waiter that finds the lock or room again and again gets it,
hence strong fairness of taking a lock (`Resume`, `Leave`, `EnterWrite`, `EnterInit`,
`StartEnter`, `CaptureLocks`) and of a blocked `put` (`Unblock` in `GatewayFanIn`).
That a writer section of `ClientManager` ends is not among the assumptions: `start()` inside
it waits without a time-out (section 4). `Served` therefore lets an InitHpIo wait for ever
behind one that does; with callers kept apart `HpIoLifecycle` shows that none does
(`WritersAnswered`).
The initial task runs at some time (`BootStart`, or `BootFails` when its configuration is
not readable), and the shutdown of a unified server, once begun, goes on to the servicers
(`BeginShutdown`). StopDaq's waiting ends after ten rounds
(`StopWait`). A `Log` call is answered or meets its deadline (`Expire`). A unary call to an
edge, or of a client, is answered or meets its deadline; keep-alive finds a silent host
where the channel asks for it; a server that has taken a request works on it to its end
(`Clients`). Nothing else is assumed of
clients, of edges, of Redis, of the receiver or of hashpipe, with three exceptions: a
killed process ends and is reaped; a client that reads a stream goes on reading
(`GatewayFanIn` until it disconnects, `UbloxControl`, `Clients` until it leaves, and in
`MLBroker` those outside `Stalled`); in `ManifestTransfer` a head goes on with its own
steps. `DeviceStatus` and `F9tConfig` state no liveness of the code beyond what
their invariants say.

**Mutants.** Each property of a run has a mutant in `PROJECT.json`: a named
operator beside the one it replaces, marked "Mutation", that changes the code the way
a slip would (no lock, no reset, a signal lost, a sentinel put in front, a transaction
split or never committed, a sentinel only on success, a manifest written in place), under which TLC finds the property
violated.

## 4. What the code does that its documents do not say

Each is what the models do. The first two are shown by a run of their own; no other property
contradicts any of them, and where one holds only under a condition, the property or the
table of section 3 states it.

* A stream that sleeps through a forced reconfiguration keeps its last sent ids, while the
  frame ids start again. Until they have caught up, or `reader_timeout` ends the stream, the
  newest images are not found (`daq_data/server.py:199`), while the comment of
  `_get_fresh_images_for_client` (line 184) says that it "checks the cache for images newer
  than what the client last received". Run `silenced_stream`, `NewerFound`; `NewestArrives` is about
  streams that were opened in the present generation.
* `StreamPredictions` and `SubscribeAlerts` await `context.is_active()`
  (`ml_inference/server.py:191`, `:220`). The servicer context of grpc.aio has no such method:
  the handler raises AttributeError at its first look and unregisters, and no prediction reaches
  anyone, while `src/docs/ml_inference_service.md:62` promises a "Live stream of all
  scored windows". No test of the repository runs a subscription. Run `broker_grpc`, `LastArrives`.
  With `IsActive = {"true", "false"}` the property holds.

daq_data:

* The cancel event is set and cleared without waiting for the streams, so one that sleeps
  through the writer section goes on (`daq_data/managers.py:177`), while
  `src/docs/daq_data_service.md:116` says that force cancels all of them.
* `start()` trusts the shared valid event and then waits without a time-out for its own
  generation's products: replaced by an overlapping caller it waits for ever, and so
  does the standalone `serve()` (`daq_data/managers.py:74`, `daq_data/server.py:353`).
  The same overlap can leave two hp_io tasks alive, one of them untracked
  (`daq_data/managers.py:112`). `OneLiveTask` is therefore stated, and `ShutdownReturns`
  for `serve()` checked, with the callers kept apart. The unified server's shutdown
  returns even so, because it cancels the initial task.
* An InitHpIo that is accepted between `servicer.shutdown()` and `server.stop()` starts
  a task nobody stops (`daq_data/server.py:349`).
* `_drain_edge` puts its sentinel from a `finally` clause even when it is cancelled; with
  a full queue nobody takes it, and the clean-up waits for ever
  (`daq_data/aggregator.py:188`). `CallersServed` states the room it needs.
* An edge that needs longer than the gateway's 15 s is configured after the gateway has
  reported its failure (`daq_data/aggregator.py:224`). The client's own 10 s are shorter than
  what the gateway and the server may take (`daq_data/client.py`).
* Frames of an old and of a new connection of one product may interleave while the handler
  of the old one waits for room in the queue (`daq_data/data_sources.py`); hence
  `PipelineInOrder` speaks of the frames of one connection.
* `img_info` and `time_seek` skip frames that were never filled by their zero time
  (`panoseti_util/pff.py`), but `wr_to_unix` raises for these: the loop is never run, and a
  simulation from such a file fails to load it. With missing frames `time_seek` may be off
  by as many frames as are missing. A header that ends early makes `read_json` loop for ever.
* One last-sent id is compared with the ids of all modules, so a module whose newest
  frame is older than its neighbour's is skipped (`daq_data/server.py:199`), while
  `src/protos/daq_data.proto:77` promises all modules.

daq_control:

* CleanupData decides on one scan and deletes after further awaits, without the lock; a
  StartDaq in progress spawns hashpipe in between (`daq_control/server.py:615`), while
  `src/docs/daq_control_service.md:170` says "Blocked while Hashpipe is running".
* The poll at the end of a start reads the shared `hashpipe_pid`: a start that failed can
  answer success for the process of another (`daq_control/server.py:421`).
* The comparison before a deletion is of the manifest's hash only: with no manifest nothing
  is compared, and with several algorithms the first in directory order is taken
  (`daq_control/server.py:654`). RetryFailedTransfer always uses sha256 and
  looks at the first module id alone.
* GetTransferStatus looks at `hashpipe_pid` only: after a StopDaq that reset it, or a restart,
  it says that hashpipe is not running while it is.
* A StartDaq that the channel repeats may raise ValueError, although the first attempt has
  started the run (`grpc_utils/retries.py:18`). A reply without success does not mean that
  nothing was done: StartDaq may have started a hashpipe whose pid a StopDaq reset
  (`daq_control/server.py:421`, `:495`), StopDaq and CleanupData may have done a part.
  `AnswersHonest` therefore says what success means, and that a client that sends each request
  once, when it has a reply of either kind, has nothing of the call left at work behind it. StartDaq, StatusDaq and CleanupData of the
  blocking client have neither a deadline nor keep-alive, and wait for ever for a silent node.
* The comment at `server.py:388` on the health status does not hold while calls overlap:
  the toggle is not counted, and the first call to end reports SERVING for all.
  `ServingWhenIdle` is about a service without calls.

telemetry:

* The second `get_logger()` of a name closes that logger's handlers, the shared gRPC
  handler among them; records of every logger of the process are dropped from then on
  (`telemetry/logger.py:241`).
* Nothing calls `RedisBatcher.shutdown()`: at a stop, what is still in memory is written
  only if the batcher's task gets to it before the process ends.
* A push whose reply is lost is repeated by the Redis client, and may then be
  written to the file too: `logs:ingress` may hold a batch more than once.
* `log_flexible` and `log_strict` speak of a record with a lifetime and of a permanent
  one; `DeviceConfig` lets an entry of either mode have any lifetime. Two pairs of prefix
  and id can make the same key.

ml_inference, ublox_control:

* Alerts are filtered with the default threshold before a subscriber's own is looked at
  (`ml_inference/server.py:157`), so a lower threshold in a request has no effect
  (`src/docs/ml_inference_service.md:207`).
* Verifying a configuration with settings always raises TypeError
  (`ublox_control/initialize/conf_gnss.py:224`, `:431`), so that such an InitF9t, or run of the
  script, fails at the end although the settings are in the receiver: only an empty
  plan is ever verified. A setting that cannot be coerced raises TypeError, too, where
  a warning was meant (`warning(..., file=sys.stderr)`).
* `_await_ack` takes a late acknowledgement, also that of a poll, for the one of the next
  message (`conf_gnss.py:120`). `ConfigTrue` is therefore about acknowledgements that come
  in time.
* `AioUbloxControlClient.init_f9t` gives the request a field `f9t_cfg`, which it does not have
  (`f9t_config`), and raises for every valid host; without a valid host the blocking client
  answers True (`all([])`). `ping` calls a silent host reachable. With a host that is not
  valid among those asked for, `capture_ublox` labels packets with another host's name
  (`ublox_control/client.py:208`); `MergeFaithful` assumes that all are valid. Leaving
  the iterator early leaves its tasks until the channels are closed.
* The ML inference clients raise the bare `RpcError`, the others `PanosetiRpcError`.
* An InitF9t that fails closes whatever `_serial` is by then; one that is cancelled leaves
  its port open until the next; `stop()` leaves the thread, which ends by itself;
  `force_init` cancels no client. A capture whose client stops reading keeps
  `_cache_lock` in its yield, and the other captures wait.

## 5. What is proved

Each proof module extends the module it is about, so its theorems hold for every value of
the constants that satisfies that module's ASSUME, which TLC evaluates in every run; the
assumptions say no more than what the comments of the CONSTANTS do (sets of clients are
finite, numbers are positive, names differ).

**Access to the edge** (`ClientManagerProofs`), for any sets of readers and
writers and any positive number of slots (`ClientsAssumption`: readers and
writers are disjoint, `None` is neither):

| Theorem | States |
|---|---|
| `TypeCorrect` | `Spec => []TypeOK` |
| `Accounting` | `Spec => []SlotsAccounted` |
| `SlotSearch` | `Spec => []SlotSearchSucceeds`: the INTERNAL branch of `get_reader_access` is dead code |
| `QuietReconfiguration` | `Spec => []WriterExclusive` |
| `Refinement` | `Spec => ImplementsReaderPool` |

`TypeOK` and `SlotSearchSucceeds` are proved only; a run would add nothing. `WriterExclusive`
is `CancelEventOwned /\ QuietUnlessForced`.

None of these is inductive alone. The count is right after a release only if the slot
released was owned; an unforced writer meets no stream only if it counts the streams,
which needs the accounting, and only if a stream that slipped past the writer test
while it was queued finds the cancel event set, which needs the event's ownership;
and the event is cleared by the right writer only if the writer lock is held by it.
So the invariant is `IInv == TypeOK /\ LockOwned /\ SlotsAccounted /\
CancelEventOwned /\ QuietUnlessForced`, where `LockOwned` says which awaits of a writer
hold the lock. The proof has one lemma per kind of step: `TakeSlotInvariant`,
`ReaderInvariant`, `WriterInvariant`, put together in `NextInvariant`. The counting
facts are lemmas of their own (`AllocateAccounted`, `LeaveAccounted`,
`FrameAccounted`, with `SlotsFinite`), resting on the library's theorems on
cardinality. The refinement needs that the streams inside are no more than the
allocated slots (`HoldingBounded`), so that a stream that takes a slot is an `Enter`
of the pool (`TakeSlotEnters`); `PoolStep` maps every other step to `Exit`, `Close`
or a stutter.

**The time of a frame and the search for one** (`ClientsProofs`):

| Theorem | States |
|---|---|
| `WrTime` | `WrTimeTrue`: a second is found again from 10 bits and a clock at most one second off, and not at all from one that is further off, by at most 1022 s, for every second |
| `FramesTimed` | `PffSpec => []TimesTrue`: so is that of every frame of every file, whatever is missing and whatever is being sought |
| `SearchIsClose` | `PffSpec => []SeekClose`: the search ends within two frames, and as many as are missing, of its target, after at most half as many looks as the file has frames |

The first is arithmetic modulo 1024 (`Difference`, `OneTime`). The second needs the
invariant `PffInv`, that a file holds what `Header` and `ZeroHeader` write; `OpenWritten`
shows that opening a file establishes it, `WrittenTimes` that it gives the times. The
third needs `SeekInv`: the frames are in order and no further apart than what is missing
makes them (`Spaced`, from `Gaps`), the two ends of a search that goes on are filled and
at least a frame away from the target, and what is left between them pays for the
looks to come (`Seeking`). `Evenly`, `Below` and `Above` are the arithmetic of the
interpolation: the frame looked at lies strictly between the ends, and narrowing keeps
them on their sides of the target. Assumptions: `WhiteRabbitAssumption` (clocks at most
1022 s off), `PffAssumption` (times and lengths are positive; a file is not empty and its
frames are numbered in order from 0, with gaps, as hashpipe writes them).

**The clients** (`ClientsProofs`), for any hosts, attempts, calls and lengths of streams:

| Theorem | States |
|---|---|
| `CallsHonest` | `Spec => []AnswersHonest` |
| `StreamsMerged` | `Spec => []MergeFaithful` |

Both follow from `ClientInv`. Of a call it says that a good answer is only on its way when
the operation took effect (`DoneTrue`) and, of a class that sends every request once, that
an answer, good or bad, comes after the only attempt has left the server (`SentOnce`): a late
attempt of an earlier call has another number (`CallsKnown`), and what the caller is told
was made of such an answer (`Replies`). Of a
merged stream (`MergeInv`) it says that what the caller has got of a host and what the
queue holds of it are together the messages the host has sent, without a gap and in order
(`Carried`); five lemmas keep that up over what is put and read. `LabelsRight` is about `zip()`: when all
hosts are connected, each stream gets its own host's label. Assumption:
`ClientsAssumption` (finitely many hosts, the target is one of them).

**hp_io** (`EdgeProofs`), for any InitHpIo callers, calls and configurations:

| Theorem | States |
|---|---|
| `LifecycleInvariant` | `Spec => []IInv` |
| `OnlyTrackedLives` | `Spec => []OneLiveTask` |
| `EventsHaveOwners` | `Spec => []EventsOwned` |
| `InitAnswersTrue` | `Spec => AnswersTrue`, an action property |

Even the type invariant is not inductive: generations are numbered up to a bound, and
that no caller runs out of them is a matter of counting. `Budget` therefore gives every
call two rights to create a generation, its own and the restore, and the initial task
one; `Tokens` is the set of those still out. `Fits` and `Suits` tie a caller's
record to where the caller is. The rest says what the shared events and the
tracked task mean to the one caller that is in `start()` or `stop()` (`Stands`,
`OnlyTracked`, `ValidOwned`), all three under `Serial`, since without it they are false;
`StopOwned` holds in any case. There is one lemma for each fragment of `start()` and
`stop()`, over the states a caller can be in half way (`Mid`), and one for
each step of a generation. Assumption: `LifecycleAssumption` (the callers are
different and finitely many).

**The frames** (`EdgeProofs`), for any modules, products, connections, frames, readers,
reconfigurations and size of the queue:

| Theorem | States |
|---|---|
| `StreamInvariant` | `StreamSpec => []StreamInv` |
| `FramesInOrder` | `StreamSpec => []PipelineInOrder` |
| `FramesOnce` | `StreamSpec => NeverTwice`, an action property |

`PipelineInOrder` asks for each connection and module that there be some number from which
the frames on their way go on. The invariant needs one such number for all parts, so
`StreamInv` says that there is a count `seen` of the frames taken or dropped, and `FrameInv`
is about that count: what the queue and a handler hold goes on from it, in order and
without a gap (`Flowing`, by `Flow`), a cached frame is the last one counted (`Cached`), and
what a stream was sent is cached under an id it will not be sent again, or is older than
what is (`Delivered`). No frame is sent twice because of `Delivered` and `Ids`, not because
frame ids go up: a reconfiguration starts them again under streams that keep their last
ids, and such a stream misses frames but sends none again. `FlowWrite`,
`FlowMove`, `FlowForeign`, `FlowTake` and `FlowNone` say what each step does to `Flow`, over
lemmas about the numbers in a sequence; `LastRaised` is about the loop of one poll.
Assumption: `StreamAssumption`.

**The gateway** (`GatewayProofs`), for any edges, queue size, responses and calls:

| Theorem | States |
|---|---|
| `FanInInvariant`, `NothingIsLost` | `Spec => []IInv`, `Spec => []NothingLost` |
| `ProxyInvariant`, `ProxyIsHonest` | `ProxySpec => []ProxyInv`, `ProxySpec => []ProxyHonest` |

For each edge the queue goes on where the consumer is, up to what the drain task has put
(`Flows`, with `Continues` for the order). That a stream ends complete needs more: the
handler only counts sentinels, so the count must say which edges are done, and that
nothing of an edge lies behind its sentinel (`Ends`, `Streaming`). In `ProxyInv` what an
edge has answered was so at a moment of this call.

**daq_control** (`ServerProofs`), for any calls, processes, directories and restarts:

| Theorem | States |
|---|---|
| `DaqInvariant` | `Spec => []IInv` |
| `NeverTwoHashpipes` | `Spec => []OneHashpipe` |
| `StopSuccessTrue` | `Spec => StopStops` |
| `LostHashpipeFound` | `Spec => CleanupFindsLost` |
| `DigestChecked` | `Spec => DigestGuards` |

`OneHashpipe` needs `LockOwned` (a StartDaq holds the lock from its check to the spawn),
`NothingRuns` (so what the check found still holds) and `EnoughPids` (the new process has
a pid of its own). The action properties are about calls that hold no lock and
rely on an old scan: `Sound` says what of it still holds, namely that a hashpipe of
before the call which still runs is in the scan, because none comes back to life
(`NoRevival`).

**The transfer of a run** (`ManifestTransferProofs`), for any heads, files, attempts:

| Theorem | States |
|---|---|
| `TransferInvariant` | `Spec => []IInv` |
| `NothingDeletedUnverified` | `Spec => []NoUnverifiedDeletion` |
| `StreamIsWhole` | `Spec => []StreamWhole` |

Files of a stopped run only disappear, so a listing covers what is left (`Lists`), the
manifest keeps the listing (`Writes`, `Replaced`), a head has all of one finished manifest
(`Streams`, `Copies`) and has verified what is left when it deletes (`Verifies`). The
proof does not use the digest: for a run that has stopped, and no file that appears, the
rename and the order of the calls suffice.

**The ML broker** (`ServerProofs`), for any subscriptions, predictions and length of a queue:
`OldestDropped`, `BrokerSpec => []NewestKept`, whatever is_active does; of a context that
raises it says nothing, since no queue lasts then. `NewestKept` looks at one queue and at what
was read; the invariant (`BrokerInv`, by `Newest`) is about the three parts together: what
was yielded, then what was dropped, then the queue, and nothing that was sent is newer than
the queue without being in it. `PutNewest` and `TailNewest` say that of the two ends of a
queue, `BrokerLoop` what a look at the context leaves, `BrokerOne` that a step of one
handler disturbs no other.

**The unified server** (`ServerProofs`), for any calls and edges: `HealthComesBack`,
`UnifiedSpec => []ServingWhenIdle`, which is inductive with the type of what is left to
create (`ServerRuns`). The lock of a service plays no part in it: a call that waits for it
has already said NOT_SERVING, and whichever overlapping call ends last says SERVING.

**Device status** (`TelemetryProofs`, for any devices, reports, lost connections,
restarts): `StatusInvariant` and `StatusIsTrue`, `Spec => []StatusTrue`. Whether an older
report can undo an answered one depends on which commands may still arrive:
`OverlapsKnown` says that each of them was on its way when every later report of its key
began.

**The way of a log record** (`TelemetryProofs`), for any records, outages, restarts, sizes of
the queue and the batch: `NoRecordForgotten`, `LogSpec => []LogsAccounted`. That no record is
in two places needs that none is handed over twice (`HandedOver`); and the order in
`logs:ingress` survives a batch that is sent again, an outage and a restart because what the
batcher holds is always the end of what was accepted (`Latest`), so that whatever is pushed
next was accepted after all that is in Redis or has been there before (`Ordered`). Half of
the proof is what appending, halving and concatenating do to these two. The length of the
queues is their number of records (`OneToOneCount`). Assumption: `LogPathAssumption` (the
sizes are positive).

**The receiver** (`UbloxProofs`), for any calls and packets, and for any plans, numbers of
settings and sizes of a message:

| Theorem | States |
|---|---|
| `UbloxInvariant`, `OneOpenPort` | `Spec => []IInv`, `Spec => []OnePort` |
| `ReceiverInvariant` | `F9tSpec => []F9tInv` |
| `ReceiverConfigured` | `F9tSpec => []ConfigTrue` |

Two calls that overlap open ports at any time; the invariant is that whatever is open is
what `_serial` names (`Known`), which every assignment to `_serial` must re-establish.

That a group of settings is whole in the receiver is a matter of the transaction: after any
number of messages it holds exactly what they carried (`Pending`, with `UpTo` for the items
of the first messages of a group), or nothing when one was refused, and then a message that
continues or commits is refused as well (`Booked`; `GroupStep` for one message). For that
the receiver must get the messages in order and without gaps, whatever else is on the line
(`Ordered`, with `Carries` and its lemmas for a message that is sent, judged or passed).
That an acknowledgement is the verdict on its message needs `Timely`: as long as no
answer was late, what is on the line is the answer to the message the host waits for. The
rest ties the messages still to send to the phase (`Phased`). Assumption: `F9tAssumption` (a
message carries at least one key, plans are of the type `InitF9t` and the script accept, and
`InitF9t` has no flags).

Every invariant and every action property of the passing runs is a theorem. Only model-checked,
because out of the prover's reach: all liveness (`Served`, `ShutdownDrains`, `WritersAnswered`,
`ShutdownReturns`, `NewestArrives`, `CallersServed`, `CallsAnswered`, `TransferEnds`,
`RecordsSettle`, `AllEnd`, `SignalEnds`, `CallsReturn`,
`StreamsEnd`), ENABLED, and induction over data: what a recursive definition computes
for every input. That `time_seek` ends is shown by the measure in `SeekClose` instead,
which is proved. No module uses RECURSIVE operators.

## 6. Not modelled, and why

* Pixel data, headers, file formats and plots; parsing and validation of requests that
  are refused before anything changes; the wording of logs; socket, channel and
  keep-alive options; the reuse of a pid by the operating system; register contents of
  the receiver.
* The gateway's Ping and UploadImages, the placeholder PollMessage: they only answer.
* What the methods of a client ask and what they make of the contents of a reply.
* `read_json`, `read_image` and the writing of PFF files, file names, image geometry.
* Manifests in the legacy layout, and several algorithms at once.
* A `shutdown()` that raises in `PanosetiServer.run` (it would skip what follows).
* Generated protobuf code (some 1400 lines), notebooks (over 2100), debugging scripts and
  their copy of `conf_gnss` (some 1300), most of the vendored `panoseti_util`, command
  lines, plotting, deployment: no state of the system.

That is why the map covers about a third of all lines, while it covers nearly all code
that changes shared state at run time.

## 7. Plan

Done, in this order: access to the edge, its hp_io, its frames, the gateway's stream and
calls, DAQ control, the log path, device status, the ML broker, the receiver and its
configuration, the unified server, the transfer of a run, the clients, the time of a
frame. Next:

1. Abstract specifications to refine: a FIFO merge for `GatewayFanIn`, a single server
   task for `HpIoLifecycle` with `Serial`, a queue that drops its oldest for `MLBroker`.
