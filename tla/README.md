# Verification of gbbconnect-go

gbbconnect-go connects photovoltaic plants to a cloud service. For every
configured plant it keeps an MQTT session, receives requests that carry Modbus
frames, sends the frames to the plant's inverter and publishes the answers. This
directory holds TLA+ models of the parts of that program in which order, failure
and time matter, TLC configurations that check them on small instances, and
TLAPS proofs of the most important properties for every instance.

Run everything in this directory:

    tlc -config plant_worker.cfg MCPlantWorker      # a model-checking run
    tlapm PlantWorkerProofs.tla                     # a proof

`PROJECT.json` maps every definition to the lines it models and lists the runs,
the faulty variants that each property must catch, the hazards, the findings and
the theorems.

## 1. Inventory

### The parts and how they interact

| Part | State it keeps | Operations | Talks to |
|---|---|---|---|
| Supervisor, `internal/supervisor` | one worker per plant; per cycle a client, request gate, request context, panic channel | start, cycle, restart with backoff, shutdown with grace, persist | starts the keepalive loop and, through the MQTT subscription, the request handler |
| Keepalive loop, `internal/cloud/keepalive.go` | position in its loop, start of the pass | connect, heartbeat, wait, back off | MQTT client; ends when the worker cancels the cycle |
| MQTT client, `internal/cloud/client.go` | paho client, registered handler | connect, subscribe, publish, disconnect | starts one goroutine per received message |
| Request handler, `internal/cloud/handler.go` | serialization token | decode, log level, route, Modbus lines, log text, publish, commit | driver, log streamer, log level control, MQTT client |
| Log streaming, `internal/cloud/logstream.go` | durable cursor (date, position) | prepare, commit | state store, daily log files |
| Log sink, `internal/logbuf` | open file of the day | stamp and append a line, change the level | every other part writes to it |
| Log level control, `internal/cloud/loglevel.go` | runtime override | save, then apply | state store, log sink |
| State store, `internal/state` | one JSON file and one mutex per plant, one runtime file | load, save | called by handler goroutines and by the worker's shutdown path |
| Driver, `internal/driver` | executor token, time of the last send, selected transport | connect, send, local read/write with delays, close | a transport |
| Transports, `internal/driver/{solarmanv5,modbustcp,modbusrtutcp,modbusserial}` | connection, sequence number, pending bytes | connect, send with retries, close | the inverter, its dongle or its gateway |
| Modbus and frame codecs, `internal/modbus`, `frame.go` | none | CRC, build, parse | transports and handler |
| Discovery, `internal/discovery` | none between calls | subnet scan with a worker pool, UDP broadcast | the local network |
| Process, `cmd/gbbconnect` | signals received | start, first and second signal, Windows service | supervisor |
| Configuration, `internal/config` | none after start | load, validate, import | everything, at start |

### What is hard, and what must be true

* **The plant worker.** Requests run in goroutines that nobody joins beyond a
  bounded wait; they may outlive their cycle, their session and the worker. Two
  requests must not be on the inverter at once, no transaction may begin once a
  cycle has been given up, a cancelled transaction's error must not be published
  as an answer, a session must not outlive its cycle, a stopped worker must
  return, and a panic must lead to a new cycle.
* **The request handler.** Any call may fail, be cancelled or panic. The
  response must never show request bytes as an answer, a write must go to the
  inverter that was named, and token and connection must come back.
* **Log streaming.** A cursor in a file, text in other files, a broker in between,
  midnight and crashes: text may be repeated after a failure and must never be
  skipped.
* **The state store.** Any step of a save may be the last one of the process or of
  the machine.
* **The transports.** Frames are lost, late, doubled and unsolicited, and two nested
  retry loops resend requests that may be register writes. The answer a call
  returns must be its own; the retries must end, and end soon after a
  cancellation.
  Two of the transports have nothing but bytes and a length rule to tell where
  a frame ends.
* **The driver's executor.** Calls of any goroutines must not overlap in the transport,
  local writes must keep their distance, and neither a cancelled nor a failed
  call may keep the others waiting.
* **The keepalive loop and the MQTT client.** They must neither hammer the broker nor stop
  trying, must not show a plant alive that cannot be reached, and must end with the worker.
* **The process.** A stop may come at any point of the start; the process must not
  leave before its workers have saved their state, must leave when it is stopped, and
  must leave at a second signal whatever hangs. The log level that requests of
  several plants set must be the one a restart restores.
* **Discovery.** A pool of goroutines, a feeder and a collector on unbuffered
  channels must neither block each other nor lose a host, and what three discoveries
  report must become one table.

`PROJECT.json` lists these as hazards, each at its line.

## 2. Modules

| Module | Models | Role |
|---|---|---|
| `SessionKeeper` | what the worker relies on of its lifecycle goroutine | abstract specification |
| `PlantWorker` | `runPlant`, `runPlantCycle`, lifecycle goroutine, request gate, request goroutines | core, extends `SessionKeeper` |
| `PlantWorkerProofs` | | theorems about it |
| `CloudHandler` | one call of `RequestHandler.Handle` | component |
| `CloudHandlerProofs` | | theorems about it |
| `LogStream` | log sink, `DailyLogStreamer`, `persistPlantState` | component |
| `LogStreamProofs` | | theorems about it |
| `AtomicStore` | what the state store promises | abstract specification |
| `StateStore` | `state.Store` over a file system with crashes | implements `AtomicStore` |
| `StateStoreProofs` | | theorems about it |
| `MqttClient` | `Client` over the paho library and a broker | component |
| `Keepalive` | `KeepaliveLoop.Run` | extends `MqttClient`, implements `SessionKeeper` |
| `KeepaliveProofs` | | theorems about it |
| `TcpLink` | what the TCP transports share: caller, connection, retry loop, device | base |
| `SolarmanV5`, `ModbusTcp`, `ModbusRtuTcp`, `ModbusSerial` | what each transport does with a frame | extend `TcpLink` |
| `Driver` | the factory's choice of transport and the calls of one request | composes the four |
| `DriverProofs` | | theorems about it |
| `ModbusRtu` | CRC and length of a frame | functions on bytes |
| `FrameReader` | how the RTU-over-TCP and the serial transport find frames in a stream | component, uses `ModbusRtu` |
| `Executor` | the driver's facade, its token and its minimum delays | component |
| `ExecutorProofs` | | theorems about `Executor` and `FrameReader` |
| `LogLevel` | `PersistentLogLevelController` | component |
| `Service` | the run command: `runApplication`, `newSupervisor`, `Supervisor.Run` | extends `LogLevel` |
| `Discovery` | the discover command: UDP collection, subnet scan, merge | component |
| `Process` | `main`, `newShutdownContext`, `windowsService.Execute` | composes `Service` and `Discovery` |
| `ProcessProofs` | | theorems about it |
| `MC...` | | instances for TLC |

Definitions named *Faulty variant* in a comment are not part of a specification:
each is a plausible mistake in the definition that follows it, and putting it in
that definition's place must make TLC report the property listed with it in
`PROJECT.json`.

### PlantWorker

`pc` is the worker's place in `runPlant` and `runPlantCycle`; `life`, `connected`
and `cycleDone` are the lifecycle goroutine and its MQTT session; `accepting`,
`cancelled` and `panicked` are the current cycle's gate, request context and
panic channel. `phase` and `owner` give every request's goroutine and the cycle
it belongs to: only the current cycle's gate, context and channel are variables,
since every return of `runPlantCycle` closes the gate and cancels the context of
its cycle (`CtxDone`). The three branches of the `select` are `OnLifecycleDone`,
`OnPanic` and `OnShutdown`; the first has no session to drop, the others drop it
and join the goroutine before they wait for requests, and only `OnShutdown`
waits before it cancels (`finishPlantShutdown`). What a transaction does
is `CloudHandler`'s business; here it is open (`executing`), then its response is
published or lost.

Time counts ticks of ten seconds. A timer never fires early and may fire late. The
one thing that is assumed to be fast enough is `CancelLag`: how long a transaction goes
on after its context was cancelled. It comes from the transports: `CancelStops`
of `Driver` shows that a cancelled call writes at most one exchange's frames, which for
Solarman V5 is 10 writes and 10 reads with deadlines of 5 s, 100 s or 10 ticks.

### CloudHandler

One `Handle` call from start to return. A message is a record of what the code
distinguishes: whether it decodes, its log level, the sub-inverter it names, whether it
asks for log text, and for each line whether the Modbus field is null, a request
or undecodable. `Step` encodes the order of `Handle`; each of its calls has its
own action with its outcomes. `Panics` may follow any step and runs the deferred
functions. `Publish` is what the broker or the loss of the session decides, `PublishCancelled` the
other branch of `waitToken`, so that a broker that stays silent can be told from a request that
does not notice its cancellation. The order of the deferred `Close` and of the token's release is that of the code.

### LogStream

Positions count lines instead of bytes and days count from the first. The sink
takes two steps, as `dailyFileState.write` does: it takes the time (`Stamp`) and
appends to the file of the day it took (`Append`); midnight may come in between.
A request loads the cursor and computes today (`PrepareLoad`), reads (`ReadFrom`,
or `InitializeAtEnd` when the cursor is missing or older than yesterday), publishes and
commits. `PersistLoad` and `PersistSave` are the two halves of
`persistPlantState`, between which a request that outlived the grace period may
commit. `shipped`, `twice`, `excused` and `straddled` are history: lines that
reached the broker, reached it more than once, were skipped on purpose by a fresh
start, or were appended after the midnight that ended their day.

### StateStore and AtomicStore

Each caller walks through `lockFor`, `CreateTemp`, `Write`, `Sync`, `Close` and
`Rename`, any of which may fail. `visible` is the file as readers see it and
`onDisk` the contents a power loss may leave: a rename adds one, the kernel's
write-back (`WriteBack`) settles it, and renaming a file that was not synced would
add a torn one. `AtomicStore` is a register whose saves take effect at one
instant or not at all, and whose unsettled saves a power loss may take back. The
refinement maps the register to `visible`, the values a power loss may leave to
`onDisk`, and every place inside `saveJSON` to "saving": the save takes effect at
the rename.

### Driver, TcpLink and the transports

A frame is a record of the call it answers, its sequence number (transaction id)
and whether its content is valid, so a property can compare the call with the one it
was returned to, which the code cannot. A driver serves the Modbus lines of one
cloud request, in order, and no call follows a failed one: that is the
handler's error cascade (`CloudHandler.ErrorCascade`), and RTU over TCP relies on it,
as the faulty variant `SendRTUAfterFailure` shows. The device is external. It executes requests in
order, answers on the connection a request came by, spoils or drops answers, repeats
old ones, sends frames of its own, and may execute a request after its connection
was closed. Frames arrive whole; their reassembly is `FrameReader`'s business. The
debug-only random stub is not among the kinds.

`ModbusSerial` goes on with the next driver on the same line, because a serial line has no
connection to close: the device may still owe an answer, and what is in the input
buffer when the port is opened again comes from anyone. `flushed` records the
line at the last `ResetInputBuffer`. `AnswersOwnRequest` holds for the serial
transport as far as the flush reaches. It excepts a request that is written while the
device still owes the answer to an earlier, abandoned one: TLC shows, in thirteen
steps, that the late answer is then returned to the new request, and nothing in an RTU
frame could tell (only unit and function code are echoed, and neither is compared).

### FrameReader and ModbusRtu

`ModbusRtu` computes the real CRC on bytes and the real length rule. In `FrameReader` a
device answers a read, a write, a combined read and write (function 23, whose answer has the shape
of a read's) or with an exception; the bytes arrive in pieces of every size. `Noise` flips
a bit or swallows a byte, `Repeat` sends a frame once more, `Timeout` ends a read in the
middle of a frame whose rest arrives later. A retry over TCP is another
request on a new connection. `spoiled` says whether anything of that touched the
current call. The lengths the code refuses (above 1024) cannot occur: a byte count ends at
255. The frames of Solarman V5 and Modbus TCP carry their length in a header and
are read with `ReadFull`; they are not in this module.

### Executor

`execute` for every operation of the facade: `Call`, then the token or the context
(`TakeToken`, `GiveUp`), the rest of the minimum delay (`DelayEnds`), the transport. `lastSend` is the
age of the last local success. The delays are the local helpers' business; the cloud
path, `SendDataToDevice`, neither waits nor records. A failed write is not recorded,
as `TestDriverDoesNotRecordFailedLocalSend` wants it, so `WritesSpaced` speaks of
writes that succeeded.

### MqttClient, Keepalive and SessionKeeper

`token` is the operation of the library that is under way, or its result; `waitToken`
takes a result if there is one and gives up with the context otherwise. A session
starts without subscriptions (the client's options ask for no automatic reconnect), so
`Connect` subscribes in every session and gives up one in which it cannot. A pass of the loop connects
if there is no session, publishes, and waits for the rest of the interval. The worker may cancel
the context and disconnect the client between any two steps. That a refused
subscription makes its token fail, and that `Disconnect` ends a dial under way, is assumed of the library.

`SessionKeeper` is the contract between two modules: `PlantWorker`'s lifecycle actions are its steps,
and `Keepalive` implements it (`ImplementsKeeper`), with a session that counts as
connected once its subscription is granted. Panics and failing clocks are
additional actions of `PlantWorker`.

### Process, Service, LogLevel and Discovery

`Process` is the program from start to exit. `queued` and `watcher` are the channel and the
goroutine of `newShutdownContext`; `signal.Notify` drops a signal that finds the
channel full. `hung` stands for a call of the bridge that never returns, the case for
which the second signal exists. `Service` follows `runApplication` step by step with its early
returns and its deferred `Close`, and abstracts a plant worker to what
`PlantWorker` shows of it: its loop ends only with the context, with an error only after a
fault (`CleanExit`), and once stopped it does end (`ShutdownCompletes`). `LogLevel` has one request per plant in the controller; `SaveRuntime` is
one step because `StateStore` implements `AtomicStore`. The forced exit of
`Process` is the crash between saving and applying a level. `Supervisor.Shutdown` has no
caller outside the tests and equals the cancelled context for its workers.

`Discovery` reduces a dongle to its address and serial number. What a datagram, a passive
frame or a status page tells is chosen freely. `Feed`, `Deliver` and `Quit` are the
rendezvous on the unbuffered channels; where a `select` also waits for the context, both choices
are actions. `TableFaithful` asks for one row per dongle only if the replies name address and serial
number. Otherwise there may be two: a reply with only a serial number and one with only
an address are two rows, and a scan that finds both at one host fills in the first and leaves
the second (`discover.go:165`), although `docs/tickets/GC-052-discover-cli.md:25` asks
to merge by serial and address.

## 3. Runs

| Run | Expected | What it shows |
|---|---|---|
| `plant_worker` | pass | with production times: `OneTransaction`, `SessionEndsWithCycle`, `CleanExit`, `QuietBetweenCycles`, `CancelledNeverAnswers`, and under fairness `ShutdownCompletes`, `PanicRestarts` |
| `plant_worker_debug` | violation | `OneTransaction` with the debug backoff (finding 1) |
| `plant_worker_grace` | violation | `GraceKeepsResponses` (finding 2) |
| `state_store` | pass | `NeverTorn`, `OrphansFromIncidents`, and that the store implements `AtomicStore` (`AtomicRegister`) |
| `log_stream` | pass | `NoLineSkipped`, `NoTextDuplicated`, `CursorAdvances`, and under fairness `EventuallyStreamed` |
| `log_stream_midnight` | violation | `NoTextMissedAcrossMidnight` (finding 3) |
| `cloud_handler` | pass | `ErrorCascade`, `RoutesToNamedInverter`, `ReleasesEverything`, and under fairness `CancelledReturns` |
| `keepalive` | pass | `SubscribedWhileBeating`, `NoDialStorm`, that the loop implements `SessionKeeper` (`ImplementsKeeper`), and under fairness `KeepsBeating`, `StopReturns` |
| `driver` | pass | for each transport `AnswersOwnRequest`, `CancelStops`, `BacklogBounded` (not for the serial line), and under fairness `CallsReturn` |
| `frame_reader` | pass | `ReturnsSentFrames`, `FailsOnlyIfSpoiled`, `ConsumesWholeFrame` |
| `executor` | pass | `NeverOverlap`, `WritesSpaced`, and under fairness `CancelledLetGo`, `QueueMoves` |
| `process` | pass | `LeavesNothingBehind`, `LiveMatchesSaved`, `ScanComplete`, `TableFaithful`, and under fairness `ProcessEnds`, `SecondSignalExits` |

Every module states its type invariant (`TypeOK`, in `FrameReader` `ReaderTypeOK`) as a description of its state; those of
`PlantWorker`, `Executor`, `Keepalive`, `LogStream` and `Driver` are proved, the last three
as the first conjunct of an inductive invariant.

### Bounds

* `plant_worker`: the real durations in ticks of ten seconds (grace 3, backoff
  30, cancel lag 10). Two requests are enough for one that outlives its cycle and
  one of the next, or for one that holds the token and one that waits; two
  faults are enough for a restart after a restart. The proofs have no such bounds.
* `state_store`: two callers (a handler and the shutdown path), two values, two
  incidents, so that a crash hits the state left by a crash.
* `log_stream`: three days give a cursor of today, of yesterday and older; two
  lines per day give a partly read file; one fault. With two faults the same
  properties hold as well, in about four times the time.
* `cloud_handler`: three lines, for a failed line with lines before and after it;
  two sub-inverters, one of them listed twice, because the loop takes the first match.
* `driver`: `connectionAttempts` 11 becomes 3 (a first, a middle and a last
  attempt), `sequenceAttempts` 10 becomes 2; four calls; two frames nobody asked
  for. Three sequence numbers stand for the 256 of Solarman V5 and the 65536 of Modbus TCP, one less than
  calls, so that the generator wraps and the fourth call has the number of the first: a repeated answer of
  the first is then returned to the fourth, which `AnswersOwnRequest` allows, and no other mix-up.
* `keepalive`: interval 6 and backoff 30 ticks of ten seconds; clocks stop at the
  largest value a property compares.
* `frame_reader`: two requests, for an answer that is read with or after the remains of another;
  one disturbance of the bytes and one frame too many or early deadline. The lowest and the highest bit
  of a byte are flipped: they turn a read into a write and an answer into an exception and
  change every byte count. With two flipped bits `ReturnsSentFrames` does not hold: TLC finds an answer whose
  function code becomes an exception's and whose first five bytes then
  have a valid CRC. That is a limit of a length rule outside the CRC's protection, and of RTU framing itself.
* `executor`: three goroutines, for one in the transport, one that waits and one that gives up;
  a read delay of one tick and a write delay of four.
* `process`: two plants, for two requests in the log level controller and a worker that
  returns before the other; two levels and two changes; two signals, the most the code tells apart;
  two processes, for a restart after every exit. Subnets of one, two and four
  addresses: without, at the limit of and with a network and a broadcast address. One or
  two goroutines scan, so that they are fewer than, or as many as, the two hosts. One reply and up to two
  scanned hosts make three reports to merge.

### Fairness

Fairness stands for the Go scheduler running goroutines and for timers that fire.
Beyond that:

* `PlantWorker` assumes nothing of request goroutines when it is stopped: they may
  hang forever. The lifecycle goroutine ends after its context is cancelled, because
  connect, publish and wait all select on it; the keepalive run's
  `StopReturns` shows that.
* `CloudHandler`: local steps go on, and the calls of a transport return because their retries are bounded
  (`CallsReturn`); these are the steps of `Local`. Nothing is assumed of the broker, which may keep the session and never
  acknowledge, and of the request that holds the token, which may never return: `CancelledReturns` rests on
  the two `select`s that also wait for the context. A request that is not cancelled has no such promise, because the
  code publishes without a deadline (`handler.go:154`).
* `LogStream`: `SF` on `PrepareLoad`: the cloud goes on asking for the log. Publishes
  and commits may fail a bounded number of times.
* `Keepalive`: an operation of the library ends, and a broker that is asked again and again accepts a
  connection and a subscription in the end (`SF`). Sessions may be lost for ever; `KeepsBeating` says so.
* `Executor`: a Go channel serves its waiting receivers in order, so `SF` on `TakeToken`. Nothing is
  assumed of the transport: that it returns is the hypothesis of `QueueMoves`, and `CancelledLetGo` does without.
* `Driver`: dials, reads and writes have deadlines.
* `Process`: the command goes on unless it hangs, and the goroutine that waits for signals
  runs. Nobody has to send a signal, and `SecondSignalExits` uses no step of the command. The calls of a discovery
  have deadlines.

## 4. Proofs

Every theorem holds for all values of the constants: any number of requests, callers, plants,
lines, days, attempts and faults, any durations. The bounds of section 3 are bounds of the runs
only. A proof rests on the named assumptions about the constants and on nothing else; TLC
evaluates them in the run of the module that states them.

### PlantWorkerProofs

From `ConstantsAssumption` (the durations are natural numbers):

* `TypeCorrect`, `SessionEnds`, `QuietOutsideCycles`, `CancelledSilent`, `ExitsCleanly`, and
* `NoOverlap`: `OneTransaction`, from the hypothesis
  `CancelLag < ShutdownGrace + Backoff`. The production values satisfy it
  (10 < 3 + 30), the debug values do not (10 against 3 + 1), and
  `plant_worker_debug` shows what then happens.

The properties are not inductive. `Structure` adds what ties requests to cycles: no request
belongs to a later cycle, each cycle's token has one holder, the
request context is alive exactly while the worker serves or drains for
a shutdown, and there is a session only while the lifecycle goroutine lives. From
it follow the session, the quiet and the silence properties: a request that
publishes needs a session, a session needs a serving worker, and a serving
worker's context is not cancelled. `Timing` is what `NoOverlap` needs on top: a transaction
that is left over has, at every point of the drain and the
backoff, no more time left than the waits that are still ahead (`LagSpent`), so the
device is quiet when a cycle is set up (`DeviceQuiet`) and only current requests are on it (`DeviceCurrent`).
`ExitsCleanly` (`CleanExit`) needs to know who ends the lifecycle goroutine: under a serving worker
only the stop of the process does, unless there was a fault (`Blameless`).

### StateStoreProofs

For every set of callers and values, with failing system calls, kills and power losses:

* `FileAlwaysWhole`: `NeverTorn`. The strengthening is that a file about to be
  renamed has been synced (`RenamesSynced`).
* `StoreIsAtomic`: the store implements `AtomicStore`. Every step of a caller maps to a
  step of the register or to none (`CallRefines`); write-back, kill and power
  loss map to `Settle`, `Crash` and `Blackout`.
* `OrphansCounted`: `OrphansFromIncidents`. A crash turns every temporary file into an orphan, so the
  count is kept only because there is at most one of them: it exists only inside the lock
  (`TempUnderLock`), and the lock has one holder (`LockHeld`).

### ExecutorProofs

For every set of callers and all delays with `ReadDelay <= WriteDelay`
(`ExecutorAssumption`):

* `TypeCorrect`, and `CallsExclusive`: `NeverOverlap`. It is not inductive, since a caller that waits out
  its delay is not in the transport yet; `TokenHeldOnce` says that the token is in the channel or with one
  caller that waits or sends.
* `SpacingKept`: `WritesSpaced`. The executor has one time for reads and writes and sets it only
  after a success, so the argument is about that time: what is left of the timer and the age of the last
  local send make up the delay (`DelayKept`, kept by every tick), and the last
  write is never younger than the last send (`WriteBeforeSend`).

The same module has the other end of a request's path, `FrameReader`, whose specification has names of its
own (`ReaderSpec`) for that reason. For any number of requests, flipped bits, lost bytes, repeated frames and early
deadlines (`ReaderAssumption`: the bounds are natural numbers):

* `UndisturbedSucceeds`: `FailsOnlyIfSpoiled`, and `FrameConsumed`: `ConsumesWholeFrame`, for the RTU-over-TCP
  and the serial reader alike. The invariant (`ReaderInv`) is about an undisturbed call: buffer, input and
  wire together are one frame of the device, cut at two places (`Cut`), or empty because it has not answered yet
  or has been read. A Read moves the first cut and arriving bytes the second (`MoveCut`); neither passes the
  other or the end of the frame, because the length told from any beginning of a frame is unknown or
  right (`LengthTold`) and a serial Read never asks for more (`ReadWithin`). A deadline without a disturbance would find
  the frame complete. What the CRC computes does not matter: a frame that was built with it passes it (`FrameOf`).

### KeepaliveProofs

For every positive interval and backoff (`KeepaliveAssumption`):

* `BeatsSubscribed`: `SubscribedWhileBeating`. `TokenPlace` ties the operation of the library that
  is under way to the place in the loop, and `SessionPlace` lists the places where a session may be dialed or up
  without a subscription: inside `Connect`, or given up because of the cancellation.
* `DialsSpaced`: `NoDialStorm`. What is left of a wait and the time since the last dial make up the distance
  (`DialPaced`); the loop has two waits that start at different moments, so neither alone is enough.
* `LoopKeepsSession`: `Keepalive` implements `SessionKeeper`. Each step of the loop, of the library and
  of the worker maps to a step of the contract or to none.

### CloudHandlerProofs

For every list of sub-inverters and messages of any length (`HandlerAssumption`: the placeholders
for a blank and an unlisted serial are not serials of the list):

* `CascadeCorrect`: `ErrorCascade`. The response is written line by line, so the invariant speaks of a
  half-finished one: lines in front of `index` are answered, those behind are as received, and a failure clears
  the rest (`LinesInv`).
* `RoutingCorrect`: `RoutesToNamedInverter`, from what is known of the target before the driver exists (`RouteInv`).
* `EverythingReleased`: `ReleasesEverything`, from where driver and token may be held (`HoldInv`); the panic
  that may follow any step is one of its cases.

### LogStreamProofs

For any number of days, lines and faults (`StreamAssumption`):

* `NothingSkipped`: `NoLineSkipped`. Four cursors exist at once (the durable one, a request's old and new one, and
  the one the shutdown path has loaded), and any of them may become the durable one. `CursorInv` says that
  each is within what was written, so that a line appended later is behind it only across a midnight, and
  that what is behind it is accounted for. `RequestInv` says that of the new cursor together with the text under way.
* `SentOnce`: `NoTextDuplicated`. Without faults the broker has exactly what is behind the cursor and the
  text of the uncommitted request (`OnceInv`).
* `CursorForward`: `CursorAdvances`, because nobody else moves the cursor between a load and its save unless
  a request outlives the grace period (`PromptInv`).

### DriverProofs

For each of the four transports, any number of calls, attempts, resends, sequence numbers and stray
frames (`LinkAssumption`, `DriverAssumption`: at least one attempt and two sequence numbers):

* `TypeCorrect`: the attempts, the resends and the wrapping generator stay within their ranges.
* `OwnAnswers`: `AnswersOwnRequest`. The four transports have three reasons, and the invariant one part for each.
  *Solarman V5 and Modbus TCP*: each call draws one number, so the number of a frame for call `c` lies as many
  steps behind the generator as calls were made since (`TagInv`); it equals
  the current one only if `c` is the current call or at least a full round of numbers older. This holds for frames on the wire, for old answers the device may
  repeat, and for requests it has not executed yet, which outlive their connection. *RTU over TCP*: when a call
  starts to read, nothing else is under way (`PlaceInv`), because every call before it succeeded
  and took its answer (`BacklogInv`). *Serial*: if the device owed nothing at the flush and sent
  nothing of its own since, the line has only the current call's request and answer (`FlushInv`).
* `CancelBinds`: `CancelStops`. A call that dials or waits for a retry has written nothing since the
  cancellation, and inside an exchange the writes are counted by the resends (`LateInv`).
* `NoPileUp`: `BacklogBounded`. Not inductive, since a resend leaves the first answer under way: the
  invariant counts the buffer, the input and the live requests, and allows one more while a call reads (`BacklogInv`).

The proof sorts the steps by what they do instead of by transport (`Steps`): the calls and attempts that the
TCP transports share, the three ways to read a frame, the serial port, and the surroundings.

### ProcessProofs

For every set of plants and levels, across signals, service stops, hangs, forced exits and
restarts (`LevelsAssumption`: no level is written as the empty string that stands for "not saved"):

* `LevelConsistent`: `LiveMatchesSaved`. The two differ between saving and applying a change; the invariant
  says that the mutex admits one change at a time (`OneChange`), that what it has
  saved is what it will apply (`HalfDone`), and that a restart before the restored level is applied finds
  nothing under way (`Untouched`, `Applied`).
* `ExitComplete`: `LeavesNothingBehind`. The exit code is decided long after the workers have returned, so the
  invariant records what has been opened, started and joined at each step of `runApplication` (`Placed`),
  and what an error or its absence then means (`Reported`, `Exited`).

For the discover command, with subnets of any size, any positive number of scanning
goroutines, any hosts and any number of replies (`HostBitsAssumption`: the host bits are a natural
number; `SerialsAssumption`: no serial number is the 0 that stands for an unknown one):

* `ScanFindsAll`: `ScanComplete`. It speaks of the end of a scan; what holds in the middle is `ScanInv`: an
  address that was handed out and has a host is among the results or in the hands of exactly one goroutine
  (`NoneLost`, `InHand`), and the feeder stops early only when the context is cancelled (`Fed`). At the end all goroutines are
  done, so every address is in the results, and sorting makes their order ascending. `UsableRange` shows that the code's
  offsets enumerate the addresses between network and broadcast, for every prefix length.
* `TableRight`: `TableFaithful`. A reported dongle is in the table or in the list of the discovery under way
  (`Covered`), every row stands for a report (`Backed`), and without malformed replies rows are full and one per
  dongle (`WellFormed`). The merge overwrites empty fields of a row, so a row that stood for a dongle by its address may come
  to have a serial number; `MergeStands` and `MergeKeepsOneRow` say that it still stands for it and that no two rows become the
  same dongle. Scanned hosts may have no serial
  number; they are merged last and have one result per address (`Separate`), so none of them makes a second row.

Both need to know what recursive definitions and a choice return, and the library's induction theorems cannot
be instantiated. `SetInduction` gets induction from a least counterexample (`WFMin` on the natural numbers), with a set in place of the
operator parameter; `Recursion` gets from it that a function defined by recursion satisfies its equation, which
`AddressCountDoubles` and `MergeSteps` use; `SortExists` builds a sorting permutation by giving each row the rank that
counts the rows in front of it.

### Only model-checked

* All liveness properties: liveness under fairness, and `ENABLED`, are out of the prover's reach.
* `ReturnsSentFrames` of `FrameReader`: after a disturbance it rests on which damaged frames the CRC happens to
  detect. It is a fact about the frames of the run, not one for every number of faults; with two flipped bits it does not
  hold (section 3, bounds).

## 5. Findings

1. **Overlapping transactions in debug mode** (`supervisor.go:342`). A restarted
   worker waits 30 s and 10 s, a cancelled Solarman exchange may take 100 s, and the new
   cycle has a new token. `docs/tickets/GC-043-message-handler.md:38` wants per-plant
   serialization.
2. **Responses lost during the grace period** (`supervisor.go:362`). The session is dropped
   first. `docs/tickets/GC-062-graceful-shutdown.md:25` and
   `docs/user-guide.md:397` let requests finish first; `docs/01-architecture.md:170`
   agrees with the code.
3. **A line at midnight may never be sent** (`logstream.go:101`).
   `docs/tickets/GC-045-log-streaming.md:38` says that no text is missed.

Two behaviours that look like findings and are not: after a lost session the loop connects at its
next pass without the backoff, which the state diagram of `docs/01-architecture.md:154` does not show and
`docs/02-protocol-cloud-mqtt.md:110` describes; and the RTU-over-TCP transport keeps bytes beyond a
response for the next call, which `docs/tickets/GC-033-modbus-rtu-tcp.md:42` leaves to the design.
`AnswersOwnRequest` of `ModbusRtuTcp` says when that is harmless.

## 6. Not modelled, and the plan

What is left:

| Next | What | Why it is worth it |
|---|---|---|
| 1 | a sink whose close fails (`logbuf.go:435`) | the file stays closed until a restart; `LogStream` only lets lines fail |
| 2 | the queue of requests behind one that is not cancelled and waits for a silent broker | it holds the token (`handler.go:154`); the code bounds neither the wait nor the queue (`client.go:226`) |

Left out for good: configuration (sequential parsing at start), installation of the Windows
service and its progress reports, the builders and parsers of Modbus requests and responses (plain
copies of bytes), line settings of the serial port, the commands that only convert or validate a file, formatting and levels of log lines, the MQTT library,
topics and TLS, the random driver (a stub), and test doubles.
