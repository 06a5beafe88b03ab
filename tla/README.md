# Verification of the beer machine controller

The repository is the firmware of a beer machine: an STM32F1 with FreeRTOS that
cools the beer (compressor, sensors, alarm buzzer, display) and reports to a
cloud over a WiFi or a GSM modem, and the flash layer it shares with its
bootloader. This directory holds TLA+ modules of its core, the TLC runs that
check them on small instances, and proofs for all instances of the properties
that matter most. `PROJECT.json` maps every definition to the lines it models;
paths below are relative to `beer_machine/Src`.

## 1. The system

Every task is an endless loop around one message queue; timers of FreeRTOS call
their callback in the timer daemon, and every callback only posts a message.
`osMessagePut` waits a few milliseconds for room and then gives up; every caller
only logs that. Nothing is persistent except the flash environment and firmware.

| Part | State | Operations | Hard behaviour | What makes it correct |
|---|---|---|---|---|
| Compressor task (`tasks/compressor_task.c`) | status, cached reading, limits, lock, four timers, the power pin | one handler per message | stale, lost or late timeouts; messages it posts to itself; readings come only on change | pauses are kept, a lock is obeyed, warm beer is cooled, no status is left for ever |
| Alarm task (`tasks/alarm_task.c`) | value, limits, alarm and warning of temperature, pressure, capacity; buzzer | readings, configurations, a periodic timer; forwards to compressor, display, report | posts to four queues, its own among them; a configuration that meets a broken sensor is not forwarded | warnings follow values and limits, the buzzer sounds exactly while there is an alarm |
| Sensor tasks (`tasks/adc_task.c`, `temperature_task.c`, `pressure_task.c`, `capacity_task.c`) | averages, direction counters | sample, debounce, post on change | a post that is lost is not repeated | what the alarm task has is what the sensor last settled on |
| Report task (`tasks/report_task.c`) | activation, the event of the chain, three timers, fault queue, download | activation, configuration, log, faults, upgrade | one timer and one variable for a chain of steps, retries, a fault queue filling up while offline, the network initialised again in the middle | the chain, the log and the faults go on whatever fails; faults reach the server in order |
| Network task (`tasks/net_task.c`, `net/net.c`) | state and errors of two modules, query timers | initialise, configure, query, initialise again after errors | two modules fail independently under one counter; slow queries fill its queue; it reads the environment, waits for the user, and writes it back | both modules are queried for ever, none is offered that is not initialised, an initialisation ends |
| Display task (`tasks/display_task.c`) | shown values, blink phase | messages, blink timer | the timer is restarted by a message that may be lost | it goes on blinking |
| Serial driver (`serial/serial.c`) | two circle buffers, two interrupt enables | read, write, flush, complete; the interrupt | two critical sections per call with a gap between them | no interrupt somebody waits for stays off |
| Circle buffer (`circle_buffer/circle_buffer.c`) | storage, two free-running counters | read, write, flush | the counters wrap | it is a bounded byte queue |
| Modem drivers and AT layer (`gsm/`, `wifi/`, `at/`) | one response buffer | send, wait for a match | a flush after the send, timeouts with late answers | a command gets its own answer |
| Sockets, HTTP and time (`socket/`, `http/`, `ntp/`) | handles, one receive buffer, memory of a request | allocate, connect, send, receive, disconnect, free | error paths, calls that time out in part, commands answered too late | everything taken is given back; a request talks to its own server and receives its own bytes |
| Environment store (`bootloader_if/bootloader_if.c:90-478`) | two flash banks of records | initialise, read, save | power cuts at and within every flash operation, failing operations | one durable value |
| Firmware update (`bootloader_if.c:480-685`, `report_task.c:1168-1350`) | three flash regions, the step and offsets in the environment | download, exchange, confirm, go back | power cuts anywhere | the application is always whole; an unconfirmed one is replaced |
| Start-up, boards, helpers, vendored code | - | - | - | not modelled: see section 7 |

Calls and messages: sensors -> alarm -> compressor, display, report; report ->
alarm (configurations) and the environment; network -> report (location, network
state) and the environment; report -> HTTP -> socket -> modem -> AT -> serial ->
circle buffer; bootloader and application share the environment and the regions.

The hazards of all parts are listed, each at its line, in `PROJECT.json`.

## 2. Modules

### Compressor (`Compressor`, `MCCompressor`, `CompressorProofs`)

`queue` is `compressor_task_msg_q_id`; `Put` drops a message when it is full, as
`osMessagePut` does, and records its type in `lost`. `timer[t]` holds the ticks
a timer has left. A due timer posts its message in `Expire`, a step of the timer
daemon. Each branch of the handler is one action, including the message it posts
to itself and the display message at its end: a handler is not interrupted by
another handler, and between two of its statements only the timer daemon and the
alarm task run, which touch only the queue and a timer that fires. A timer that
fires while the handler stops it is the run in which it fired just before: its
message is behind the one being handled.
The alarm task appears by what it posts (`AlarmTemperature`, `AlarmLock`,
`AlarmLimits`); the two configuration messages of one dispatch are two steps. The
task answers with nothing but the power pin and the display message.
`Prompt = TRUE` states that the task and the daemon are done before the next
tick, which the periods of minutes justify; the run that loses messages does not
assume it. Restarting the device is `Init`: nothing here is persistent.

### Alarm and sensor tasks (`Alarm`, `MCAlarm`, `AlarmProofs`)

`current` is what a sensor reads, `Sample` the loop of a sensor task: its value
changes, and is posted, when enough readings on balance differ from it. The
three tasks differ in their counts (4, 3 and 3, `Confirm`) and in the type of
the value (`Stored`). `unit` is `alarm`; each branch of the handler is one action
with everything it posts, and the three copies of the code for temperature,
pressure and capacity are one definition with a kind. `Dispatch` posts the four
messages of `report_task_dispatch_device_config` one at a time. What is posted
to the display, the report task and the compressor is kept as the last message
sent; whether their queues take it is their modules' concern.
A put waits 5 ms for room: other senders' puts happen later, but the alarm
task's own put to its full queue cannot succeed, since nobody else reads it.

### Circle buffer and serial driver (`ByteFifo`, `Cursors`, `CircleBuffer`, `Serial`, `SerialProofs`)

`Cursors` holds the arithmetic of the two counters, with their width as
`Modulus`; `CircleBuffer` adds the storage and refines `ByteFifo`, a bounded
queue of bytes. What the code does when its write counter wraps is part of
`ByteFifo`: it counts the bytes taken in modulo `Modulus`, and reads find nothing
between the moment this count starts again and a flush (`Readable`). `Serial` uses the same cursors twice, without contents, and
models `serial_read`, `serial_write` and `serial_flush` as their critical
sections, with the interrupt and other tasks in the gaps. Any task may call
anything at any time, as the comments in `serial.c` claim. The interrupt routine
of the HAL driver is the two disjuncts of `Next`.

### Environment store (`DurableEnv`, `EnvStore`, `EnvStoreProofs`)

`EnvStore` writes each call of the store as the sequence of flash operations it
performs (`InitOps`, `SaveOps`, `FlushEnv`), one step each. A power cut between
two steps, or within one, leaves what the flash hardware may leave: a record
without its status word, or any mixture after an erase. A torn record is not
valid and not writable. That is an assumption about the hardware where an erase
is cut short: the code compares one status word and has no checksum, so a record
disturbed elsewhere first would pass for valid. An operation that fails with the
power on leaves the same as a cut and ends its call with an error (`CallFails`),
in a save and in the initialisation. Operations may fail whenever bank2 holds no
environment; with `Failures = TRUE` also while it does, for which the properties
do not hold (section 3). `DurableEnv` is what callers rely on, one value that a
save changes at some moment; `Stored` maps the banks to it.

### Firmware update (`FirmwareUpdate`, `MCFirmwareUpdate`, `FirmwareUpdateProofs`)

The environment is one durable record here, the abstraction `EnvStore` is proved
to implement while no flash operation fails with the record in bank2; a save is
one step. A copy erases its destination and programs it page by page; a cut leaves
a prefix. Copies and saves do not fail with the power on: for the flash, a failure
whose call gives up is a cut at the same place, but the recovery goes on after a
failed copy (`bootloader_if.c:666`) and the report task after a failed save
(`report_task.c:1335`), and what follows from that is not modelled. A firmware is
assumed to fit its region, as the report task takes its size from the server
unchecked (`report_task.c:1056`).
`ram` is the environment variable a call of the bootloader works on, reloaded at
every start. The bootloader's main loop, which reads the boot flag, is not in
the repository: `PowerOn` follows the flags' description in
`bootloader_if.h:43-52` and is marked external. The application side (download,
digest, flag, confirmation) is the report task's.

### Report task (`Report`, `ReportProofs`)

A message is taken and handled in one step; the timer of the activation chain is
started in a second one (`StartTimer`), because the code assigns `active_event`
first (`report_task.c:152`) and the timer daemon, of the same priority, may run
in between: a timer that expires there posts the new event, and the restarted
timer posts it again. Each branch of the handler and each outcome of its request
is an action. The fault queue is the ring of the code with its free-running
counters; a slot holds the number of its fault. `got` is what the server has,
including reports whose answer was lost. An answer about a new firmware that is
cut off behind its size leaves that size behind (`PartOfUpgrade`). The network task posts its
information and then its notice (`NetInfo`, `NetNotice`) and may do so again in
the middle of the chain. Times, locations and readings are left out; what the
download does to the flash is in `FirmwareUpdate`, the dispatch of a configuration in `Alarm`.
`HandleLog` has a branch for an inactive device that cannot be reached: the log
timer is started by the activation only.

### Network task (`Network`, `NetworkProofs`)

The task runs straight from power on to the queries; each initialisation of a
module is a step, since it may take minutes and the timers left from before may
expire meanwhile. A handled query is one step, by its outcomes. `AfterGsm` is
the `goto init` while both modules fail; `Lost` is the one after too many errors.
The read, wait and save of the wifi configuration is one step (see section 7).

### Requests (`Http`, `HttpProofs`)

One request at a time, as the report task is the only caller. Every call of a
socket is one step with all its outcomes: all, a part or nothing of the bytes
before the timeout, or an error. `peer` is what the modules hold connections to,
`late` records that a module refused a close or did not answer in time: a command that timed out may
have been done. The wifi module is assumed to number its connections from 1: an id of 0,
which `wifi_8710bx_dump_conn_id` returns for an answer without a number, would be a
connection that the request takes for a failure (`socket.c:373`). `context` starts undefined, as the code declares it: `Begin`
chooses it among all values. `ntp.c` uses the same sockets without the error
handler of the HTTP client. There is one receive buffer, as in the code
(`BUFFER_CNT`, `socket.c:28`).

## 3. Runs

| Run | Shows | Bounds, and why they suffice |
|---|---|---|
| CompressorLossy | types; locked is off; a pending timeout or evaluation is forgotten only when the full queue dropped it; while nothing was dropped, warm beer is cooled and cold beer left alone, under fairness | queue of 2 with bursts of 1 and unhurried timers: every message can be dropped and every timeout can be stale; a cold and a warm reading and an error; lock and unlock |
| CompressorUnlocked | without a lock in the configuration: every pause is kept, no run is longer than the working time, the queue loses nothing, the display symbol is right | periods 1 < 2 < 3 < 4 keep the code's order of 2, 5, 10 and 270 minutes; limits that the alarm task rejects are included and make a reading that started the machine stop it later; a queue of 4 takes the bursts of 2 with the timeouts and evaluations that can coincide without a lock (the code has 8; the theorem `QueueLosesNothing` has bursts and locks of every kind); the history saturates at 5, beyond the longest period |
| CompressorPowerOn | *violated:* the power-on wait with a lock configuration | shortest instance that has the behaviour |
| Alarm | the display follows value and limits; an error is reported once; a reading that settles is accepted | one sensor that may read two values or be broken, confirmation by 2 readings where the code takes 3 or 4, a queue of 2 where it has 10, so that everything can be dropped; one dispatch, with a refused range |
| CircleBuffer | refinement of ByteFifo | storage of 4, the counters wrap at 8 in place of 2^32; any number of bytes in chunks of up to 3, so the storage is overwritten and the counters wrap without end |
| Serial | both interrupts awake, everything written is sent | three tasks in the two gaps, buffers of two bytes (empty, half, full), six bytes per direction |
| EnvStore | a read is current; the banks implement one durable value | three slots: the first, a middle and the last record and the flush; three environments tell old, new and default apart; unbounded cuts, and unbounded failures of operations while bank2 has no environment |
| EnvRecovery | *violated:* initialisation leaves an environment in bank1 | as above |
| FirmwareUpdate | the application is whole; the one to go back to is whole; only confirmed ones stay; an update ends | three firmwares of 2, 5 and 3 pages with a swap block of 2: full and partial blocks, growing and shrinking; unbounded cuts |
| Report | the chain goes on and is not split except by a notice of the network; held faults are due and reach the server in order; a new firmware is asked for, and a download ends with its last byte; a device is activated and its faults arrive, under fairness | queue of 2, so that timeouts, notices and errors can be dropped; fault ring of 2 with 3 faults, so that it fills, refuses and wraps; two initialisations, the least that interrupts a chain; a firmware of 3 bytes in pages of 2: a full and a partial page; 8 in place of 2^32 |
| Network | both modules are queried for ever; what is offered is initialised; every initialisation ends | queue of 4, which fills when initialisations let the timers expire before the queries are handled; a module is lost with its third error, initialisation repeated twice: the first, a middle and the last one |
| Http | types, with the room for the end of a string; everything is given back; own bytes, own server; a part is no success; a request ends | two gsm handles and two wifi connections, one more of each than a request uses; two servers besides the time server; a response of 0 to 3 chunks; two oversize responses, so that one is followed by a request that suffers from it and a second one |

Every property of a passing run has a mutant of the modelled code that breaks it
(`PROJECT.json`); mutants stand directly above the definition they change.
`TypeOK` is a property of the runs of `Compressor` and `Http`; for these and for
`Alarm`, `Report` and `Serial` it is a theorem, and elsewhere it documents the types.

### What the violated runs show

* **Power-on wait.** The lock branch (`compressor_task.c:253`) sets
  `RDY_CONTINUE` in every status and does not stop the power-on timer. A lock and
  an unlock during the first two minutes start the compressor at once. The
  late `PWR_WAIT_TIMEOUT` (line 280) then overrides any status: from `WAIT` it
  skips the wait between two starts, and from `WORK` it leaves the pin on under
  `RDY_CONTINUE`, so that a run may exceed the longest working time
  (`RestartGap` and `BoundedRun` hold in CompressorUnlocked only for that reason).
* **Recovery.** `bootloader_init` copies bank2 to bank1 and erases bank1 again
  in place of bank2 (line 333); reads and saves fail from then on.

### What does not hold, without a run of its own

The names are definitions of the modules that no run lists.

* **Overtaken reading** (`ReadingIsCurrent`, Alarm). New limits make the alarm
  task post the value it holds to itself (`alarm_task.c:266`), behind readings
  that are queued already. When one of them is an error, the older value takes it
  back: the buzzer stops, `ERR_CLEAR` is reported, the compressor is told of a
  good temperature, and the sensor task posts nothing until its value changes.
* **Counter wrap** (`UsedIsReadable`, CircleBuffer). After 2^32 bytes `circle_buffer_read` finds nothing to read in a buffer that is
  not empty (line 113). In the serial driver the transmit interrupt then switches
  itself off and the send buffer never drains.
* **Broken sensor** (`SensorErrorStops`, Compressor). A request for a new evaluation carries the reading cached
  when it was posted (line 197). Queued behind a newer error it is handled as a
  good reading and starts the compressor, until the next reading.
* **Torn record** (`NextOffsetIsWritable`, EnvStore). A record cut short is not
  valid, so the search for the next record to write returns its offset
  (`bootloader_if.c:405`), which flash refuses; every later save fails.
* **Failed flush** (`SavedIsStored`, `ReadIsCurrent`, EnvStore with
  `Failures = TRUE`). A flush
  that fails after its second step leaves a record in bank2 that outlives later
  saves.
* **Limits of a broken sensor.** Limits that arrive while the temperature is an
  error are not passed on to the compressor (`alarm_task.c:262`), and nobody
  sends them again when the sensor recovers (`HandleConfig`).
* **A second initialisation of the network** starts the chain of the report task
  again, whatever step is due. The question for a new firmware or a running
  download is given up, and a timeout that was queued already makes two chains
  that share one timer and one event, of which each may overwrite the other's
  event for ever; `UpgradeIsAsked`, `DownloadFits` and `Activates` therefore speak
  of the first initialisation. `ChainGoesOn` holds for all, and `OneChain` says
  that nothing but such a notice adds a chain.
* **Wifi is tried again** (`WifiIsTriedAgain`, Network). A wifi whose
  initialisation failed is not queried, counts no errors, and is initialised
  only when the gsm module is lost ("需要重新初始化", `net_task.c:428`).
* **Dropped query.** A query that the full queue of the network task drops ends
  the polling of its module until the next initialisation.
* **A success without a response** (`SuccessIsComplete`, Http). A send or a
  receive that times out with no byte at all ends in the error handler with
  `rc = 0`, which the caller takes for success ("返回：0：成功 其他：失败",
  `http_client.c:356`). A firmware download then writes the page it still holds;
  the digest finds it later.
* **After an oversize response** (`http_client.c:428`) the memory, the gsm handle
  and the only receive buffer stay taken, and requests over gsm fail without a
  buffer until an undefined `connected` happens to close the old handle;
  `GivenBack` counts these responses in `leaks`. A wifi connection of the same number
  finds the bytes that were left.
* **After a late answer** a connection may still be open when its handle is used
  again. The module says ALREADY CONNECT, which counts as success
  (`socket.c:357`), and the request speaks to the server of the one before:
  `OwnServer` and `ReceivesItsOwn` hold while `~late`.

## 4. Fairness

CompressorLossy assumes weak fairness of the handler, the timer daemon and the
tick: the scheduler is preemptive, the task blocks only in `osMessageGet`, and
nothing of higher priority runs for ever. Nothing is assumed of the alarm task,
and the two liveness properties speak of runs in which no message was dropped.
Alarm assumes that the sensors are read for ever (the ADC task does so
periodically) and that its handler goes on.
Serial assumes that an enabled transmit interrupt fires and that a task between
two critical sections goes on; nobody has to call anything. FirmwareUpdate
assumes that the bootloader, which runs alone, goes on; cuts are unrestricted and
`UpdateEnds` speaks of runs in which they stop.
Report assumes that the task, its timers and the second of the two puts of the
network task go on, and strong fairness of the requests that succeed: the server
answers a request that is repeated for ever. Nothing is assumed of downloads.
Network assumes that the task and its timers go on, not that a module ever works.
Http assumes weak fairness of a request: every call of a socket has a timeout.
The loop over chunks also ends with the timer of the whole request
(`http_client.c:363`), which the model leaves out: that the buffer fills is enough.

## 5. Proofs

The modules whose names end in `Proofs` are checked by TLAPS. Their theorems hold
for all constants that satisfy the named assumptions of the modules; what a
theorem assumes beyond them is in its statement. The inductive invariants were
checked by TLC on the instances of the runs before they were proved.

### Compressor

* `TypeCorrect`: the type invariant is inductive; `PutOK` and `TailOK` carry the
  queue, `TimersSet` the timers.
* `LockedCompressorIsOff`: `LockedIsOff` alone is not inductive, because a
  reading starts the compressor in a status the lock branch set; `PinInv` adds
  that `WORK` means powered, unlocked and configured.
* `WakeupsAreNotForgotten`: each status's timeout stays pending until its own
  message is handled (`PendingKept`), and whatever sets a status starts its
  timer.
* `EvaluationsAreNotForgotten` (`ReadingIsActedOn`): a pending evaluation is handled or recorded as
  lost (`HandlerKeeps`, `SelfPending`); a handled one decides with the reading it
  caches.
* `QueueLosesNothing` (`Prompt`, queue >= burst + 4): the queue and the due
  timers together never exceed the burst so far plus four, because the handler
  takes one message for the one it may post.
* `UnlockedPauses` (`UnlockedAssumption`: no `"LOCK"` among the configurations,
  and the history counts far enough for the longest pause; it holds for late
  handlers and dropped messages, too): the strengthened
  invariant says that at most one pause is pending at a time, that its timeout
  is queued at most once, only after its time has passed, and only in its
  statuses.
* `RunsAreBounded` (`UnlockedAssumption`, `Prompt`, and a run that drops
  nothing): `BoundedRun` needs `RunInv`, that while the pin is on either the
  working timer runs and what it has left and what was worked add up to no more than the
  working time, or its timeout is queued and the time is not exceeded yet.
  `RunsAreBoundedWithRoom` discharges the dropped messages with
  `QueueLosesNothing`. A dropped working timeout leaves the compressor on until it
  is cold, so without one of the two it does not hold.
* `SymbolTellsThePin` (`DisplayPut = {TRUE}`, that the display takes its
  messages): the only lemma is that every branch that moves the pin tells the display.

### Circle buffer and serial driver

`SerialSafe` and `ReceiverStaysAwake` assume `Limit < Modulus`: the counters
have not wrapped, without which neither holds (section 3). Each counter is then the number
of bytes that passed (`BufferOK`), from which overruns and both wake-up invariants follow for
any number of tasks.
`RingIsFifo`: the circle buffer implements `ByteFifo`, for any size, any contents
and any bytes, through every wrap of its counters: their difference modulo the
width is what is held (`UsedAfter`), and as the size divides the width, a wrapped
counter has the slot the unwrapped one would have (`PlaceOfWrite`). Its module is an instance in `SerialProofs`, whose lemmas on
cursors both use; `Buffer!SizeAssumption` repeats the assumption of `CircleBuffer`
on its size, which an instance does not bring along. The mapping `Held` is the
storage from `read` to `write`; `SlotsDiffer` (two counters less than the size
apart have different slots) gives that a write puts every byte into a slot of
its own (`SlotsAreOne`) and into none that is held, and `ReadTakesOldest` and
`WriteAppends` turn that into `SubSeq` and `\o`.

### Alarm task

`TypeCorrect`, `DisplayIsCurrent` and `ErrorsAreReportedOnce` follow from one
invariant. `ShownIsCurrent` is kept by every step (`ShownInv`, which says it for
a queue and a unit): a handled reading is shown, and new limits post the value again.
`ErrorReportedOnce` is a statement about the head of the queue; the invariant
(`AlternateInv`) is about the line of places what was reported last, what is
queued in order, and what the sensor task may post next: between two
errors in that line there is a good reading, unless the queue dropped one.
`AlarmAssumption` says that the model value `None` (nothing reported yet) is
not the report of an error.

### Environment store

`BanksImplementRegister` and `ReadsAreCurrent`, for banks of any size and any
environments. They assume `~Failures`: no flash operation fails while bank2 holds
an environment and power stays on, though power may be cut at and within any of
them, and any may fail before. This is not a convenience:
a flush that fails in its middle leaves a record in bank2 that outlives later saves
(section 3), so the refinement is false without it. The invariant behind both
(`StoreIsSafe`): while bank2 holds no record, bank1 is a log (`LogInv`), valid
records first and nothing valid behind them, so that the last one found is the
last one written; and each place in an initialisation or a save says which of the
two banks holds the value at that moment (`InitStage`, `SaveStage`). Every flash operation then leaves
the stored value as it is or is the one moment at which a save or the first boot
sets it, and so does every cut, whatever it leaves of a record or an erased page.

### Firmware update

`StartedAppIsWhole`, `FormerAppIsWhole` and `KeptAppIsConfirmed`, for any
firmwares, any number of pages and any swap block. None of the three is
inductive; the invariant (`UpdateIsSafe`) is `Durable`: the flash keeps the
promises of the saved environment and of the environment about to be saved, since a cut
may fall on either side of the save. While two regions are exchanged the promise
is one formula for the four steps of a block: the offsets say how far the
exchange is (`OffsetsOK`), they tell in which of the three regions every page of the
old firmware is (`OldPages`), and in which of two every page of the new one
(`NewPages`). Each of the three copies of an exchange has two lemmas: cut
anywhere it destroys nothing that is promised, since its source is whole and its
destination promises nothing (`...Keeps`), and completed it fulfils the promise of the next step
(`...Moves`). That a saved environment names a confirmed firmware unless it
asks for a confirmation (`KeptInv`) is a separate conjunct.

### Report task

For queues, fault rings and firmwares of any size:

* `ChainNeverStops`, `LogNeverStops`, `FaultsAreNotForgotten`: of the message, the
  running timer and the timer about to be started of a work at least one is
  there after every branch; expiring and taking a message only move it. The three
  are one inductive invariant (`GoesOn`).
* `ChainIsOne`: each step trades the places of the chain for one another (a
  message for the start of the timer, that for the running timer, the timer for a
  message), so that their number is bounded by the notices (`PlacesInv`); the lemmas
  count the chain's messages in a queue that loses its head or takes one more.
* `FirmwareIsAskedFor`, `DownloadsFit`, which speak of the first
  initialisation of the network (section 3): `OneInv` says that the chain is at
  one place at most and nowhere before the network's notice, that the event due there is one that fits what the
  device has done so far (`StageOK`), and that what is left of a running download fits
  (`Fits`). That the question is asked is then `ChainGoesOn`
  with the one event that fits an active device without an answer.
* `FaultsReachTheServerInOrder`: what the ring holds is the interval from `read`
  to `write`; two numbers less than the size apart have different slots (a lemma
  on `%`), so a write cannot touch a fault that is held, and only the fault at `read` is ever sent.

### Network task

For any queue and any count of errors: `PollingNeverStops`
(an expiring timer hands its query to the queue, a handled query starts its
timer or leads to `Tell`, which starts both) and `OfferedIsInitialised`, which
needs that an initialised gsm module has its SIM card, because it is offered
again without another look.

### Requests

For any number of handles, connections, servers and chunks:
`TypeCorrect`, `EverythingIsGivenBack`, `RequestsReceiveTheirOwn`, `RequestsTalkToTheirServer`
and `PartsAreNoSuccess` follow from one inductive invariant. Its parts say what
each place in a request holds: the memory (`HeapInv`), the handle and the
buffer (`PoolInv`), which `connected` and `handle` describe once the connect has
succeeded; that a socket nobody holds is closed while the modules answer in
time (`PeerInv`); whose bytes the buffer has (`FromInv`); and that a partial
response goes with an error or a positive count (`PartInv`).

### Only model-checked

Every safety property of the passing runs and both refinements are proved. What
stays with TLC is liveness (`WarmIsCooled`, `ColdIsLeftAlone`,
`SettledIsAccepted`, `SendDrains`, `UpdateEnds`, `FaultsArrive`, `Activates`,
`InitEnds`, `RequestEnds`): fairness is out of the prover's reach. The two
violated properties are counterexamples, and the definitions of section 3 that
no run lists are observations made with TLC.

## 6. Plan

1. `Alarm` composed with `Compressor`: what it posts is what `Compressor`
   assumes of its environment, including locks that the alarm queue drops.
2. `EnvClients`: the network and the report task reading, waiting and saving the
   environment concurrently, on top of `DurableEnv`; two concurrent saves on top
   of `EnvStore`; saves that fail under `FirmwareUpdate`.
3. `Display`: the blink timer; `At`: the matching of late answers.
4. Proofs: the types of `Network` and `EnvStore`, which their invariants use but
   no theorem names; with item 1, that the posts of `Alarm` are steps of the
   environment of `Compressor`.

## 7. Not modelled

The display task has no control but a blink timer that its own message restarts.
The AT layer sends the text of a command, flushes what arrived before, and
compares answers with substrings; `Http` and `Network` have what it may do to
their commands: work, fail, or be done although nobody was told. The network
task's read, wait and save of the wifi configuration is one step: at power on the
report task is told only afterwards, but a wifi that was dead at power on and
is configured later may take back what the report task saved during the wait
(`net_task.c:221`). The host name of the time server and the
correction of the time of a fault (`report_task.c:1445`) are data.

The bit patterns of the display controller, the text of AT commands, HTTP
messages and JSON, the conversion of ADC values, MD5 and the debug console are
data without control. Pin access and start-up run once. The HAL, FreeRTOS, the
cloud SDK, cJSON and the log library are vendored; what the modelled code needs
of them (queues, timers, the tick, the flash) is part of the modules and marked
external. Opening and closing serial ports happens once at start;
`serial_close` and `serial_destroy` are never called.
